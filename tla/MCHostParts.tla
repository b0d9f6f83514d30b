---------------------------- MODULE MCHostParts ----------------------------
(***************************************************************************)
(* What a host does beside its runs, one component to a behaviour: the     *)
(* cook of an SSH runner, the connection that brings taps, the calls to    *)
(* Discord, the HOST card and its text verbs, the Puppetmaster inbox, the  *)
(* GitHub wake, the status it tells, the preferences it follows, the slash *)
(* commands and their registration, and the schedules.  The initial state  *)
(* picks the component, its variables stand in x1, x2, ..., those it has   *)
(* no use for are 0, and every step is a step of that component.           *)
(***************************************************************************)
EXTENDS Parts, Naturals, Sequences, FiniteSets, TLC

Ssh == INSTANCE SshCook WITH
    bridge <- x1, pc <- x2, ssh <- x3, remote <- x4, hold <- x5, sent <- x6,
    pipe <- x7, line <- x8, listed <- x9, pid <- x10, sidecar <- x11,
    known <- x12, mirrored <- x13, answer <- x14, written <- x15, push <- x16,
    requested <- x17, status <- x18, tap <- x19, answers <- x20, faults <- x21,
    crashes <- x22, history <- x23, Reqs <- {"r"}, MaxAnswers <- 1,
    MaxFaults <- 1, MaxCrashes <- 1

Gateway == INSTANCE Gateway WITH
    phase <- x1, session <- x2, seen <- x3, resuming <- x4, greeted <- x5,
    ready <- x6, health <- x7, attempt <- x8, wire <- x9, attached <- x10,
    owes <- x11, silent <- x12, discord <- x13, urlDead <- x14, got <- x15,
    taps <- x16, faults <- x17, MaxTaps <- 2, MaxFaults <- 3, AttemptCap <- 2

Rest == INSTANCE Rest WITH
    at <- x1, left <- x2, ahead <- x3, cool <- x4, room <- x5, shown <- x6,
    painted <- x7, calls <- x8, faults <- x9, Threads <- {"a", "b"},
    Chunks <- 2, RateRetries <- 1, Transients <- 1, Cap <- 1, MaxCalls <- 1,
    MaxFaults <- 1

Desk == INSTANCE Desk WITH
    armed <- x1, operators <- x2, roleOn <- x3, gated <- x4, halted <- x5,
    grants <- x6, pending <- x7, asks <- x8, at <- x9, said <- x10,
    cooks <- x11, taps <- x12, faults <- x13, crashes <- x14,
    Users <- {"ann", "bob"}, Holders <- {"bob"}, Grants <- {"write", "tool"},
    Require <- FALSE, MaxTaps <- 2, MaxFaults <- 1, MaxCrashes <- 0

Inbox == INSTANCE PmInbox WITH
    pm <- x1, old <- x2, row <- x3, cards <- x4, shows <- x5, replies <- x6,
    claimed <- x7, steered <- x8, at <- x9, faults <- x10, crashes <- x11,
    lapsed <- x12, Jobs <- {"j"}, MaxMoves <- 3, MaxReplies <- 2,
    MaxFaults <- 1, MaxCrashes <- 1

Wake == INSTANCE Wake WITH
    pr <- x1, changes <- x2, rule <- x3, bound <- x4, thread <- x5,
    attention <- x6, claimed <- x7, done <- x8, at <- x9, faults <- x10,
    lapsed <- x11,
    MaxPushes <- 1, MaxChecks <- 1, MaxComments <- 1, MaxFaults <- 1

Status == INSTANCE HostStatus WITH
    world <- x1, socket <- x2, gwfile <- x3, live <- x4, digest <- x5,
    shown <- x6, rpc <- x7, hook <- x8, op <- x9, moves <- x10, faults <- x11,
    history <- x12, MaxMoves <- 1, MaxFaults <- 1

Wiring == INSTANCE Wiring WITH
    binding <- x1, env <- x2, exported <- x3, environ <- x4, inbox <- x5,
    stored <- x6, flag <- x7, todo <- x8, seen <- x9, jobs <- x10,
    cooked <- x11, told <- x12, wrote <- x13, ops <- x14, faults <- x15,
    history <- x16, Chans <- {"c"}, Names <- {"r1"}, Unknown <- "u",
    Hosts <- {"h1"}, Claims <- [h \in {"h1"} |-> {"c"}], Clis <- {"cli"},
    MaxOps <- 2, MaxFaults <- 0

Slash == INSTANCE Slash WITH
    mode <- x1, operators <- x2, realm <- x3, tap <- x4, queue <- x5,
    cooked <- x6, moves <- x7, faults <- x8, Users <- {"u1"}, Taps <- 1..2,
    Chans <- {"c1", "c2"}, Require <- FALSE, MaxMoves <- 1, MaxFaults <- 0

Commands == INSTANCE SlashRegistration WITH
    disk <- x1, running <- x2, home <- x3, registered <- x4, stamp <- x5,
    reg <- x6, starts <- x7, faults <- x8, history <- x9,
    Cmds <- {"ask", "bind"}, Guilds <- {"g1", "g2"}, MaxVersion <- 2,
    MaxRuns <- 2, MaxFaults <- 1

Schedules == INSTANCE Schedules WITH
    now <- x1, armed <- x2, halted <- x3, allowed <- x4, nextMs <- x5,
    fired <- x6, untold <- x7, mark <- x8, cards <- x9, at <- x10, taps <- x11,
    faults <- x12, lapsed <- x13, Every <- 2, Day <- 2, Hour <- 1, Week <- 2,
    MaxTime <- 4, MaxTaps <- 1, MaxFaults <- 1

-----------------------------------------------------------------------------
HostInit ==
    \/ part = "ssh" /\ Ssh!Init
    \/ part = "gateway" /\ Gateway!Init /\ Free18
    \/ part = "rest" /\ Rest!Init /\ Free10
    \/ part = "desk" /\ Desk!Init /\ Free15
    \/ part = "inbox" /\ Inbox!Init /\ Free13
    \/ part = "wake" /\ Wake!Init /\ Free12
    \/ part = "status" /\ Status!Init /\ Free13
    \/ part = "wiring" /\ Wiring!Init /\ Free17
    \/ part = "slash" /\ Slash!Init /\ Free9
    \/ part = "register" /\ Commands!Init /\ Free10
    \/ part = "schedules" /\ Schedules!Init /\ Free14

SshDoes(A) == part = "ssh" /\ A /\ UNCHANGED part
GatewayDoes(A) == part = "gateway" /\ A /\ UNCHANGED part /\ Keep18
RestDoes(A) == part = "rest" /\ A /\ UNCHANGED part /\ Keep10
DeskDoes(A) == part = "desk" /\ A /\ UNCHANGED part /\ Keep15
InboxDoes(A) == part = "inbox" /\ A /\ UNCHANGED part /\ Keep13
WakeDoes(A) == part = "wake" /\ A /\ UNCHANGED part /\ Keep12
StatusDoes(A) == part = "status" /\ A /\ UNCHANGED part /\ Keep13
WiringDoes(A) == part = "wiring" /\ A /\ UNCHANGED part /\ Keep17
SlashDoes(A) == part = "slash" /\ A /\ UNCHANGED part /\ Keep9
CommandsDoes(A) == part = "register" /\ A /\ UNCHANGED part /\ Keep10
SchedulesDoes(A) == part = "schedules" /\ A /\ UNCHANGED part /\ Keep14

SshStep == SshDoes(Ssh!Next)
GatewayStep == GatewayDoes(Gateway!Next)
RestStep == RestDoes(Rest!Next)
DeskStep == DeskDoes(Desk!Next)
InboxStep == InboxDoes(Inbox!Next)
WakeStep == WakeDoes(Wake!Next)
StatusStep == StatusDoes(Status!Next)
WiringStep == WiringDoes(Wiring!Next)
SlashStep == SlashDoes(Slash!Next)
CommandsStep == CommandsDoes(Commands!Next)
SchedulesStep == SchedulesDoes(Schedules!Next)

HostNext ==
    \/ SshStep
    \/ GatewayStep
    \/ RestStep
    \/ DeskStep
    \/ InboxStep
    \/ WakeStep
    \/ StatusStep
    \/ WiringStep
    \/ SlashStep
    \/ CommandsStep
    \/ SchedulesStep

HostSpec == HostInit /\ [][HostNext]_vars

(* The fairness each component's module states.  The part never changes,   *)
(* so a disjunction of actions of several components is fair exactly to    *)
(* the one that belongs to the part.                                       *)
HostFairness ==
    /\ WF_vars(\/ SshDoes(Ssh!CookStep) \/ GatewayDoes(Gateway!ClientStep)
               \/ InboxDoes(Inbox!TickStep) \/ WakeDoes(Wake!HostStep)
               \/ SchedulesDoes(Schedules!HostStep)
               \/ RestDoes(Rest!ThreadStep("a")) \/ DeskDoes(Desk!ThreadStep("gateway"))
               \/ StatusDoes(Status!ClearAlert) \/ WiringDoes(Wiring!Sync)
               \/ SlashDoes(Slash!Take) \/ CommandsDoes(Commands!Load))
    /\ WF_vars(\/ SshDoes(Ssh!CancelStep) \/ GatewayDoes(Gateway!AckAges)
               \/ RestDoes(Rest!ThreadStep("b")) \/ DeskDoes(Desk!ThreadStep("loop"))
               \/ StatusDoes(Status!SocketReady) \/ WiringDoes(Wiring!Work("loop"))
               \/ SlashDoes(Slash!Handle(1)) \/ CommandsDoes(Commands!Register("host")))
    /\ WF_vars(\/ SshDoes(Ssh!RemoteRead("r") \/ Ssh!RemoteTimeout("r"))
               \/ GatewayDoes(Gateway!Give) \/ RestDoes(Rest!DiscordStep("a"))
               \/ DeskDoes(Desk!Drain) \/ StatusDoes(Status!BackoffOver)
               \/ WiringDoes(Wiring!Work("gate")) \/ SlashDoes(Slash!Handle(2))
               \/ CommandsDoes(Commands!Register("cli")))
    /\ WF_vars(\/ GatewayDoes(Gateway!Identify \/ Gateway!Resume)
               \/ RestDoes(Rest!DiscordStep("b")) \/ WiringDoes(Wiring!Work("cli")))
    /\ SF_vars(StatusDoes(Status!Tick(TRUE, TRUE)))
    /\ \A t \in Status!Threads : WF_vars(StatusDoes(Status!Step(t)))
    /\ \A r \in Rest!Routes : WF_vars(RestDoes(Rest!WindowPasses(r)))
    /\ WF_vars(RestDoes(Rest!CooldownPasses))

HostFairSpec == HostSpec /\ HostFairness

-----------------------------------------------------------------------------
(* HostTypesOK: each component's variables are of their kinds.             *)
HostTypesOK ==
    CASE part = "ssh"  -> Ssh!TypeOK      [] part = "gateway" -> Gateway!TypeOK
      [] part = "rest" -> Rest!TypeOK     [] part = "desk"    -> Desk!TypeOK
      [] part = "inbox" -> Inbox!TypeOK   [] part = "wake"    -> Wake!TypeOK
      [] part = "status" -> Status!TypeOK [] part = "wiring"  -> Wiring!TypeOK
      [] part = "slash" -> Slash!TypeOK   [] part = "register" -> Commands!TypeOK
      [] part = "schedules" -> Schedules!TypeOK

(* OnceInOrder: a tap is neither lost to a reconnect, a resume or a replay *)
(* nor obeyed twice, and taps arrive in their order (Gateway!OnceInOrder). *)
OnceInOrder == part = "gateway" => Gateway!OnceInOrder

(* OncePerChunk: no retry shows a chunk of a text twice or leaves a gap,   *)
(* and a text that raised stands as its first chunks (Rest!OncePerChunk).  *)
OncePerChunk == part = "rest" => Rest!OncePerChunk

(* DeskHolds: stranger, unpaired and Off stay shut out, whatever taps and  *)
(* text verbs cross (Desk!DeskHolds).                                      *)
DeskHolds == part = "desk" => Desk!DeskHolds

(* InboxOnce: over ticks that break off and restarts a reply steers once   *)
(* and is not lost, and a new job gets one card (PmInbox!SteerOnce,        *)
(* PmInbox!OneCardNewJobs).                                                *)
InboxOnce == part = "inbox" => Inbox!SteerOnce /\ Inbox!OneCardNewJobs

(* WakesOnce: over polls, followers and restarts a comment or a failing    *)
(* check is posted once and a rule acts once (Wake!WakesOnce).             *)
WakesOnce == part = "wake" => Wake!WakesOnce

(* SlotsKept: slots that passed while the channel was Off or halted become *)
(* no storm of jobs and are told in a Catch-up briefing; a day has one     *)
(* morning card, as long as its watermark could be read and written        *)
(* (Schedules!NoStorm, Schedules!SkipsTold).                               *)
SlotsKept == part = "schedules" => Schedules!NoStorm /\ Schedules!SkipsTold

(* HostRests: in the end, whatever failed on the way: no remote tool call  *)
(* is held, no answer for one is left on the host, the buttons are back or *)
(* the host is told that Discord is down, no thread is inside a call or a  *)
(* tap, the cards show what Puppetmaster and GitHub say, the digest and    *)
(* the presence are those of the host, its flags follow the preferences,   *)
(* every slash command is answered and every ask taken, no registration is *)
(* open, and no schedule is left due.                                      *)
HostRests ==
    <>[](/\ part = "ssh" => Ssh!Queue!NoneHeld /\ Ssh!NoneUndelivered
         /\ part = "gateway" => Gateway!Connected
         /\ part = "rest" => Rest!CallsReturned
         /\ part = "desk" => Desk!DeskRests
         /\ part = "inbox" => Inbox!CardFollows
         /\ part = "wake" => Wake!WakesTell
         /\ part = "status" => Status!StatusRests
         /\ part = "wiring" => Wiring!FlagFollows
         /\ part = "slash" => Slash!SlashRests
         /\ part = "register" => Commands!RegistrationRests
         /\ part = "schedules" => Schedules!SlotsServed)
=============================================================================
