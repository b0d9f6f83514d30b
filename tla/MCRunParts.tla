----------------------------- MODULE MCRunParts -----------------------------
(***************************************************************************)
(* What a run goes through, one component to a behaviour: the message it   *)
(* comes from and its replays, the pool that starts it, its cook, the desk *)
(* where it is asked for, parked, allowed, denied and continued, the hold  *)
(* of one tool call, for the hook of a worker process and inside the host, *)
(* and the follow-ups of its thread. The initial state picks the           *)
(* component, its variables stand in x1, x2, ..., those it has no use for  *)
(* are 0, and every step is a step of that component.                      *)
(*                                                                         *)
(* All but AskHold are taken with their theorems, which PartsProofs uses;  *)
(* TLC has no use for these.                                               *)
(***************************************************************************)
EXTENDS Parts, Naturals, Sequences, FiniteSets, TLC

WriteAsk == [channel |-> "c", names |-> None, writes |-> TRUE]
CompoundCall == [kind |-> "tool", tool |-> "compound"]

Intake == INSTANCE IntakeProofs WITH
    kind <- x1, seen <- x2, rows <- x3, attempts <- x4, watermark <- x5,
    gateway <- x6, halted <- x7, hpc <- x8, batch <- x9, whisper <- x10,
    ready <- x11, jobs <- x12, paused <- x13, slipped <- x14, unlisted <- x15,
    overlap <- x16, starts <- x17, faults <- x18, Hosts <- {"h1", "h2"},
    Kinds <- {"ask", "handoff", "fork"}, MaxMsgs <- 1, MaxStarts <- 2,
    MaxFaults <- 1, MaxAttempts <- 1

Pool == INSTANCE JobPoolProofs WITH
    binding <- x1, binds <- x2, pc <- x3, ask <- x4, lockName <- x5,
    tree <- x6, running <- x7, live <- x8, holder <- x9, done <- x10,
    collected <- x11, main <- x12, joinSet <- x13, awaited <- x14,
    Jobs <- 1..2, Channels <- {"c"}, Trees <- {"t"}, DefaultTree <- "t",
    Asks <- {WriteAsk}, MaxLive <- 2, MaxBinds <- 0

RunDesk == INSTANCE RunDeskProofs WITH
    gate <- x1, grant <- x2, halted <- x3, made <- x4, intake <- x5, pc <- x6,
    row <- x7, awaiting <- x8, lock <- x9, look <- x10, act <- x11,
    taps <- x12, asks <- x13, aim <- x14, todo <- x15, old <- x16, used <- x17,
    halts <- x18, crashes <- x19, history <- x20, MaxRuns <- 3, MaxTaps <- 2,
    MaxHalts <- 1, MaxCrashes <- 1

Hold == INSTANCE GateHoldProofs WITH
    call <- x1, hook <- x2, age <- x3, result <- x4, said <- x5, gate <- x6,
    card <- x7, tapped <- x8, taps <- x9, remembered <- x10, op <- x11,
    status <- x12, worker <- x13, cancelled <- x14, host <- x15,
    crashes <- x16, Reqs <- {"r"}, Calls <- {CompoundCall},
    Tools <- {"sh", "compound"}, Rememberable <- {"sh"}, GateOn <- TRUE,
    MaxTaps <- 1, MaxCrashes <- 1

\* LiveThread, and in it Cook.
Live == INSTANCE LiveRunProofs WITH
    taken <- x1, row <- x2, at <- x3, todo <- x4, pc <- x5, carries <- x6,
    durable <- x7, worker <- x8, pending <- x9, deliver <- x10, mark <- x11,
    origin <- x12, got <- x13, steered <- x14, late <- x15, reported <- x16,
    told <- x17, unmarked <- x18, faults <- x19, crashes <- x20, MaxMsgs <- 2,
    MaxFaults <- 1, MaxCrashes <- 1,
    shape <- x1, stage <- x2, turn <- x3, process <- x4, child <- x5,
    sidecar <- x6, requested <- x7, backend <- x8, event <- x9, result <- x10,
    memory <- x11, record <- x12, card <- x13, tap <- x14, taps <- x15,
    raises <- x16, deaths <- x17, history <- x18,
    Shapes <- {"stream", "swarm"}, Roles <- 2, MaxTaps <- 2, MaxRaises <- 1

Ask == INSTANCE AskHold WITH
    hold <- x1, heard <- x2, file <- x3, gate <- x4, status <- x5, card <- x6,
    op <- x7, taps <- x8, history <- x9,
    Kinds <- {"tool", "ask", "multi", "plan"}, MaxHolds <- 1, MaxTaps <- 1

-----------------------------------------------------------------------------
RunInit ==
    \/ part = "intake" /\ Intake!Init /\ Free19
    \/ part = "pool" /\ Pool!Init /\ Free15
    \/ part = "cook" /\ Live!Cook!Init /\ Free19
    \/ part = "desk" /\ RunDesk!Init /\ Free21
    \/ part = "hold" /\ Hold!Init /\ Free17
    \/ part = "live" /\ Live!Init /\ Free21
    \/ part = "ask" /\ Ask!Init /\ Free10

IntakeDoes(A) == part = "intake" /\ A /\ UNCHANGED part /\ Keep19
PoolDoes(A) == part = "pool" /\ A /\ UNCHANGED part /\ Keep15
CookDoes(A) == part = "cook" /\ A /\ UNCHANGED part /\ Keep19
RunDeskDoes(A) == part = "desk" /\ A /\ UNCHANGED part /\ Keep21
HoldDoes(A) == part = "hold" /\ A /\ UNCHANGED part /\ Keep17
LiveDoes(A) == part = "live" /\ A /\ UNCHANGED part /\ Keep21
AskDoes(A) == part = "ask" /\ A /\ UNCHANGED part /\ Keep10

IntakeStep == IntakeDoes(Intake!Next)
PoolStep == PoolDoes(Pool!Next)
CookStep == CookDoes(Live!Cook!Next)
RunDeskStep == RunDeskDoes(RunDesk!Next)
HoldStep == HoldDoes(Hold!Next)
LiveStep == LiveDoes(Live!Next)
AskStep == AskDoes(Ask!Next)

RunNext ==
    \/ IntakeStep
    \/ PoolStep
    \/ CookStep
    \/ RunDeskStep
    \/ HoldStep
    \/ LiveStep
    \/ AskStep

RunSpec == RunInit /\ [][RunNext]_vars

(* The fairness each component's module states.  The part never changes,   *)
(* so a disjunction of actions of several components is fair exactly to    *)
(* the one that belongs to the part.                                       *)
RunFairness ==
    /\ WF_vars(\/ PoolDoes(Pool!Reap) \/ CookDoes(Live!Cook!CookStep)
               \/ RunDeskDoes(RunDesk!GatewayStep) \/ HoldDoes(Hold!AgeRequest("r"))
               \/ LiveDoes(Live!LoopStep) \/ AskDoes(Ask!WorkerStep)
               \/ IntakeDoes(Intake!StartStep("h1")))
    /\ WF_vars(\/ PoolDoes(Pool!WaitPoll) \/ CookDoes(Live!Cook!TapStep)
               \/ RunDeskDoes(RunDesk!Verdict("loop"))
               \/ HoldDoes(Hold!HookRead("r") \/ Hold!HookTimeout("r"))
               \/ LiveDoes(Live!DeliverStep("loop"))
               \/ AskDoes(Ask!Age) \/ IntakeDoes(Intake!StartStep("h2")))
    /\ WF_vars(\/ PoolDoes(Pool!WaitJoin) \/ RunDeskDoes(RunDesk!TickExpire)
               \/ LiveDoes(Live!DeliverStep("cook"))
               \/ AskDoes(Ask!AgeCard) \/ IntakeDoes(Intake!DrainStep("h1")))
    /\ WF_vars(PoolDoes(Pool!WaitReturn) \/ RunDeskDoes(RunDesk!Age) \/ AskDoes(Ask!PhoneStep)
               \/ IntakeDoes(Intake!DrainStep("h2")))
    /\ WF_vars(\/ AskDoes(Ask!LoopStep) \/ IntakeDoes(Intake!Respawn)
               \/ LiveDoes(\E r \in Live!Runs : Live!SettleStep(r)))
    /\ WF_vars(AskDoes(Ask!ActorStep("worker")))
    /\ SF_vars(\/ CookDoes(Live!Cook!Deadline \/ Live!Cook!LastEvent)
               \/ RunDeskDoes(RunDesk!TickList) \/ AskDoes(Ask!ExpireParked)
               \/ LiveDoes(\E r \in Live!Runs : Live!StreamEnd(r)))
    /\ \A n \in 1..4 :
         WF_vars(\/ n <= 3 /\ RunDeskDoes(RunDesk!RunStep(n))
                 \/ n <= 2 /\ PoolDoes(Pool!JobStep(n))
                 \/ n \in Intake!Slots /\ IntakeDoes(Intake!JobStep(1, n)))

RunFairSpec == RunSpec /\ RunFairness

-----------------------------------------------------------------------------
(* RunTypesOK: each component's variables are of their kinds.              *)
RunTypesOK ==
    CASE part = "intake" -> Intake!TypeOK
      [] part = "pool" -> Pool!TypeOK [] part = "cook" -> Live!Cook!TypeOK
      [] part = "desk" -> RunDesk!TypeOK [] part = "hold" -> Hold!TypeOK
      [] part = "live" -> Live!TypeOK [] part = "ask" -> Ask!TypeOK

(* CookOnce: a message is cooked once, over crashes, replays and re-reads, *)
(* as long as its claim never raised and no host is started while another  *)
(* is up, and never do two hosts read the channel (Intake!CookOnce,        *)
(* Intake!OneListener).                                                    *)
CookOnce == part = "intake" => Intake!CookOnce /\ Intake!OneListener

(* NoWorkerLeft: a run that has settled, or whose host was restarted, has  *)
(* no worker left in its checkout, but one that outlived its kill, was     *)
(* never filed or was passed over by the reap (Cook!StoppedWhenSettled:    *)
(* the job was given back with its write lock; Cook!OrphanReaped: the      *)
(* restart).                                                               *)
NoWorkerLeft == part = "cook" => Live!Cook!StoppedWhenSettled /\ Live!Cook!OrphanReaped

(* OneStory: at rest a run's row, the orchestrator's mark and the card say *)
(* the same, however a Cancel met the end of its worker, as long as the    *)
(* row and the card could be written (Cook!OneStory).                      *)
OneStory == part = "cook" => Live!Cook!OneStory

(* FollowUpOnce: a follow-up never starts a second run beside the one its  *)
(* thread has, whichever register knows of it; in the life of one host it  *)
(* is steered or cooked, not both and, unless its mark was not written,    *)
(* not twice; and it is lost only if it is appended after the run's last   *)
(* look (LiveThread!OneRun, LiveThread!TakenOnce,                          *)
(* LiveThread!LostOnlyLate).                                               *)
FollowUpOnce == part = "live" => Live!OneRun /\ Live!TakenOnce /\ Live!LostOnlyLate

(* WritesAllowed: a write that the gate held starts only after an Allow or *)
(* a standing grant, and a run starts once, however the taps, the loop's   *)
(* clock, a Halt and a restart cross (RunDesk!AllowedWrites,               *)
(* RunDesk!StartOnce).                                                     *)
WritesAllowed == part = "desk" => RunDesk!AllowedWrites /\ RunDesk!StartOnce

(* RunsEnd: in the end every remembered ask is cooked, has a receipt or is *)
(* given up (unless a host was started beside a living one), every run has *)
(* left its thread, hung worker or not, and its receipt is with the caller *)
(* of the pool; no write waits for an answer that does not come and no     *)
(* tool call is held, the phone silent or the host dead; no card keeps     *)
(* buttons nobody waits for; every follow-up that was queued is taken.     *)
RunsEnd ==
    <>[](/\ part = "intake" => Intake!RowsAnswered
         /\ part = "pool" => Pool!AllCollected
         /\ part = "cook" => Live!Cook!RunEnded
         /\ part = "desk" => RunDesk!NoneParked
         /\ part = "hold" => Hold!Queue!NoneHeld
         /\ part = "ask" => Ask!CardsRest
         /\ part = "live" => Live!NoneQueued)

(* HoldIsQueue: to its worker the hold of a tool call is a GateQueue: only *)
(* a call with consent goes on, and a decision is final                    *)
(* (GateHold!ImplementsQueue).                                             *)
HoldIsQueue ==
    /\ part = "hold" => Hold!Queue!Init
    /\ [][part = "hold" => Hold!Queue!Next \/ UNCHANGED Hold!Queue!vars]_vars
=============================================================================
