---------------------------- MODULE MCDeskParts ----------------------------
(***************************************************************************)
(* What people see and press, one component to a behaviour: the desk of    *)
(* gated writes, the card of an in-process hold, the status digests, the   *)
(* HOST panel and the tags of a forum post.  The initial state picks the   *)
(* component, its variables stand in x1, x2, ..., those it has no use for  *)
(* are 0, and every step is a step of that component.                      *)
(*                                                                         *)
(* RunDesk is taken with its theorems, which PartsProofs uses; TLC has no  *)
(* use for these.                                                          *)
(***************************************************************************)
EXTENDS Parts, Naturals, Sequences, FiniteSets, TLC

TapDesk == INSTANCE RunDeskProofs WITH
    gate <- x1, grant <- x2, halted <- x3, made <- x4, intake <- x5, pc <- x6,
    row <- x7, awaiting <- x8, lock <- x9, look <- x10, act <- x11,
    taps <- x12, asks <- x13, aim <- x14, todo <- x15, old <- x16, used <- x17,
    halts <- x18, crashes <- x19, history <- x20, MaxRuns <- 3, MaxTaps <- 3,
    MaxHalts <- 1, MaxCrashes <- 0

TapAsk == INSTANCE AskHold WITH
    hold <- x1, heard <- x2, file <- x3, gate <- x4, status <- x5, card <- x6,
    op <- x7, taps <- x8, history <- x9,
    Kinds <- {"tool", "ask", "multi", "plan"}, MaxHolds <- 1, MaxTaps <- 2

Digest == INSTANCE HostStatus WITH
    world <- x1, socket <- x2, gwfile <- x3, live <- x4, digest <- x5,
    shown <- x6, rpc <- x7, hook <- x8, op <- x9, moves <- x10, faults <- x11,
    history <- x12, MaxMoves <- 2, MaxFaults <- 1

Panel == INSTANCE Panel WITH
    jobs <- x1, attn <- x2, power <- x3, panels <- x4, card <- x5, down <- x6,
    need <- x7, pending <- x8, forms <- x9, picked <- x10, op <- x11,
    taps <- x12, moves <- x13, faults <- x14, history <- x15, Runs <- {"r"},
    Users <- {"u"}, MaxPanels <- 2, MaxTaps <- 2, MaxMoves <- 2, MaxFaults <- 1

Tags == INSTANCE ForumTags WITH
    isForum <- x1, avail <- x2, tags <- x3, forum <- x4, row <- x5, runs <- x6,
    last <- x7, op <- x8, known <- x9, moves <- x10, binds <- x11,
    faults <- x12, history <- x13, Cooks <- {"c1", "c2"}, UserTags <- {"a"},
    Cap <- 2, MaxMoves <- 1, MaxBinds <- 1, MaxFaults <- 1

-----------------------------------------------------------------------------
DeskInit ==
    \/ part = "desk" /\ TapDesk!Init /\ Free21
    \/ part = "ask" /\ TapAsk!Init /\ Free10
    \/ part = "status" /\ Digest!Init /\ Free13
    \/ part = "panel" /\ Panel!Init /\ Free16
    \/ part = "tags" /\ Tags!Init /\ Free14

TapDeskDoes(A) == part = "desk" /\ A /\ UNCHANGED part /\ Keep21
TapAskDoes(A) == part = "ask" /\ A /\ UNCHANGED part /\ Keep10
DigestDoes(A) == part = "status" /\ A /\ UNCHANGED part /\ Keep13
PanelDoes(A) == part = "panel" /\ A /\ UNCHANGED part /\ Keep16
TagsDoes(A) == part = "tags" /\ A /\ UNCHANGED part /\ Keep14

TapDeskStep == TapDeskDoes(TapDesk!Next)
TapAskStep == TapAskDoes(TapAsk!Next)
DigestStep == DigestDoes(Digest!Next)
PanelStep == PanelDoes(Panel!Next)
TagsStep == TagsDoes(Tags!Next)

DeskNext ==
    \/ TapDeskStep
    \/ TapAskStep
    \/ DigestStep
    \/ PanelStep
    \/ TagsStep

DeskSpec == DeskInit /\ [][DeskNext]_vars

-----------------------------------------------------------------------------
(* DeskTypesOK: each component's variables are of their kinds.             *)
DeskTypesOK ==
    CASE part = "desk"   -> TapDesk!TypeOK     [] part = "ask"   -> TapAsk!TypeOK
      [] part = "status" -> Digest!TypeOK   [] part = "panel" -> Panel!TypeOK
      [] part = "tags"   -> Tags!TypeOK

(* TappedWrites: three taps on one run, by phone and loop, let no write    *)
(* start that nobody allowed, and no run start twice                       *)
(* (RunDesk!AllowedWrites, RunDesk!StartOnce).                             *)
TappedWrites == part = "desk" => TapDesk!AllowedWrites /\ TapDesk!StartOnce

(* AnswersTrue: a worker is told yes only if somebody said yes, and the    *)
(* options it is told are those that were ticked on the card               *)
(* (AskHold!YesWasSaid, AskHold!PickedHeard).                              *)
AnswersTrue == part = "ask" => TapAsk!YesWasSaid /\ TapAsk!PickedHeard

(* ShownTrue: what Discord shows is how things are, or a notice says that  *)
(* it is not: a parked run has its buttons (RunDesk!ParkedShown), the last *)
(* digest is the stored one and a Halt is told once                        *)
(* (HostStatus!StatusTold, HostStatus!HaltTold), the panel's Needs and     *)
(* power are those of the store and no Continue is hidden (Panel!LagTold,  *)
(* Panel!PowerShown, Panel!NoHiddenContinue), a forum post wears its run's *)
(* tag (ForumTags!TagTrue).                                                *)
ShownTrue ==
    /\ part = "desk" => TapDesk!ParkedShown
    /\ part = "status" => Digest!StatusTold /\ Digest!HaltTold
    /\ part = "panel" => Panel!LagTold /\ Panel!PowerShown /\ Panel!NoHiddenContinue
    /\ part = "tags" => Tags!TagTrue

(* PressesKept: no press undoes what it did not name: clearing the Needs   *)
(* cancels no run that lives (Panel!SparesLive), and tagging a post keeps  *)
(* the tags its author had set when it was read (ForumTags!TagsAsSeen).    *)
PressesKept ==
    [][/\ part = "panel" => Panel!Spares
       /\ part = "tags" => Tags!AsSeen]_vars
=============================================================================
