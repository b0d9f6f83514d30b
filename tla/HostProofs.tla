----------------------------- MODULE HostProofs -----------------------------
(***************************************************************************)
(* Proofs about components of a host, each for any constants: SshCook,     *)
(* and as instances PmInbox, Wake, Rest, Desk, Schedules, AskHold and      *)
(* Gateway.                                                                *)
(* Where two of them use one name for two variables, the instance says     *)
(* what it is called here.                                                 *)
(*                                                                         *)
(* SshCook.  None of Recorded, AllowStops and ImplementsQueue is           *)
(* inductive.  An Allow reaches the remote worker over the host's file,    *)
(* the write-back in flight and the remote's file: Consented follows it    *)
(* there.  A Cancel stops it because the cook thread is not flushing,      *)
(* cannot begin to, and Cancel's own flush carries denies only: Stopped.   *)
(* And the pid file outlives the child because a run that closes without a *)
(* Cancel closes over a dead ssh child, which a live worker outlives only  *)
(* under one of the excuses: Ended and Excused.                            *)
(*                                                                         *)
(* PmInbox.  What a tick has still to go through are the replies from the  *)
(* anchor up to one, and all above it are claimed (ReadDown), so that the  *)
(* anchor moves over claimed ones only (ClaimedToAnchor), and the one in   *)
(* hand is claimed and no steer yet (Steering).  Wake.  What was acted on was claimed, and only *)
(* the tick that claimed it acts (ClaimedFirst, OpenedFirst).  Rest.       *)
(* Before a call its thread shows the chunks before, after it one more,    *)
(* and in between Discord's answer tells (CallOK).  Desk.  What Off has    *)
(* left to revoke covers what stands (OffClears).  Schedules.  Fired slots *)
(* and cards are counted by periods of the clock (Spaced, CardMarked).     *)
(* AskHold.  Every reply on its way to a worker, in a thread's hand, the   *)
(* metadata or the file, is backed by what was said by then                *)
(* (RepliesBacked), and the card shows the ticks of its run (CardTrue).    *)
(* Gateway.  What a session has heard is everything up to its number       *)
(* (SessionTrue), the numbers on the wire follow on from it and from each  *)
(* other, whatever closes the socket in between (WireInOrder), and Discord *)
(* sends only on a socket that has all of it so far (LinkTrue).            *)
(***************************************************************************)
EXTENDS SshCook, Integers, Sequences, TLAPS

\* The constants of the components that SshCook does not name.
CONSTANTS
    Jobs, MaxMoves, MaxReplies,                                \* PmInbox
    MaxPushes, MaxChecks, MaxComments,                         \* Wake
    Callers, Chunks, RateRetries, Transients, Cap, MaxCalls,   \* Rest
    Users, Holders, Grants, Require, MaxTaps, MaxSnags, MaxReboots, \* Desk
    Every, Day, Hour, Week, MaxTime, MaxVerbs,                 \* Schedules
    Kinds, MaxHolds, MaxTouches,                               \* AskHold
    MaxButtons, MaxCuts, AttemptCap                            \* Gateway

VARIABLES
    \* PmInbox
    pm, old, row, cards, shows, replies, claimed, steered, tick, breaks, restarts, lapsed,
    \* Wake
    pr, changes, rule, bound, place, attention, marked, done, poll, misses, waived,
    \* Rest
    call, left, ahead, cool, room, shown, painted, calls, errors,
    \* Desk
    armed, operators, roleOn, gated, halted, grants, pending, asks, press, said, cooks, taps,
    snags, reboots,
    \* Schedules
    now, running, stopped, allowed, nextMs, fired, untold, mark, briefs, sweep, verbs, slips,
    excused,
    \* AskHold
    ask, heard, file, gate, standing, card, op, touches, past,
    \* Gateway
    phase, session, readied, resuming, greeted, ready, health, attempt, wire, attached, owes,
    silent, discord, urlDead, got, buttons, cuts

Inbox == INSTANCE PmInbox WITH at <- tick, faults <- breaks, crashes <- restarts

Wake == INSTANCE Wake WITH
    thread <- place, claimed <- marked, at <- poll, faults <- misses, lapsed <- waived

Rest == INSTANCE Rest WITH at <- call, faults <- errors, Threads <- Callers

Desk == INSTANCE Desk WITH
    at <- press, faults <- snags, crashes <- reboots, MaxFaults <- MaxSnags,
    MaxCrashes <- MaxReboots

Schedules == INSTANCE Schedules WITH
    armed <- running, halted <- stopped, cards <- briefs, at <- sweep,
    taps <- verbs, faults <- slips, lapsed <- excused, MaxTaps <- MaxVerbs

Ask == INSTANCE AskHold WITH
    hold <- ask, status <- standing, taps <- touches, history <- past,
    MaxTaps <- MaxTouches

Gateway == INSTANCE Gateway WITH
    seen <- readied, taps <- buttons, faults <- cuts, MaxTaps <- MaxButtons,
    MaxFaults <- MaxCuts

-----------------------------------------------------------------------------
(* The cook of an SSH runner.                                              *)

HistoryOK ==
    history \in [consents : SUBSET Reqs, cancelled : BOOLEAN, raced : BOOLEAN,
                 record : {"none", "owed", "excused"}]

\* A flush is over requests the bridge knows, and holds what it writes.
Carries(p) ==
    /\ p.todo \subseteq known /\ p.done \subseteq known
    /\ p.step = "write" => p.req \in known /\ p.held \in Verdicts

PushOK == \A t \in Threads : Carries(push[t])

\* The cook thread waits for its flush.
CookPush == push["cook"] # NoPush => pc = "flushing"

Shape == ConstantsOK /\ TypeOK /\ HistoryOK /\ PushOK /\ CookPush

\* An Allow on file, on its way and at the remote was agreed to.
Consented ==
    /\ \A r \in Reqs : answer[r] = "allow" \/ sent[r] = "allow" => r \in history.consents
    /\ \A t \in Threads :
         push[t].step = "write" /\ push[t].held = "allow" => push[t].req \in history.consents

\* Cancel flushes between its two steps only.
CancelPush == push["cancel"] # NoPush => tap = "denying"

\* Where a cook begins no flush any more.
Halting == requested \/ pc \in {"gone", "down", "next"}

\* After a Cancel that nothing races the cook thread is out of its flush for good,
\* and Cancel's own carries denies.
Stopped ==
    history.cancelled /\ ~history.raced =>
        /\ push["cook"] = NoPush
        /\ Halting
        /\ \A r \in push["cancel"].todo : answer[r] = "deny"
        /\ push["cancel"].step = "write" => push["cancel"].held = "deny"

\* Nobody is on record before the worker is there.
NotYet == pc \in {"start", "armed"} => history.record # "owed"

\* The loop is left over a Cancel or a dead ssh child.
Ended == pc \in {"last", "look", "close"} => requested \/ ssh = "gone"

\* A worker that outlives its ssh child while the host lives has an excuse.
Excused ==
    remote = "alive" /\ ssh = "gone" /\ pc \notin {"down", "next"}
        => history.record = "excused"

CookInv ==
    /\ Shape /\ Consented /\ CancelPush /\ Stopped
    /\ NotYet /\ Ended /\ Excused /\ Recorded

-----------------------------------------------------------------------------
Pushes == [step : {"idle", "each", "write"}, todo : SUBSET Reqs, done : SUBSET Reqs,
           req : Reqs \cup {None}, held : Verdicts \cup {None}]

\* The flush of t becomes p, and nothing else of the bridge changes.
Pushed(t, p) == push' = [push EXCEPT ![t] = p]

(* PushedType: the flush of one thread is replaced by one that fits.         *)
LEMMA PushedType ==
    ASSUME TypeOK, PushOK, NEW t \in Threads, NEW p \in Pushes,
           Pushed(t, p), Carries(p), known' = known
    PROVE  push' \in [Threads -> Pushes] /\ PushOK'
  BY DEF Pushed, PushOK, Carries, TypeOK, Pushes

(* IdlePush, FullPush: a thread that flushes nothing, and one that begins.   *)
LEMMA IdlePush == NoPush \in Pushes /\ Carries(NoPush) /\ NoPush.step = "idle"
  BY DEF NoPush, Pushes, Carries

FullPush == [NoPush EXCEPT !.step = "each", !.todo = known \ written]

LEMMA FullPushType ==
    ASSUME TypeOK
    PROVE  /\ FullPush \in Pushes /\ Carries(FullPush)
           /\ FullPush.todo = known \ written /\ FullPush.step = "each"
  BY IdlePush DEF FullPush, NoPush, TypeOK, Pushes, Carries

(* ReadPush: a flush that reads a request drops it, or goes on to write what *)
(* is on file for it.                                                        *)
LEMMA ReadPush ==
    ASSUME Shape, NEW t \in Threads, FlushRead(t)
    PROVE  \E p \in Pushes, r \in push[t].todo :
             /\ Pushed(t, p) /\ Carries(p)
             /\ p.todo = push[t].todo \ {r}
             /\ p.step = "write" => p.req = r /\ p.held = answer[r] /\ r \in Reqs
             /\ p.step # "idle"
<1>1. PICK r \in push[t].todo :
         IF answer[r] = None
         THEN push' = [push EXCEPT ![t].todo = @ \ {r}]
         ELSE push' = [push EXCEPT ![t].step = "write", ![t].todo = @ \ {r},
                                   ![t].req = r, ![t].held = answer[r]]
  BY DEF FlushRead
<1>2. /\ push[t] \in Pushes /\ push \in [Threads -> Pushes]
      /\ r \in Reqs /\ r \in known /\ answer[r] \in Verdicts \cup {None}
      /\ push[t].step = "each" /\ Carries(push[t])
  BY DEF Shape, TypeOK, Pushes, PushOK, Carries, FlushRead
<1>3. CASE answer[r] = None
  <2> DEFINE p == [push[t] EXCEPT !.todo = @ \ {r}]
  <2>1. /\ p.todo = push[t].todo \ {r} /\ p.done = push[t].done /\ p.step = "each"
        /\ p \in Pushes
    BY <1>2 DEF Pushes
  <2>2. Pushed(t, p)
    BY <1>1, <1>2, <1>3 DEF Pushed
  <2>3. Carries(p)
    BY <2>1, <1>2 DEF Carries
  <2>4. QED
    BY <2>1, <2>2, <2>3
<1>4. CASE answer[r] # None
  <2> DEFINE p == [push[t] EXCEPT !.step = "write", !.todo = @ \ {r}, !.req = r,
                                  !.held = answer[r]]
  <2>1. /\ p.todo = push[t].todo \ {r} /\ p.done = push[t].done /\ p.step = "write"
        /\ p.req = r /\ p.held = answer[r] /\ p \in Pushes
    BY <1>2 DEF Pushes
  <2>2. Pushed(t, p)
    BY <1>1, <1>2, <1>4 DEF Pushed
  <2>3. Carries(p)
    BY <2>1, <1>2, <1>4 DEF Carries
  <2>4. QED
    BY <2>1, <2>2, <2>3, <1>2
<1>5. QED
  BY <1>3, <1>4

(* BackPush: after a write, or a failed one, a flush looks at the next       *)
(* request.                                                                  *)
LEMMA BackPush ==
    ASSUME Shape, NEW t \in Threads, FlushWrite(t) \/ FlushFails(t)
    PROVE  \E p \in Pushes :
             Pushed(t, p) /\ Carries(p) /\ p.todo = push[t].todo /\ p.step = "each"
<1>1. /\ push[t] \in Pushes /\ push \in [Threads -> Pushes]
      /\ push[t].step = "write" /\ Carries(push[t])
      /\ push[t].req \in known /\ push[t].req \in Reqs
  BY DEF Shape, TypeOK, Pushes, PushOK, Carries, FlushWrite, FlushFails
<1>2. CASE FlushWrite(t)
  <2> DEFINE p == [push[t] EXCEPT !.step = "each", !.done = @ \cup {push[t].req}]
  <2>1. /\ p.todo = push[t].todo /\ p.done = push[t].done \cup {push[t].req}
        /\ p.step = "each" /\ p \in Pushes
    BY <1>1 DEF Pushes
  <2>2. Pushed(t, p)
    BY <1>1, <1>2 DEF Pushed, FlushWrite
  <2>3. Carries(p)
    BY <2>1, <1>1 DEF Carries
  <2>4. QED
    BY <2>1, <2>2, <2>3
<1>3. CASE FlushFails(t)
  <2> DEFINE p == [push[t] EXCEPT !.step = "each"]
  <2>1. /\ p.todo = push[t].todo /\ p.done = push[t].done /\ p.step = "each"
        /\ p \in Pushes
    BY <1>1 DEF Pushes
  <2>2. Pushed(t, p)
    BY <1>1, <1>3 DEF Pushed, FlushFails
  <2>3. Carries(p)
    BY <2>1, <1>1 DEF Carries
  <2>4. QED
    BY <2>1, <2>2, <2>3
<1>4. QED
  BY <1>2, <1>3
-----------------------------------------------------------------------------
(* KeepPush: who touches no flush leaves them over what the bridge knows.    *)
LEMMA KeepPush ==
    ASSUME PushOK, push' = push, known \subseteq known'
    PROVE  PushOK'
  BY DEF PushOK, Carries

(* KillType: the end of a worker ends its holds.                             *)
LEMMA KillType ==
    ASSUME TypeOK, KillRemote
    PROVE  /\ remote' = "killed"
           /\ hold' \in [Reqs -> {"none", "held", "allowed", "denied", "gone"}]
  BY DEF KillRemote, TypeOK

(* ExcuseKind: an excuse changes nothing else of the history.                *)
LEMMA ExcuseKind ==
    ASSUME HistoryOK, Excuse
    PROVE  /\ HistoryOK'
           /\ history'.consents = history.consents /\ history'.cancelled = history.cancelled
           /\ history'.raced = history.raced /\ history'.record = "excused"
  BY DEF HistoryOK, Excuse

(* ShapeInit, ShapeStep: every variable keeps to its kind, and every flush   *)
(* to the requests the bridge knows.                                         *)
LEMMA ShapeInit == ConstantsOK /\ Init => Shape
<1> SUFFICES ASSUME ConstantsOK, Init PROVE Shape
  OBVIOUS
<1>1. push \in [Threads -> Pushes] /\ PushOK
  BY IdlePush DEF Init, PushOK
<1>2. answers \in 0..MaxAnswers /\ faults \in 0..MaxFaults /\ crashes \in 0..MaxCrashes
  BY DEF ConstantsOK, Init
<1>3. TypeOK
  BY <1>1, <1>2 DEF Init, TypeOK, Pushes
<1>4. HistoryOK /\ CookPush
  BY DEF Init, HistoryOK, CookPush, Threads
<1>5. QED
  BY <1>1, <1>3, <1>4 DEF Shape

LEMMA ShapeFlush ==
    ASSUME Shape, NEW t \in Threads,
           FlushRead(t) \/ FlushWrite(t) \/ FlushFails(t) \/ FlushEnd(t)
    PROVE  Shape'
<1> USE DEF Shape, ConstantsOK, remoteVars, childVars, queueVars, boundVars
<1>1. CASE FlushRead(t)
  <2>1. push' \in [Threads -> Pushes] /\ PushOK'
    BY <1>1, ReadPush, PushedType DEF FlushRead
  <2>2. /\ UNCHANGED <<bridge, pc, remoteVars, line, childVars, queueVars, requested, status,
                       tap, boundVars, history>>
        /\ push["cook"] = NoPush => push'["cook"] = NoPush
    BY <1>1, IdlePush DEF FlushRead, TypeOK, Threads, Pushes
  <2>3. QED
    BY <2>1, <2>2 DEF TypeOK, HistoryOK, Pushes, CookPush
<1>2. CASE FlushWrite(t)
  <2>1. push' \in [Threads -> Pushes] /\ PushOK'
    BY <1>2, BackPush, PushedType DEF FlushWrite
  <2>2. push[t].held \in Verdicts /\ sent' = [sent EXCEPT ![push[t].req] = push[t].held]
    BY <1>2 DEF FlushWrite, PushOK, Carries
  <2>3. sent' \in [Reqs -> Verdicts \cup {None}]
    BY <2>2 DEF TypeOK
  <2>4. push["cook"] = NoPush => push'["cook"] = NoPush
    BY <1>2, IdlePush DEF FlushWrite, TypeOK, Threads, Pushes
  <2>5. QED
    BY <1>2, <2>1, <2>3, <2>4 DEF FlushWrite, TypeOK, HistoryOK, Pushes, CookPush
<1>3. CASE FlushFails(t)
  <2>1. push' \in [Threads -> Pushes] /\ PushOK'
    BY <1>3, BackPush, PushedType DEF FlushFails
  <2>2. faults' \in 0..MaxFaults
    BY <1>3 DEF ConstantsOK, FlushFails, SshFails, TypeOK
  <2>3. push["cook"] = NoPush => push'["cook"] = NoPush
    BY <1>3, IdlePush DEF FlushFails, TypeOK, Threads, Pushes
  <2>4. QED
    BY <1>3, <2>1, <2>2, <2>3 DEF FlushFails, TypeOK, HistoryOK, Pushes, CookPush
<1>4. CASE FlushEnd(t)
  <2>1. push' \in [Threads -> Pushes] /\ PushOK'
    BY <1>4, IdlePush, PushedType DEF FlushEnd, Pushed
  <2>2. written' \subseteq known
    BY <1>4 DEF FlushEnd, PushOK, Carries, TypeOK
  <2>3. push'["cook"] = IF t = "cook" THEN NoPush ELSE push["cook"]
    BY <1>4 DEF FlushEnd, TypeOK, Threads, Pushes
  <2>4. CookPush' /\ (t = "cook" => pc = "flushing")
    BY <1>4, <2>3, IdlePush DEF FlushEnd, CookPush
  <2>5. TypeOK'
    BY <1>4, <2>1, <2>2, <2>4 DEF FlushEnd, TypeOK, Pushes
  <2>6. QED
    BY <1>4, <2>1, <2>4, <2>5 DEF FlushEnd, HistoryOK
<1>5. QED
  BY <1>1, <1>2, <1>3, <1>4

LEMMA ShapeCook == ASSUME Shape, CookStep \/ BreakDeadline PROVE Shape'
<1> USE DEF Shape, ConstantsOK, TypeOK, HistoryOK, CookPush, remoteVars, childVars, queueVars, boundVars
<1>1. CASE Refuse
  BY <1>1, KeepPush DEF Refuse
<1>2. CASE Arm
  BY <1>2, KeepPush DEF Arm
<1>3. CASE SpawnSsh
  BY <1>3, KeepPush DEF SpawnSsh
<1>4. CASE RegisterChild
  BY <1>4, KeepPush DEF RegisterChild
<1>5. CASE TakePid
  BY <1>5, KeepPush DEF TakePid
<1>6. CASE Mirror
  BY <1>6, KeepPush DEF Mirror
<1>7. CASE Turn
  BY <1>7, KeepPush DEF Turn
<1>8. CASE BreakCancelled
  BY <1>8, KeepPush DEF BreakCancelled
<1>9. CASE BreakEnded
  BY <1>9, KeepPush DEF BreakEnded
<1>10. CASE LastEvent
  BY <1>10, KeepPush DEF LastEvent
<1>11. CASE LastLook
  BY <1>11, KeepPush DEF LastLook
<1>12. CASE Close
  <2>1. HistoryOK' /\ PushOK' /\ CookPush'
    BY <1>12, KeepPush DEF Close
  <2>2. pid' \in BOOLEAN /\ sidecar' \in {"none", "fresh", "old"}
    BY <1>12 DEF Close
  <2>3. TypeOK'
    BY <1>12, <2>2 DEF Close
  <2>4. QED
    BY <2>1, <2>3
<1>13. CASE BreakDeadline
  <2>1. HistoryOK' /\ PushOK' /\ CookPush'
    BY <1>13, KeepPush, ExcuseKind DEF BreakDeadline
  <2>2. TypeOK'
    BY <1>13 DEF BreakDeadline
  <2>3. QED
    BY <2>1, <2>2
<1>14. CASE TakeMarker
  <2>1. PICK l \in pipe \ {PidLine} :
          pipe' = pipe \ {l} /\ line' = l[1] /\ known' = known \cup {l[1]}
    BY <1>14 DEF TakeMarker
  <2>2. l[1] \in Reqs
    BY <2>1 DEF Lines
  <2>3. QED
    BY <1>14, <2>1, <2>2, KeepPush DEF ConstantsOK, TakeMarker
<1>15. CASE FlushBegin
  <2>1. CASE requested \/ known \ written = {}
    BY <1>15, <2>1, KeepPush DEF FlushBegin
  <2>2. CASE ~(requested \/ known \ written = {})
    <3>1. Pushed("cook", FullPush) /\ pc' = "flushing" /\ "cook" \in Threads
      BY <1>15, <2>2 DEF FlushBegin, Pushed, FullPush, Threads
    <3>2. push' \in [Threads -> Pushes] /\ PushOK'
      BY <1>15, <3>1, FullPushType, PushedType DEF FlushBegin
    <3>3. QED
      BY <1>15, <3>1, <3>2 DEF FlushBegin, Pushes
  <2>3. QED
    BY <2>1, <2>2
<1>16. QED
  BY <1>1, <1>2, <1>3, <1>4, <1>5, <1>6, <1>7, <1>8, <1>9, <1>10, <1>11, <1>12, <1>13,
     <1>14, <1>15, ShapeFlush DEF CookStep, Threads

LEMMA ShapeCancel == ASSUME Shape, CancelTap \/ CancelStep PROVE Shape'
<1> USE DEF Shape, ConstantsOK, HistoryOK, CookPush, remoteVars, childVars, queueVars, boundVars
<1>1. CASE CancelTap
  <2> DEFINE beaten == push["cook"] # NoPush
  <2>1. history' = [history EXCEPT !.cancelled = TRUE, !.raced = beaten] /\ beaten \in BOOLEAN
    BY <1>1 DEF CancelTap
  <2>2. HistoryOK'
    <3> HIDE DEF beaten
    <3>1. QED
      BY <2>1
  <2>3. TypeOK'
    BY <1>1 DEF CancelTap, TypeOK
  <2>4. PushOK' /\ CookPush'
    BY <1>1, KeepPush DEF CancelTap
  <2>5. QED
    BY <2>2, <2>3, <2>4
<1>2. CASE SignalRemote
  BY <1>2, KeepPush, KillType DEF SignalRemote, TypeOK
<1>3. CASE SignalLost
  <2>1. faults' \in 0..MaxFaults
    BY <1>3 DEF ConstantsOK, SignalLost, SshFails, TypeOK
  <2>2. QED
    BY <1>3, <2>1, KeepPush, ExcuseKind DEF SignalLost, TypeOK
<1>4. CASE DenyPending
  <2>1. answer' \in [Reqs -> Verdicts \cup {None}]
    BY <1>4 DEF DenyPending, TypeOK, Verdicts
  <2>2. CASE known \ written = {}
    BY <1>4, <2>1, <2>2, KeepPush DEF DenyPending, TypeOK
  <2>3. CASE known \ written # {}
    <3>1. Pushed("cancel", FullPush) /\ tap' = "denying" /\ "cancel" \in Threads
      BY <1>4, <2>3 DEF DenyPending, Pushed, FullPush, Threads
    <3>2. push' \in [Threads -> Pushes] /\ PushOK'
      BY <1>4, <3>1, FullPushType, PushedType DEF DenyPending
    <3>3. push'["cook"] = push["cook"]
      BY <3>1 DEF Pushed, TypeOK, Threads
    <3>4. QED
      BY <1>4, <2>1, <3>1, <3>2, <3>3 DEF DenyPending, TypeOK, Pushes
  <2>4. QED
    BY <2>2, <2>3
<1>5. CASE Confirm
  <2>1. HistoryOK'
    BY <1>5, ExcuseKind DEF Confirm
  <2>2. QED
    BY <1>5, <2>1, KeepPush DEF Confirm, TypeOK
<1>6. CASE Unconfirmed
  BY <1>6, KeepPush DEF Unconfirmed, TypeOK
<1>7. QED
  BY <1>1, <1>2, <1>3, <1>4, <1>5, <1>6, ShapeFlush DEF CancelStep, Threads

LEMMA ShapeRemote ==
    ASSUME Shape,
           \/ \E r \in Reqs : RemoteStep(r) \/ \E verdict \in Verdicts : PhoneAnswers(r, verdict)
           \/ RemoteEnds \/ SshExits \/ LinkDrops \/ Watchdog
    PROVE  Shape'
<1> USE DEF Shape, ConstantsOK, HistoryOK, CookPush, remoteVars, childVars, queueVars, boundVars
<1>1. ASSUME NEW r \in Reqs, RemoteHold(r) PROVE Shape'
  <2>1. pipe' \subseteq {PidLine} \cup UNION {Lines(q) : q \in Reqs}
    BY <1>1 DEF RemoteHold, TypeOK
  <2>2. QED
    BY <1>1, <2>1, KeepPush DEF RemoteHold, TypeOK
<1>2. ASSUME NEW r \in Reqs, RemoteRead(r) PROVE Shape'
  BY <1>2, KeepPush DEF RemoteRead, TypeOK
<1>3. ASSUME NEW r \in Reqs, RemoteTimeout(r) PROVE Shape'
  BY <1>3, KeepPush DEF RemoteTimeout, TypeOK
<1>4. ASSUME NEW r \in Reqs, NEW verdict \in Verdicts, PhoneAnswers(r, verdict) PROVE Shape'
  <2>1. answers < MaxAnswers /\ answers' = answers + 1 /\ answer' = [answer EXCEPT ![r] = verdict]
    BY <1>4 DEF PhoneAnswers
  <2>2. answers' \in 0..MaxAnswers /\ answer' \in [Reqs -> Verdicts \cup {None}]
    BY <2>1 DEF ConstantsOK, TypeOK
  <2>3. HistoryOK'
    BY <1>4 DEF PhoneAnswers
  <2>4. UNCHANGED <<bridge, pc, remoteVars, line, childVars, known, mirrored, written, push,
                    requested, status, tap, boundVars>>
    BY <1>4 DEF PhoneAnswers
  <2>5. QED
    BY <2>2, <2>3, <2>4, KeepPush DEF TypeOK
<1>5. CASE RemoteEnds
  BY <1>5, KeepPush DEF RemoteEnds, TypeOK
<1>6. CASE SshExits
  BY <1>6, KeepPush DEF SshExits, TypeOK
<1>7. CASE LinkDrops
  <2>1. faults' \in 0..MaxFaults
    BY <1>7 DEF ConstantsOK, LinkDrops, SshFails, TypeOK
  <2>2. QED
    BY <1>7, <2>1, KeepPush, ExcuseKind DEF LinkDrops, TypeOK
<1>8. CASE Watchdog
  BY <1>8, KeepPush, KillType DEF Watchdog, TypeOK
<1>9. QED
  BY <1>1, <1>2, <1>3, <1>4, <1>5, <1>6, <1>7, <1>8 DEF RemoteStep

LEMMA ShapeHost ==
    ASSUME Shape,
           SidecarAges \/ (\E reached \in BOOLEAN : NextCook(reached)) \/ HostDies \/ HostStarts
    PROVE  Shape'
<1> USE DEF Shape, ConstantsOK, HistoryOK, CookPush, remoteVars, childVars, queueVars, boundVars
<1>1. CASE SidecarAges
  BY <1>1, KeepPush DEF SidecarAges, TypeOK
<1>2. ASSUME NEW reached \in BOOLEAN, NextCook(reached) PROVE Shape'
  <2>1. faults' \in 0..MaxFaults
    BY <1>2 DEF ConstantsOK, NextCook, SshFails, TypeOK
  <2>2. /\ remote' \in {"none", "alive", "ended", "killed"}
        /\ hold' \in [Reqs -> {"none", "held", "allowed", "denied", "gone"}]
    BY <1>2, KillType DEF NextCook, TypeOK
  <2>3. HistoryOK'
    BY <1>2, ExcuseKind DEF NextCook
  <2>4. QED
    BY <1>2, <2>1, <2>2, <2>3, KeepPush DEF NextCook, TypeOK
<1>3. CASE HostDies
  <2>1. push' \in [Threads -> Pushes] /\ PushOK' /\ CookPush'
    BY <1>3 DEF HostDies, PushOK, Carries, NoPush, Pushes, Threads
  <2>2. crashes' \in 0..MaxCrashes
    BY <1>3 DEF ConstantsOK, HostDies, TypeOK
  <2>3. written' \subseteq known' /\ known' \subseteq Reqs /\ pipe' = {}
    BY <1>3 DEF HostDies
  <2>4. TypeOK'
    BY <1>3, <2>1, <2>2, <2>3 DEF HostDies, TypeOK, Pushes
  <2>5. QED
    BY <1>3, <2>1, <2>4 DEF HostDies
<1>4. CASE HostStarts
  BY <1>4, KeepPush DEF HostStarts, TypeOK
<1>5. QED
  BY <1>1, <1>2, <1>3, <1>4

LEMMA ShapeStep == Shape /\ [Next]_vars => Shape'
<1> SUFFICES ASSUME Shape, [Next]_vars PROVE Shape'
  OBVIOUS
<1>1. CASE UNCHANGED vars
  BY <1>1, KeepPush DEF vars, Shape, ConstantsOK, TypeOK, HistoryOK, CookPush
<1>2. CASE Next
  BY <1>2, ShapeCook, ShapeCancel, ShapeRemote, ShapeHost DEF Next, Verdicts
<1>3. QED
  BY <1>1, <1>2

(* TypeCorrect: threads, processes, files and queues of an SSH cook keep to *)
(* their kinds, and nothing is written back that the bridge does not know.   *)
THEOREM TypeCorrect == ASSUME ConstantsOK PROVE Spec => []TypeOK
<1>1. Shape => TypeOK
  BY DEF Shape
<1>2. QED
  BY <1>1, ShapeInit, ShapeStep, PTL DEF Spec

-----------------------------------------------------------------------------
Flush(t) == FlushRead(t) \/ FlushWrite(t) \/ FlushFails(t) \/ FlushEnd(t)
Answering == \E r \in Reqs, verdict \in Verdicts : PhoneAnswers(r, verdict)

\* No answer, no flush and no agreement changes.
Quiet ==
    /\ answer' = answer /\ sent' = sent /\ push' = push
    /\ history'.consents = history.consents /\ history'.cancelled = history.cancelled
    /\ history'.raced = history.raced

(* QuietStep: an Allow moves, and a Cancel is counted, in these steps only.  *)
LEMMA QuietStep ==
    ASSUME Shape, [Next]_vars
    PROVE  \/ Quiet \/ (\E t \in Threads : Flush(t)) \/ FlushBegin
           \/ CancelTap \/ DenyPending \/ Answering \/ HostDies
<1> USE DEF Quiet, remoteVars, childVars, queueVars, boundVars
<1> HistoryOK
  BY DEF Shape
<1>1. ASSUME CookStep, ~FlushBegin, ~Flush("cook") PROVE Quiet
  <2>1. CASE TakePid
    BY <2>1 DEF TakePid, HistoryOK
  <2>2. CASE Refuse \/ Arm \/ SpawnSsh \/ RegisterChild \/ TakeMarker \/ Mirror \/ Turn
    BY <2>2 DEF Refuse, Arm, SpawnSsh, RegisterChild, TakeMarker, Mirror, Turn
  <2>3. CASE BreakCancelled \/ BreakEnded \/ LastEvent \/ LastLook \/ Close
    BY <2>3 DEF BreakCancelled, BreakEnded, LastEvent, LastLook, Close
  <2>4. QED
    BY <1>1, <2>1, <2>2, <2>3 DEF CookStep, Flush
<1>2. CASE BreakDeadline
  BY <1>2, ExcuseKind DEF BreakDeadline
<1>3. ASSUME CancelStep, ~DenyPending, ~Flush("cancel") PROVE Quiet
  <2>1. CASE SignalRemote
    BY <2>1 DEF SignalRemote
  <2>2. CASE SignalLost
    BY <2>2, ExcuseKind DEF SignalLost
  <2>3. CASE Confirm
    BY <2>3, ExcuseKind DEF Confirm
  <2>4. CASE Unconfirmed
    BY <2>4 DEF Unconfirmed
  <2>5. QED
    BY <1>3, <2>1, <2>2, <2>3, <2>4 DEF CancelStep, Flush
<1>4. ASSUME NEW r \in Reqs, RemoteStep(r) PROVE Quiet
  BY <1>4 DEF RemoteStep, RemoteHold, RemoteRead, RemoteTimeout
<1>5. CASE RemoteEnds \/ SshExits \/ Watchdog
  BY <1>5 DEF RemoteEnds, SshExits, Watchdog
<1>6. CASE LinkDrops
  BY <1>6, ExcuseKind DEF LinkDrops
<1>7. ASSUME NEW reached \in BOOLEAN, NextCook(reached) PROVE Quiet
  BY <1>7, ExcuseKind DEF NextCook
<1>8. CASE SidecarAges \/ HostStarts
  BY <1>8 DEF SidecarAges, HostStarts
<1>9. CASE UNCHANGED vars
  BY <1>9 DEF vars
<1>10. QED
  BY <1>1, <1>2, <1>3, <1>4, <1>5, <1>6, <1>7, <1>8, <1>9
     DEF Next, Threads, Answering, Verdicts

(* ConsentStep: an Allow on file, in a flush or at the remote worker was     *)
(* agreed to; the flush copies it from one file to the other.                *)
LEMMA ConsentStep == Shape /\ Consented /\ [Next]_vars => Consented'
<1> SUFFICES ASSUME Shape, Consented, [Next]_vars PROVE Consented'
  OBVIOUS
<1> USE DEF Consented
<1>1. CASE Quiet
  BY <1>1 DEF Quiet
<1>2. ASSUME NEW t \in Threads, FlushRead(t) PROVE Consented'
  <2>1. PICK p \in Pushes : /\ Pushed(t, p)
                            /\ p.step = "write" /\ p.held = "allow" => p.req \in history.consents
    BY <1>2, ReadPush
  <2>2. \A u \in Threads : push'[u] = IF u = t THEN p ELSE push[u]
    BY <2>1 DEF Pushed, Shape, TypeOK
  <2>3. QED
    BY <1>2, <2>1, <2>2 DEF FlushRead, remoteVars, queueVars
<1>3. ASSUME NEW t \in Threads, FlushWrite(t) \/ FlushFails(t) PROVE Consented'
  <2>1. PICK p \in Pushes : Pushed(t, p) /\ p.step = "each"
    BY <1>3, BackPush
  <2>2. \A u \in Threads : push'[u] = IF u = t THEN p ELSE push[u]
    BY <2>1 DEF Pushed, Shape, TypeOK
  <2>3. answer' = answer /\ history' = history
    BY <1>3 DEF FlushWrite, FlushFails, remoteVars, queueVars
  <2>4. \A r \in Reqs : sent'[r] = "allow" => r \in history.consents
    <3>1. CASE FlushWrite(t)
      BY <3>1 DEF FlushWrite, Shape, TypeOK
    <3>2. CASE FlushFails(t)
      BY <3>2 DEF FlushFails, remoteVars
    <3>3. QED
      BY <1>3, <3>1, <3>2
  <2>5. QED
    BY <2>1, <2>2, <2>3, <2>4
<1>4. ASSUME NEW t \in Threads, FlushEnd(t) PROVE Consented'
  <2>1. \A u \in Threads : push'[u] = IF u = t THEN NoPush ELSE push[u]
    BY <1>4 DEF FlushEnd, Shape, TypeOK
  <2>2. QED
    BY <1>4, <2>1, IdlePush DEF FlushEnd, remoteVars
<1>5. CASE FlushBegin
  <2>1. \A u \in Threads : push'[u] = push[u] \/ push'[u] = FullPush
    BY <1>5 DEF FlushBegin, FullPush, Shape, TypeOK, Threads
  <2>2. answer' = answer /\ sent' = sent /\ history' = history
    BY <1>5 DEF FlushBegin, remoteVars, queueVars
  <2>3. QED
    BY <2>1, <2>2, FullPushType DEF Shape
<1>6. CASE CancelTap
  BY <1>6 DEF CancelTap, remoteVars, queueVars, Shape, HistoryOK
<1>7. CASE DenyPending
  <2>1. \A u \in Threads : push'[u] = push[u] \/ push'[u] = FullPush
    BY <1>7 DEF DenyPending, FullPush, Shape, TypeOK, Threads
  <2>2. sent' = sent /\ history' = history /\ \A r \in Reqs : answer'[r] \in {"deny", answer[r]}
    BY <1>7 DEF DenyPending, remoteVars
  <2>3. QED
    BY <2>1, <2>2, FullPushType DEF Shape
<1>8. ASSUME NEW r \in Reqs, NEW verdict \in Verdicts, PhoneAnswers(r, verdict) PROVE Consented'
  <2>1. /\ answer' = [answer EXCEPT ![r] = verdict] /\ sent' = sent /\ push' = push
        /\ history'.consents = IF verdict = "allow" THEN history.consents \cup {r}
                               ELSE history.consents
    BY <1>8 DEF PhoneAnswers, remoteVars, Shape, HistoryOK
  <2>2. QED
    BY <2>1 DEF Shape, TypeOK
<1>9. CASE HostDies
  BY <1>9, IdlePush DEF HostDies
<1>10. QED
  BY <1>1, <1>2, <1>3, <1>4, <1>5, <1>6, <1>7, <1>8, <1>9, QuietStep DEF Flush, Answering

-----------------------------------------------------------------------------
(* HaltingStays: a cook that was told to stop is not told to go on.          *)
LEMMA HaltingStays == Shape /\ Halting /\ [Next]_vars => Halting'
<1> SUFFICES ASSUME Shape, Halting, [Next]_vars PROVE Halting'
  OBVIOUS
<1> USE DEF Halting
<1>1. CASE CookStep
  <2>1. CASE Refuse \/ Arm \/ SpawnSsh \/ RegisterChild \/ TakePid \/ TakeMarker \/ Mirror \/ Turn
    BY <2>1 DEF Refuse, Arm, SpawnSsh, RegisterChild, TakePid, TakeMarker, Mirror, Turn
  <2>2. CASE FlushBegin \/ BreakCancelled \/ BreakEnded \/ LastEvent \/ LastLook \/ Close
    BY <2>2 DEF FlushBegin, BreakCancelled, BreakEnded, LastEvent, LastLook, Close
  <2>3. CASE FlushRead("cook") \/ FlushWrite("cook") \/ FlushFails("cook")
    BY <2>3 DEF FlushRead, FlushWrite, FlushFails
  <2>4. CASE FlushEnd("cook")
    <3>1. push["cook"] # NoPush /\ requested' = requested
      BY <2>4, IdlePush DEF FlushEnd
    <3>2. pc = "flushing"
      BY <3>1 DEF Shape, CookPush
    <3>3. QED
      BY <3>1, <3>2
  <2>5. QED
    BY <1>1, <2>1, <2>2, <2>3, <2>4 DEF CookStep
<1>2. CASE BreakDeadline
  BY <1>2 DEF BreakDeadline
<1>3. CASE CancelTap
  BY <1>3 DEF CancelTap
<1>4. CASE CancelStep
  BY <1>4 DEF CancelStep, SignalRemote, SignalLost, DenyPending, Confirm, Unconfirmed,
              FlushRead, FlushWrite, FlushFails, FlushEnd
<1>5. ASSUME NEW r \in Reqs, RemoteStep(r) PROVE Halting'
  BY <1>5 DEF RemoteStep, RemoteHold, RemoteRead, RemoteTimeout
<1>6. CASE Answering
  BY <1>6 DEF Answering, PhoneAnswers
<1>7. CASE RemoteEnds \/ SshExits \/ LinkDrops \/ Watchdog
  BY <1>7 DEF RemoteEnds, SshExits, LinkDrops, Watchdog
<1>8. CASE SidecarAges \/ \E reached \in BOOLEAN : NextCook(reached)
  BY <1>8 DEF SidecarAges, NextCook
<1>9. CASE HostDies \/ HostStarts
  BY <1>9 DEF HostDies, HostStarts
<1>10. CASE UNCHANGED vars
  BY <1>10 DEF vars
<1>11. QED
  BY <1>1, <1>2, <1>3, <1>4, <1>5, <1>6, <1>7, <1>8, <1>9, <1>10
     DEF Next, Answering, Verdicts

(* DenyingStays: the Cancel thread leaves its flush when the flush is over.  *)
LEMMA DenyingStays ==
    ASSUME Shape, tap = "denying", [Next]_vars
    PROVE  tap' = "denying" \/ push'["cancel"] = NoPush
<1>1. CASE CookStep
  <2>1. CASE Refuse \/ Arm \/ SpawnSsh \/ RegisterChild \/ TakePid \/ TakeMarker \/ Mirror \/ Turn
    BY <2>1 DEF Refuse, Arm, SpawnSsh, RegisterChild, TakePid, TakeMarker, Mirror, Turn
  <2>2. CASE FlushBegin \/ BreakCancelled \/ BreakEnded \/ LastEvent \/ LastLook \/ Close
    BY <2>2 DEF FlushBegin, BreakCancelled, BreakEnded, LastEvent, LastLook, Close
  <2>3. CASE Flush("cook")
    BY <2>3 DEF Flush, FlushRead, FlushWrite, FlushFails, FlushEnd
  <2>4. QED
    BY <1>1, <2>1, <2>2, <2>3 DEF CookStep, Flush
<1>2. CASE BreakDeadline
  BY <1>2 DEF BreakDeadline
<1>3. CASE CancelTap \/ CancelStep
  <2>1. ~CancelTap /\ ~SignalRemote /\ ~SignalLost /\ ~DenyPending /\ ~Confirm /\ ~Unconfirmed
    BY DEF CancelTap, SignalRemote, SignalLost, DenyPending, Confirm, Unconfirmed
  <2>2. CASE FlushRead("cancel") \/ FlushWrite("cancel") \/ FlushFails("cancel")
    BY <2>2 DEF FlushRead, FlushWrite, FlushFails
  <2>3. CASE FlushEnd("cancel")
    BY <2>3 DEF FlushEnd, Shape, TypeOK, Threads
  <2>4. QED
    BY <1>3, <2>1, <2>2, <2>3 DEF CancelStep
<1>4. ASSUME NEW r \in Reqs, RemoteStep(r) PROVE tap' = tap
  BY <1>4 DEF RemoteStep, RemoteHold, RemoteRead, RemoteTimeout
<1>5. CASE Answering
  BY <1>5 DEF Answering, PhoneAnswers
<1>6. CASE RemoteEnds \/ SshExits \/ LinkDrops \/ Watchdog
  BY <1>6 DEF RemoteEnds, SshExits, LinkDrops, Watchdog
<1>7. CASE SidecarAges \/ \E reached \in BOOLEAN : NextCook(reached)
  BY <1>7 DEF SidecarAges, NextCook
<1>8. CASE HostDies
  BY <1>8 DEF HostDies, Threads
<1>9. CASE HostStarts
  BY <1>9 DEF HostStarts
<1>10. CASE UNCHANGED vars
  BY <1>10 DEF vars
<1>11. QED
  BY <1>1, <1>2, <1>3, <1>4, <1>5, <1>6, <1>7, <1>8, <1>9, <1>10
     DEF Next, Answering, Verdicts

(* CancelPushStep: Cancel's flush begins and ends with its own step.         *)
LEMMA CancelPushStep == Shape /\ CancelPush /\ [Next]_vars => CancelPush'
<1> SUFFICES ASSUME Shape, CancelPush, [Next]_vars PROVE CancelPush'
  OBVIOUS
<1> USE DEF CancelPush
<1> push \in [Threads -> Pushes]
  BY DEF Shape, TypeOK, Pushes
<1>1. push'["cancel"] = push["cancel"] => CancelPush'
  BY DenyingStays
<1>2. CASE Quiet
  BY <1>1, <1>2 DEF Quiet
<1>3. CASE Flush("cook") \/ FlushBegin
  BY <1>1, <1>3 DEF Flush, FlushRead, FlushWrite, FlushFails, FlushEnd, FlushBegin, Threads
<1>4. CASE Flush("cancel")
  <2>1. push["cancel"] # NoPush
    BY <1>4, IdlePush DEF Flush, FlushRead, FlushWrite, FlushFails, FlushEnd
  <2>2. QED
    BY <2>1, DenyingStays
<1>5. CASE CancelTap
  BY <1>5 DEF CancelTap
<1>6. CASE DenyPending
  BY <1>6 DEF DenyPending
<1>7. CASE Answering
  BY <1>1, <1>7 DEF Answering, PhoneAnswers
<1>8. CASE HostDies
  BY <1>8 DEF HostDies, Threads
<1>9. QED
  BY <1>2, <1>3, <1>4, <1>5, <1>6, <1>7, <1>8, QuietStep DEF Threads

(* StoppedStep: once a Cancel is counted and nothing raced it, the cook      *)
(* thread is out of its flush and stays out, and whatever Cancel's own flush *)
(* picks up is a deny.                                                       *)
LEMMA StoppedStep ==
    Shape /\ CancelPush /\ Stopped /\ [Next]_vars => Stopped'
<1> SUFFICES ASSUME Shape, CancelPush, Stopped, [Next]_vars,
                    history'.cancelled, ~history'.raced
             PROVE  /\ push'["cook"] = NoPush /\ Halting'
                    /\ \A r \in push'["cancel"].todo : answer'[r] = "deny"
                    /\ push'["cancel"].step = "write" => push'["cancel"].held = "deny"
  BY DEF Stopped
<1> push \in [Threads -> Pushes] /\ HistoryOK
  BY DEF Shape, TypeOK, Pushes
<1> DEFINE Mild == history.cancelled /\ ~history.raced
<1>1. Mild => /\ push["cook"] = NoPush /\ push["cook"].step = "idle" /\ Halting'
              /\ \A r \in push["cancel"].todo : answer[r] = "deny"
              /\ push["cancel"].step = "write" => push["cancel"].held = "deny"
  BY HaltingStays, IdlePush DEF Stopped
<1>2. CASE Quiet
  BY <1>1, <1>2 DEF Quiet
<1>3. CASE Flush("cook")
  <2>1. history' = history
    BY <1>3 DEF Flush, FlushRead, FlushWrite, FlushFails, FlushEnd
  <2>2. push["cook"].step # "idle"
    BY <1>3 DEF Flush, FlushRead, FlushWrite, FlushFails, FlushEnd
  <2>3. QED
    BY <1>1, <2>1, <2>2
<1>4. CASE FlushBegin
  <2>1. history' = history /\ answer' = answer /\ pc = "flush"
    BY <1>4 DEF FlushBegin, queueVars
  <2>2. requested
    BY <2>1 DEF Stopped, Halting
  <2>3. push' = push
    BY <1>4, <2>2 DEF FlushBegin
  <2>4. QED
    BY <1>1, <2>1, <2>3
<1>5. CASE FlushRead("cancel")
  <2>1. history' = history /\ answer' = answer
    BY <1>5 DEF FlushRead, queueVars
  <2>2. PICK p \in Pushes, r \in push["cancel"].todo :
           /\ Pushed("cancel", p) /\ p.todo = push["cancel"].todo \ {r}
           /\ p.step = "write" => p.held = answer[r]
    BY <1>5, ReadPush DEF Threads
  <2>3. push'["cancel"] = p /\ push'["cook"] = push["cook"]
    BY <2>2 DEF Pushed, Threads
  <2>4. QED
    BY <1>1, <2>1, <2>2, <2>3
<1>6. CASE FlushWrite("cancel") \/ FlushFails("cancel")
  <2>1. history' = history /\ answer' = answer
    BY <1>6 DEF FlushWrite, FlushFails, queueVars
  <2>2. PICK p \in Pushes :
           Pushed("cancel", p) /\ p.todo = push["cancel"].todo /\ p.step = "each"
    BY <1>6, BackPush DEF Threads
  <2>3. push'["cancel"] = p /\ push'["cook"] = push["cook"]
    BY <2>2 DEF Pushed, Threads
  <2>4. QED
    BY <1>1, <2>1, <2>2, <2>3
<1>7. CASE FlushEnd("cancel")
  <2>1. history' = history
    BY <1>7 DEF FlushEnd
  <2>2. push'["cancel"] = NoPush /\ push'["cook"] = push["cook"]
    BY <1>7 DEF FlushEnd, Threads
  <2>3. QED
    BY <1>1, <2>1, <2>2, IdlePush DEF NoPush
<1>8. CASE CancelTap
  <2>1. push' = push /\ requested' /\ answer' = answer
    BY <1>8 DEF CancelTap, queueVars
  <2>2. push["cook"] = NoPush
    BY <1>8 DEF CancelTap, HistoryOK
  <2>3. push["cancel"] = NoPush
    BY <1>8 DEF CancelTap, CancelPush
  <2>4. QED
    BY <2>1, <2>2, <2>3 DEF NoPush, Halting
<1>9. CASE DenyPending
  <2>1. history' = history
    BY <1>9 DEF DenyPending
  <2>2. answer' = [r \in Reqs |-> IF r \in known \ written THEN "deny" ELSE answer[r]]
    BY <1>9 DEF DenyPending
  <2>3. CASE known \ written = {}
    <3>1. push' = push /\ answer' = answer
      BY <1>9, <2>2, <2>3 DEF DenyPending, Shape, TypeOK
    <3>2. QED
      BY <1>1, <2>1, <3>1
  <2>4. CASE known \ written # {}
    <3>1. push' = [push EXCEPT !["cancel"] = FullPush]
      BY <1>9, <2>4 DEF DenyPending, FullPush
    <3>2. push'["cancel"] = FullPush /\ push'["cook"] = push["cook"]
      BY <3>1 DEF Threads
    <3>3. \A r \in known \ written : answer'[r] = "deny"
      BY <2>2 DEF Shape, TypeOK
    <3>4. QED
      BY <1>1, <2>1, <3>2, <3>3, FullPushType DEF Shape
  <2>5. QED
    BY <2>3, <2>4
<1>10. CASE Answering
  <2>1. history'.cancelled = history.cancelled /\ (history.cancelled => history'.raced)
    BY <1>10 DEF Answering, PhoneAnswers, HistoryOK
  <2>2. QED
    BY <2>1
<1>11. CASE HostDies
  <2>1. history' = history /\ push' = [t \in Threads |-> NoPush] /\ pc' = "down"
    BY <1>11 DEF HostDies
  <2>2. QED
    BY <2>1 DEF NoPush, Threads, Halting
<1>12. QED
  BY <1>2, <1>3, <1>4, <1>5, <1>6, <1>7, <1>8, <1>9, <1>10, <1>11, QuietStep
     DEF Threads, Flush

-----------------------------------------------------------------------------
OnRecord == NotYet /\ Ended /\ Excused /\ Recorded

(* OnRecordStep: the pid file of a living worker is dropped under an excuse  *)
(* only: a run closes over a dead ssh child or a Cancel.                     *)
LEMMA OnRecordStep == Shape /\ OnRecord /\ [Next]_vars => OnRecord'
<1> SUFFICES ASSUME Shape, OnRecord, [Next]_vars PROVE OnRecord'
  OBVIOUS
<1> USE DEF OnRecord, NotYet, Ended, Excused, Recorded, remoteVars, childVars, queueVars,
            boundVars
<1> HistoryOK
  BY DEF Shape
<1>1. CASE CookStep
  <2>1. CASE TakePid
    BY <2>1 DEF TakePid, HistoryOK
  <2>2. CASE SpawnSsh
    BY <2>2 DEF SpawnSsh
  <2>3. CASE Close
    BY <2>3 DEF Close
  <2>4. CASE Refuse \/ Arm \/ RegisterChild \/ TakeMarker \/ Mirror \/ Turn
    BY <2>4 DEF Refuse, Arm, RegisterChild, TakeMarker, Mirror, Turn
  <2>5. CASE FlushBegin \/ BreakCancelled \/ BreakEnded \/ LastEvent \/ LastLook
    BY <2>5 DEF FlushBegin, BreakCancelled, BreakEnded, LastEvent, LastLook
  <2>6. CASE FlushRead("cook") \/ FlushWrite("cook") \/ FlushFails("cook")
    BY <2>6 DEF FlushRead, FlushWrite, FlushFails
  <2>7. CASE FlushEnd("cook")
    <3>1. push["cook"] # NoPush
      BY <2>7, IdlePush DEF FlushEnd
    <3>2. pc = "flushing"
      BY <3>1 DEF Shape, CookPush
    <3>3. QED
      BY <2>7, <3>2 DEF FlushEnd
  <2>8. QED
    BY <1>1, <2>1, <2>2, <2>3, <2>4, <2>5, <2>6, <2>7 DEF CookStep
<1>2. CASE BreakDeadline
  BY <1>2, ExcuseKind DEF BreakDeadline
<1>3. CASE CancelTap
  BY <1>3 DEF CancelTap, HistoryOK
<1>4. CASE CancelStep
  <2>1. CASE SignalRemote
    BY <2>1 DEF SignalRemote, KillRemote
  <2>2. CASE SignalLost
    BY <2>2, ExcuseKind DEF SignalLost
  <2>3. CASE DenyPending \/ Unconfirmed
    BY <2>3 DEF DenyPending, Unconfirmed
  <2>4. CASE Confirm
    BY <2>4, ExcuseKind DEF Confirm
  <2>5. CASE FlushRead("cancel") \/ FlushWrite("cancel") \/ FlushFails("cancel")
    BY <2>5 DEF FlushRead, FlushWrite, FlushFails
  <2>6. CASE FlushEnd("cancel")
    BY <2>6 DEF FlushEnd
  <2>7. QED
    BY <1>4, <2>1, <2>2, <2>3, <2>4, <2>5, <2>6 DEF CancelStep
<1>5. ASSUME NEW r \in Reqs, RemoteStep(r) PROVE OnRecord'
  BY <1>5 DEF RemoteStep, RemoteHold, RemoteRead, RemoteTimeout
<1>6. CASE Answering
  BY <1>6 DEF Answering, PhoneAnswers, HistoryOK
<1>7. CASE RemoteEnds \/ SshExits \/ Watchdog
  BY <1>7 DEF RemoteEnds, SshExits, Watchdog, KillRemote
<1>8. CASE LinkDrops
  BY <1>8, ExcuseKind DEF LinkDrops
<1>9. CASE SidecarAges
  BY <1>9 DEF SidecarAges
<1>10. ASSUME NEW reached \in BOOLEAN, NextCook(reached) PROVE OnRecord'
  BY <1>10, ExcuseKind DEF NextCook, KillRemote
<1>11. CASE HostDies \/ HostStarts
  BY <1>11 DEF HostDies, HostStarts
<1>12. CASE UNCHANGED vars
  BY <1>12 DEF vars
<1>13. QED
  BY <1>1, <1>2, <1>3, <1>4, <1>5, <1>6, <1>7, <1>8, <1>9, <1>10, <1>11, <1>12
     DEF Next, Answering, Verdicts

-----------------------------------------------------------------------------
(* CookInvariant: the inductive invariant of an SSH cook.                    *)
LEMMA CookInvariant == ASSUME ConstantsOK PROVE Spec => []CookInv
<1>1. Init => CookInv
  <2> SUFFICES ASSUME Init PROVE CookInv
    OBVIOUS
  <2>1. Consented /\ CancelPush /\ Stopped
    BY IdlePush DEF ConstantsOK, Init, Consented, CancelPush, Stopped, Threads
  <2>2. NotYet /\ Ended /\ Excused /\ Recorded
    BY DEF Init, NotYet, Ended, Excused, Recorded
  <2>3. QED
    BY <2>1, <2>2, ShapeInit DEF CookInv
<1>2. CookInv /\ [Next]_vars => CookInv'
  BY ShapeStep, ConsentStep, CancelPushStep, StoppedStep, OnRecordStep
     DEF CookInv, OnRecord
<1>3. QED
  BY <1>1, <1>2, PTL DEF Spec

(* RecordedAlways: a live remote worker whose pid was read is on file for    *)
(* the next cook's reap, whatever became of its run.                         *)
THEOREM RecordedAlways == ASSUME ConstantsOK PROVE Spec => []Recorded
<1>1. CookInv => Recorded
  BY DEF CookInv
<1>2. QED
  BY <1>1, CookInvariant, PTL

(* NoAllowAfterCancel: no step writes an Allow to the remote worker once a   *)
(* Cancel is requested that nothing raced: only a write-back does, the cook  *)
(* thread is in none, and Cancel's own carries denies.                       *)
THEOREM NoAllowAfterCancel == ASSUME ConstantsOK PROVE Spec => AllowStops
<1>1. CookInv /\ [Next]_vars => [Allowing => ~history.cancelled \/ history.raced]_vars
  <2> SUFFICES ASSUME CookInv, [Next]_vars, Allowing, history.cancelled, ~history.raced
               PROVE  FALSE
    OBVIOUS
  <2> USE DEF CookInv, Stopped
  <2>1. sent' # sent
    BY DEF Allowing
  <2>2. ASSUME NEW t \in Threads, Flush(t) PROVE FALSE
    <3>1. FlushWrite(t)
      BY <2>1, <2>2 DEF Flush, FlushRead, FlushFails, FlushEnd, remoteVars
    <3>2. PICK r \in Reqs : sent'[r] = "allow" /\ sent[r] # "allow"
      BY DEF Allowing
    <3>3. push[t].held = "allow" /\ push[t].step = "write"
      BY <3>1, <3>2 DEF FlushWrite, Shape, TypeOK
    <3>4. QED
      BY <3>3, IdlePush DEF Threads
  <2>3. ~Quiet /\ ~FlushBegin /\ ~CancelTap /\ ~DenyPending /\ ~Answering /\ ~HostDies
    BY <2>1 DEF Quiet, FlushBegin, CancelTap, DenyPending, Answering, PhoneAnswers, HostDies,
                remoteVars
  <2>4. QED
    BY <2>2, <2>3, QuietStep
<1>2. QED
  BY <1>1, CookInvariant, PTL DEF Spec, AllowStops

-----------------------------------------------------------------------------
(* ReadSteps, KillSteps: what a step behind SSH is to the queue.             *)
LEMMA ReadSteps ==
    ASSUME Shape, Consented, NEW r \in Reqs, RemoteStep(r)
    PROVE  Queue!Next
<1> HistoryOK /\ hold \in [Reqs -> {"none", "held", "allowed", "denied", "gone"}]
  BY DEF Shape, TypeOK
<1>1. CASE RemoteHold(r)
  <2>1. Queue!Hold(r)
    BY <1>1 DEF RemoteHold, Queue!Hold, HistoryOK
  <2>2. QED
    BY <2>1 DEF Queue!Next
<1>2. CASE RemoteRead(r)
  <2>1. /\ hold[r] = "held" /\ history' = history
        /\ hold' = [hold EXCEPT ![r] = IF sent[r] = "allow" THEN "allowed" ELSE "denied"]
    BY <1>2 DEF RemoteRead
  <2>2. CASE sent[r] = "allow"
    <3>1. Queue!Allow(r)
      BY <2>1, <2>2 DEF Queue!Allow, Consented
    <3>2. QED
      BY <3>1 DEF Queue!Next
  <2>3. CASE sent[r] # "allow"
    <3>1. Queue!Deny(r)
      BY <2>1, <2>3 DEF Queue!Deny
    <3>2. QED
      BY <3>1 DEF Queue!Next
  <2>4. QED
    BY <2>2, <2>3
<1>3. CASE RemoteTimeout(r)
  <2>1. Queue!Deny(r)
    BY <1>3 DEF RemoteTimeout, Queue!Deny
  <2>2. QED
    BY <2>1 DEF Queue!Next
<1>4. QED
  BY <1>1, <1>2, <1>3 DEF RemoteStep

LEMMA KillSteps ==
    ASSUME HistoryOK, KillRemote, history'.consents = history.consents
    PROVE  Queue!Next
<1>1. Queue!Kill
  BY DEF KillRemote, Queue!Kill
<1>2. QED
  BY <1>1 DEF Queue!Next

(* QueueStep: every other step of the host, the network and the worker       *)
(* leaves the holds alone.                                                   *)
LEMMA QueueStep ==
    ASSUME Shape, Consented, [Next]_vars
    PROVE  Queue!Next \/ UNCHANGED Queue!vars
<1> USE DEF Queue!vars, remoteVars
<1> HistoryOK
  BY DEF Shape
<1>1. CASE CookStep
  <2>1. CASE TakePid
    BY <2>1 DEF TakePid, HistoryOK
  <2>2. CASE Refuse \/ Arm \/ SpawnSsh \/ RegisterChild \/ TakeMarker \/ Mirror \/ Turn
    BY <2>2 DEF Refuse, Arm, SpawnSsh, RegisterChild, TakeMarker, Mirror, Turn
  <2>3. CASE FlushBegin \/ BreakCancelled \/ BreakEnded \/ LastEvent \/ LastLook \/ Close
    BY <2>3 DEF FlushBegin, BreakCancelled, BreakEnded, LastEvent, LastLook, Close
  <2>4. CASE Flush("cook")
    BY <2>4 DEF Flush, FlushRead, FlushWrite, FlushFails, FlushEnd
  <2>5. QED
    BY <1>1, <2>1, <2>2, <2>3, <2>4 DEF CookStep, Flush
<1>2. CASE BreakDeadline
  BY <1>2, ExcuseKind DEF BreakDeadline
<1>3. CASE CancelTap
  BY <1>3 DEF CancelTap, HistoryOK
<1>4. CASE CancelStep
  <2>1. CASE SignalRemote
    BY <2>1, KillSteps DEF SignalRemote
  <2>2. CASE SignalLost
    BY <2>2, ExcuseKind DEF SignalLost
  <2>3. CASE DenyPending \/ Unconfirmed
    BY <2>3 DEF DenyPending, Unconfirmed
  <2>4. CASE Confirm
    BY <2>4, ExcuseKind DEF Confirm
  <2>5. CASE Flush("cancel")
    BY <2>5 DEF Flush, FlushRead, FlushWrite, FlushFails, FlushEnd
  <2>6. QED
    BY <1>4, <2>1, <2>2, <2>3, <2>4, <2>5 DEF CancelStep, Flush
<1>5. ASSUME NEW r \in Reqs, RemoteStep(r) PROVE Queue!Next
  BY <1>5, ReadSteps
<1>6. ASSUME NEW r \in Reqs, NEW verdict \in Verdicts, PhoneAnswers(r, verdict)
      PROVE  Queue!Next
  <2>1. history'.consents = IF verdict = "allow" THEN history.consents \cup {r}
                            ELSE history.consents
    BY <1>6 DEF PhoneAnswers, HistoryOK
  <2>2. history.consents \subseteq history'.consents /\ history'.consents \subseteq Reqs
    BY <2>1 DEF HistoryOK
  <2>3. hold' = hold
    BY <1>6 DEF PhoneAnswers
  <2>4. QED
    BY <2>2, <2>3 DEF Queue!Next, Queue!Consent
<1>7. CASE Watchdog
  BY <1>7, KillSteps DEF Watchdog
<1>8. CASE RemoteEnds \/ SshExits
  BY <1>8 DEF RemoteEnds, SshExits
<1>9. CASE LinkDrops
  BY <1>9, ExcuseKind DEF LinkDrops
<1>10. ASSUME NEW reached \in BOOLEAN, NextCook(reached)
       PROVE  Queue!Next \/ UNCHANGED Queue!vars
  <2>1. history'.consents = history.consents
    BY <1>10, ExcuseKind DEF NextCook
  <2>2. hold' = hold \/ KillRemote
    BY <1>10 DEF NextCook
  <2>3. QED
    BY <2>1, <2>2, KillSteps
<1>11. CASE SidecarAges \/ HostDies \/ HostStarts
  BY <1>11 DEF SidecarAges, HostDies, HostStarts
<1>12. CASE UNCHANGED vars
  BY <1>12 DEF vars
<1>13. QED
  BY <1>1, <1>2, <1>3, <1>4, <1>5, <1>6, <1>7, <1>8, <1>9, <1>10, <1>11, <1>12
     DEF Next, Verdicts

(* ImplementsGateQueue: behind SSH the holds of a worker are the same queue  *)
(* of holds: it goes on with a tool only if that request was agreed to.      *)
THEOREM ImplementsGateQueue == ASSUME ConstantsOK PROVE Spec => ImplementsQueue
<1>1. Init => Queue!Init
  BY DEF Init, Queue!Init
<1>2. CookInv /\ [Next]_vars => [Queue!Next]_Queue!vars
  BY QueueStep DEF CookInv
<1>3. QED
  BY <1>1, <1>2, CookInvariant, PTL DEF Spec, ImplementsQueue, Queue!Safe

-----------------------------------------------------------------------------
(* The inbox: a reply steers once and a job has one card.                  *)

InboxStatuses == {"none", "running", "parked", "done"}
InboxLapses == {"undated", "unpainted", "told", "record", "steer"}
InboxRows == [known : BOOLEAN, status : InboxStatuses, moves : Nat, anchor : Nat]
InboxTicks == [step : {"idle", "jobs", "date", "post", "record", "edit", "note", "threads",
                       "claim", "steer"},
               todo : SUBSET Jobs, job : Jobs \cup {None}, seen : InboxRows, unread : Seq(Nat)]

InboxTyped ==
    /\ pm \in [Jobs -> [status : InboxStatuses, moves : Nat]]
    /\ row \in [Jobs -> InboxRows]
    /\ cards \in [Jobs -> Nat] /\ shows \in [Jobs -> InboxStatuses]
    /\ replies \in [Jobs -> Nat] /\ claimed \in [Jobs -> SUBSET Nat]
    /\ steered \in [Jobs -> Seq(Nat)]
    /\ tick \in InboxTicks
    /\ lapsed \in [Jobs -> SUBSET InboxLapses]

\* Where the tick has a job in hand, and where a reply of it.
AtJob == {"date", "post", "record", "edit", "note", "claim", "steer"}
AtReply == {"claim", "steer"}

\* The newest reply that the tick is not through with.
Reach == row[tick.job].anchor + Len(tick.unread)

\* The job in hand is as it was read: nobody else writes its row.
InHand ==
    /\ tick.step \in AtJob => tick.job \in Jobs
    /\ tick.step \in AtJob \ AtReply => tick.seen.anchor = row[tick.job].anchor
    /\ tick.step \in {"date", "post", "record"} => ~row[tick.job].known
    /\ tick.step \in {"edit", "note", "claim", "steer"} => row[tick.job].known
         /\ tick.seen.known
    /\ tick.step \in {"threads", "claim", "steer"} => \A j \in tick.todo : row[j].known

\* What is still to go through are the replies from the anchor on up to Reach,
\* newest first, and those above are claimed.
ReadDown ==
    tick.step \in AtReply =>
        /\ tick.seen.anchor \in 0..replies[tick.job]
        /\ Reach <= tick.seen.anchor
        /\ \A i \in DOMAIN tick.unread : tick.unread[i] = Reach + 1 - i
        /\ \A n \in 1..tick.seen.anchor : n > Reach => n \in claimed[tick.job]

\* What is claimed was written, and what the anchor has passed is claimed.
ClaimedToAnchor ==
    \A j \in Jobs :
        /\ row[j].anchor <= replies[j]
        /\ claimed[j] \subseteq 1..replies[j]
        /\ 1..row[j].anchor \subseteq claimed[j]

\* The reply in hand is claimed and no steer yet.
Steering ==
    tick.step = "steer" =>
        /\ tick.unread # <<>>
        /\ Head(tick.unread) \in claimed[tick.job]
        /\ \A i \in DOMAIN steered[tick.job] : steered[tick.job][i] # Head(tick.unread)

\* Every reply that is claimed is one steer, is in hand, or is excused.
SteeredApart ==
    \A j \in Jobs :
        /\ \A i \in DOMAIN steered[j] : steered[j][i] \in claimed[j]
        /\ \A a, b \in DOMAIN steered[j] : steered[j][a] = steered[j][b] => a = b
        /\ lapsed[j] \cap {"told", "steer"} = {} =>
               \A n \in claimed[j] : \/ \E i \in DOMAIN steered[j] : steered[j][i] = n
                                     \/ /\ tick.step = "steer" /\ tick.job = j
                                        /\ n = Head(tick.unread)

\* A job without a row has no card, but for the one whose row is written next.
CardsOnce ==
    \A j \in Jobs :
        \/ "record" \in lapsed[j]
        \/ /\ cards[j] <= 1
           /\ row[j].known \/ cards[j] = 0 \/ (tick.step = "record" /\ tick.job = j)

\* An old job is passed over unless its date cannot be read.
OldJobs ==
    /\ \A j \in Jobs : j \in old /\ "undated" \notin lapsed[j] => cards[j] = 0
    /\ tick.step = "post" => tick.job \notin old \/ "undated" \in lapsed[tick.job]

(* InboxTypes: no step leaves the types.                                     *)
LEMMA InboxTypes ==
    ASSUME InboxTyped, InHand, ClaimedToAnchor, Steering, [Inbox!Next]_(Inbox!vars)
        PROVE InboxTyped'
<1> USE DEF InboxStatuses, InboxLapses, Inbox!jobVars, Inbox!cardVars, Inbox!threadVars
<1>1. CASE Inbox!Tick
  <2>1. tick' \in InboxTicks
    <3>1. {j \in Jobs : pm[j].status # "none"} \in SUBSET Jobs
      OBVIOUS
    <3>2. tick' = [step |-> "jobs", todo |-> {j \in Jobs : pm[j].status # "none"}, job |-> None,
                 seen |-> Inbox!NoRow, unread |-> <<>>]
      BY <1>1 DEF Inbox!Tick, Inbox!Idle
    <3>3. QED
      BY <3>1, <3>2 DEF Inbox!NoRow, InboxTicks, InboxRows
  <2>2. QED
    BY <1>1, <2>1 DEF Inbox!Tick, InboxTyped
<1>2. CASE Inbox!LookUp
  <2>1. tick' \in InboxTicks
    <3>1. PICK j \in tick.todo :
             LET moved == row[j].status # pm[j].status \/ row[j].moves # pm[j].moves
                 seen  == [row[j] EXCEPT !.status = pm[j].status, !.moves = pm[j].moves]
             IN  tick' = [tick EXCEPT !.todo = @ \ {j}, !.job = j, !.seen = seen,
                                  !.step = IF ~row[j].known THEN "date"
                                           ELSE IF moved THEN "edit" ELSE "jobs"]
      BY <1>2 DEF Inbox!LookUp
    <3>2. j \in Jobs
      BY DEF InboxTyped, InboxTicks
    <3>3. [row[j] EXCEPT !.status = pm[j].status, !.moves = pm[j].moves] \in InboxRows
      <4>1. row[j] \in InboxRows /\ pm[j].status \in InboxStatuses /\ pm[j].moves \in Nat
        BY <3>2 DEF InboxTyped
      <4>2. QED
        BY <4>1 DEF InboxRows
    <3>4. QED
      BY <3>1, <3>2, <3>3 DEF InboxTyped, InboxTicks
  <2>2. QED
    BY <1>2, <2>1 DEF Inbox!LookUp, InboxTyped
<1>3. CASE Inbox!CheckDate
  <2>1. tick' \in InboxTicks
    BY <1>3 DEF Inbox!CheckDate, Inbox!Goto, InboxTyped, InboxTicks, InboxRows
  <2>2. QED
    BY <1>3, <2>1 DEF Inbox!CheckDate, InboxTyped
<1>4. CASE Inbox!Post
  <2>1. tick.job \in Jobs /\ tick.seen \in InboxRows
    BY <1>4 DEF Inbox!Post, InHand, AtJob, AtReply, InboxTyped, InboxTicks
  <2>2. tick' \in InboxTicks
    BY <1>4, <2>1 DEF Inbox!Post, Inbox!Goto, InboxTyped, InboxTicks, InboxRows
  <2>3. cards' \in [Jobs -> Nat]
    BY <1>4, <2>1 DEF Inbox!Post, InboxTyped
  <2>4. shows' \in [Jobs -> InboxStatuses]
    BY <1>4, <2>1 DEF Inbox!Post, InboxTyped, InboxRows
  <2>5. QED
    BY <1>4, <2>2, <2>3, <2>4 DEF Inbox!Post, InboxTyped
<1>5. CASE Inbox!Record
  <2>1. tick.job \in Jobs /\ tick.seen \in InboxRows
    BY <1>5 DEF Inbox!Record, InHand, AtJob, AtReply, InboxTyped, InboxTicks
  <2>2. tick' \in InboxTicks
    BY <1>5, <2>1 DEF Inbox!Record, Inbox!Goto, InboxTyped, InboxTicks, InboxRows
  <2>3. row' \in [Jobs -> InboxRows]
    BY <1>5, <2>1 DEF Inbox!Record, InboxTyped, InboxRows
  <2>4. QED
    BY <1>5, <2>2, <2>3 DEF Inbox!Record, InboxTyped
<1>6. CASE Inbox!Edit
  <2>1. tick.job \in Jobs /\ tick.seen \in InboxRows
    BY <1>6 DEF Inbox!Edit, InHand, AtJob, AtReply, InboxTyped, InboxTicks
  <2>2. tick' \in InboxTicks
    BY <1>6, <2>1 DEF Inbox!Edit, Inbox!Goto, InboxTyped, InboxTicks, InboxRows
  <2>3. shows' \in [Jobs -> InboxStatuses]
    BY <1>6, <2>1 DEF Inbox!Edit, InboxTyped, InboxRows
  <2>4. QED
    BY <1>6, <2>2, <2>3 DEF Inbox!Edit, InboxTyped
<1>7. CASE Inbox!Note
  <2>1. tick.job \in Jobs /\ tick.seen \in InboxRows
    BY <1>7 DEF Inbox!Note, InHand, AtJob, AtReply, InboxTyped, InboxTicks
  <2>2. tick' \in InboxTicks
    BY <1>7, <2>1 DEF Inbox!Note, Inbox!Goto, InboxTyped, InboxTicks, InboxRows
  <2>3. row' \in [Jobs -> InboxRows]
    BY <1>7, <2>1 DEF Inbox!Note, InboxTyped, InboxRows
  <2>4. QED
    BY <1>7, <2>2, <2>3 DEF Inbox!Note, InboxTyped
<1>8. CASE Inbox!ListThreads
  <2>1. tick' \in InboxTicks
    BY <1>8 DEF Inbox!ListThreads, InboxTyped, InboxTicks, InboxRows
  <2>2. QED
    BY <1>8, <2>1 DEF Inbox!ListThreads, InboxTyped
<1>9. CASE Inbox!ReadThread
  <2>1. tick' \in InboxTicks
    <3>1. PICK j \in tick.todo :
             tick' = [tick EXCEPT !.step = "claim", !.todo = @ \ {j}, !.job = j,
                              !.unread = Inbox!Unread(j),
                              !.seen = [row[j] EXCEPT !.anchor = replies[j]]]
      BY <1>9 DEF Inbox!ReadThread
    <3>2. j \in Jobs
      BY DEF InboxTyped, InboxTicks
    <3>3. [row[j] EXCEPT !.anchor = replies[j]] \in InboxRows
      <4>1. row[j] \in InboxRows /\ replies[j] \in Nat
        BY <3>2 DEF InboxTyped
      <4>2. QED
        BY <4>1 DEF InboxRows
    <3>4. Inbox!Unread(j) \in Seq(Nat)
      <4>1. /\ replies[j] - row[j].anchor \in Nat
            /\ replies[j] \in Nat /\ row[j].anchor \in Nat
        BY <3>2 DEF ClaimedToAnchor, InboxTyped, InboxRows
      <4>2. QED
        BY <4>1 DEF Inbox!Unread
    <3>5. QED
      BY <3>1, <3>2, <3>3, <3>4 DEF InboxTyped, InboxTicks
  <2>2. QED
    BY <1>9, <2>1 DEF Inbox!ReadThread, InboxTyped
<1>10. CASE Inbox!Claim
  <2>1. tick.job \in Jobs /\ tick.seen \in InboxRows
    BY <1>10 DEF Inbox!Claim, InHand, AtJob, AtReply, InboxTyped, InboxTicks
  <2>2. Head(tick.unread) \in Nat /\ Tail(tick.unread) \in Seq(Nat)
    BY <1>10 DEF Inbox!Claim, InboxTyped, InboxTicks
  <2>3. tick' \in InboxTicks
    BY <1>10, <2>1, <2>2 DEF Inbox!Claim, Inbox!Goto, InboxTyped, InboxTicks, InboxRows
  <2>4. claimed' \in [Jobs -> SUBSET Nat]
    <3>1. \/ claimed' = claimed
          \/ claimed' = [claimed EXCEPT ![tick.job] = @ \cup {Head(tick.unread)}]
      BY <1>10 DEF Inbox!Claim
    <3>2. claimed[tick.job] \cup {Head(tick.unread)} \in SUBSET Nat
      BY <2>1, <2>2 DEF InboxTyped
    <3>3. QED
      BY <2>1, <3>1, <3>2 DEF InboxTyped
  <2>5. QED
    BY <1>10, <2>3, <2>4 DEF Inbox!Claim, InboxTyped
<1>11. CASE Inbox!Steer
  <2>1. tick.job \in Jobs /\ tick.seen \in InboxRows
    BY <1>11 DEF Inbox!Steer, InHand, AtJob, AtReply, InboxTyped, InboxTicks
  <2>2. Head(tick.unread) \in Nat /\ Tail(tick.unread) \in Seq(Nat)
    BY <1>11 DEF Inbox!Steer, InboxTyped, InboxTicks, Steering
  <2>3. tick' \in InboxTicks
    BY <1>11, <2>1, <2>2 DEF Inbox!Steer, InboxTyped, InboxTicks, InboxRows
  <2>4. steered' \in [Jobs -> Seq(Nat)]
    BY <1>11, <2>1, <2>2 DEF Inbox!Steer, InboxTyped
  <2>5. QED
    BY <1>11, <2>3, <2>4 DEF Inbox!Steer, InboxTyped
<1>12. CASE Inbox!Anchor
  <2>1. tick.job \in Jobs /\ tick.seen \in InboxRows
    BY <1>12 DEF Inbox!Anchor, InHand, AtJob, AtReply, InboxTyped, InboxTicks
  <2>2. tick' \in InboxTicks
    BY <1>12, <2>1 DEF Inbox!Anchor, Inbox!Goto, InboxTyped, InboxTicks, InboxRows
  <2>3. row' \in [Jobs -> InboxRows]
    BY <1>12, <2>1 DEF Inbox!Anchor, InboxTyped, InboxRows
  <2>4. QED
    BY <1>12, <2>2, <2>3 DEF Inbox!Anchor, InboxTyped
<1>13. CASE Inbox!TickEnds
  <2>1. tick' \in InboxTicks
    BY <1>13 DEF Inbox!TickEnds, Inbox!Idle, Inbox!NoRow, InboxTyped, InboxTicks, InboxRows
  <2>2. QED
    BY <1>13, <2>1 DEF Inbox!TickEnds, InboxTyped
<1>14. CASE Inbox!DateFails
  <2>1. tick.job \in Jobs /\ tick.seen \in InboxRows
    BY <1>14 DEF Inbox!DateFails, InHand, AtJob, AtReply, InboxTyped, InboxTicks
  <2>2. tick' \in InboxTicks
    BY <1>14, <2>1 DEF Inbox!DateFails, Inbox!Goto, InboxTyped, InboxTicks, InboxRows
  <2>3. lapsed' \in [Jobs -> SUBSET InboxLapses]
    BY <1>14, <2>1 DEF Inbox!DateFails, Inbox!Lapse, InboxTyped
  <2>4. QED
    BY <1>14, <2>2, <2>3 DEF Inbox!DateFails, InboxTyped
<1>15. CASE Inbox!PostFails
  <2>1. tick' \in InboxTicks
    BY <1>15 DEF Inbox!PostFails, Inbox!Goto, InboxTyped, InboxTicks, InboxRows
  <2>2. QED
    BY <1>15, <2>1 DEF Inbox!PostFails, InboxTyped
<1>16. CASE Inbox!EditFails
  <2>1. tick.job \in Jobs /\ tick.seen \in InboxRows
    BY <1>16 DEF Inbox!EditFails, InHand, AtJob, AtReply, InboxTyped, InboxTicks
  <2>2. tick' \in InboxTicks
    BY <1>16, <2>1 DEF Inbox!EditFails, Inbox!Goto, InboxTyped, InboxTicks, InboxRows
  <2>3. lapsed' \in [Jobs -> SUBSET InboxLapses]
    BY <1>16, <2>1 DEF Inbox!EditFails, Inbox!Lapse, InboxTyped
  <2>4. QED
    BY <1>16, <2>2, <2>3 DEF Inbox!EditFails, InboxTyped
<1>17. CASE Inbox!ReadFails
  <2>1. tick' \in InboxTicks
    <3>1. PICK j \in tick.todo : tick' = [tick EXCEPT !.todo = @ \ {j}]
      BY <1>17 DEF Inbox!ReadFails
    <3>2. QED
      BY <3>1 DEF InboxTyped, InboxTicks
  <2>2. QED
    BY <1>17, <2>1 DEF Inbox!ReadFails, InboxTyped
<1>18. CASE Inbox!SteerFails
  <2>1. tick.job \in Jobs /\ tick.seen \in InboxRows
    BY <1>18 DEF Inbox!SteerFails, InHand, AtJob, AtReply, InboxTyped, InboxTicks
  <2>2. Head(tick.unread) \in Nat /\ Tail(tick.unread) \in Seq(Nat)
    BY <1>18 DEF Inbox!SteerFails, InboxTyped, InboxTicks, Steering
  <2>3. tick' \in InboxTicks
    BY <1>18, <2>1, <2>2 DEF Inbox!SteerFails, InboxTyped, InboxTicks, InboxRows
  <2>4. lapsed' \in [Jobs -> SUBSET InboxLapses]
    BY <1>18, <2>1, <2>2 DEF Inbox!SteerFails, Inbox!Lapse, InboxTyped
  <2>5. QED
    BY <1>18, <2>3, <2>4 DEF Inbox!SteerFails, InboxTyped
<1>19. CASE Inbox!TickRaises
  <2>1. tick' \in InboxTicks
    BY <1>19 DEF Inbox!TickRaises, Inbox!Idle, Inbox!NoRow, InboxTicks, InboxRows
  <2>2. lapsed' \in [Jobs -> SUBSET InboxLapses]
    <3>1. CASE tick.step \in {"record", "steer"}
      <4>1. tick.job \in Jobs
        BY <3>1 DEF InHand, AtJob, AtReply
      <4>2. lapsed' = [lapsed EXCEPT ![tick.job] = @ \cup {tick.step}]
        BY <1>19, <3>1 DEF Inbox!TickRaises, Inbox!Excuse, Inbox!Lapse
      <4>3. QED
        BY <3>1, <4>1, <4>2 DEF InboxTyped
    <3>2. CASE tick.step \notin {"record", "steer"}
      BY <1>19, <3>2 DEF Inbox!TickRaises, Inbox!Excuse, InboxTyped
    <3>3. QED
      BY <3>1, <3>2
  <2>3. QED
    BY <1>19, <2>1, <2>2 DEF Inbox!TickRaises, InboxTyped
<1>20. CASE Inbox!HostDies
  <2>1. tick' \in InboxTicks
    BY <1>20 DEF Inbox!HostDies, Inbox!Idle, Inbox!NoRow, InboxTicks, InboxRows
  <2>2. lapsed' \in [Jobs -> SUBSET InboxLapses]
    <3>1. CASE tick.step \in {"record", "steer"}
      <4>1. tick.job \in Jobs
        BY <3>1 DEF InHand, AtJob, AtReply
      <4>2. lapsed' = [lapsed EXCEPT ![tick.job] = @ \cup {tick.step}]
        BY <1>20, <3>1 DEF Inbox!HostDies, Inbox!Excuse, Inbox!Lapse
      <4>3. QED
        BY <3>1, <4>1, <4>2 DEF InboxTyped
    <3>2. CASE tick.step \notin {"record", "steer"}
      BY <1>20, <3>2 DEF Inbox!HostDies, Inbox!Excuse, InboxTyped
    <3>3. QED
      BY <3>1, <3>2
  <2>3. QED
    BY <1>20, <2>1, <2>2 DEF Inbox!HostDies, InboxTyped
<1>21. ASSUME NEW j \in Jobs, Inbox!JobMoves(j) PROVE InboxTyped'
  <2>1. pm' \in [Jobs -> [status : InboxStatuses, moves : Nat]]
    BY <1>21 DEF Inbox!JobMoves, InboxTyped
  <2>2. QED
    BY <1>21, <2>1 DEF Inbox!JobMoves, InboxTyped
<1>22. ASSUME NEW j \in Jobs, Inbox!Tap(j) PROVE InboxTyped'
  <2>1. pm' \in [Jobs -> [status : InboxStatuses, moves : Nat]]
    BY <1>22 DEF Inbox!Tap, InboxTyped
  <2>2. QED
    BY <1>22, <2>1 DEF Inbox!Tap, InboxTyped
<1>23. ASSUME NEW j \in Jobs, Inbox!Reply(j) PROVE InboxTyped'
  <2>1. replies' \in [Jobs -> Nat]
    BY <1>23 DEF Inbox!Reply, InboxTyped
  <2>2. QED
    BY <1>23, <2>1 DEF Inbox!Reply, InboxTyped
<1>24. CASE UNCHANGED Inbox!vars
  BY <1>24 DEF Inbox!vars, InboxTyped
<1>25. QED
  BY <1>1, <1>2, <1>3, <1>4, <1>5, <1>6, <1>7, <1>8, <1>9, <1>10, <1>11, <1>12, <1>13, <1>14,
         <1>15, <1>16, <1>17, <1>18, <1>19, <1>20, <1>21, <1>22, <1>23, <1>24 DEF Inbox!Next,
         Inbox!TickStep

(* InboxHands: the job in hand is the one that was looked up.                *)
LEMMA InboxHands ==
    ASSUME InboxTyped, InHand, [Inbox!Next]_(Inbox!vars) PROVE InHand'
<1> USE DEF InHand, AtJob, AtReply, InboxTyped, InboxTicks, InboxRows, Inbox!cardVars,
      Inbox!threadVars
<1>1. CASE Inbox!Tick
  BY <1>1 DEF Inbox!Tick, Inbox!Idle
<1>2. CASE Inbox!LookUp
  <2>1. PICK j \in tick.todo :
           LET moved == row[j].status # pm[j].status \/ row[j].moves # pm[j].moves
               seen  == [row[j] EXCEPT !.status = pm[j].status, !.moves = pm[j].moves]
           IN  tick' = [tick EXCEPT !.todo = @ \ {j}, !.job = j, !.seen = seen,
                                !.step = IF ~row[j].known THEN "date"
                                         ELSE IF moved THEN "edit" ELSE "jobs"]
    BY <1>2 DEF Inbox!LookUp
  <2>2. j \in Jobs /\ row' = row
    BY <1>2 DEF Inbox!LookUp
  <2>3. /\ tick'.job = j /\ tick'.step \in {"date", "edit", "jobs"}
        /\ tick'.step = "date" => ~row[j].known
        /\ tick'.step = "edit" => row[j].known
        /\ tick'.seen = [row[j] EXCEPT !.status = pm[j].status, !.moves = pm[j].moves]
    BY <2>1
  <2>4. tick'.seen.anchor = row[j].anchor /\ tick'.seen.known = row[j].known
    BY <2>2, <2>3
  <2>5. QED
    BY <2>2, <2>3, <2>4
<1>3. CASE Inbox!CheckDate
  BY <1>3 DEF Inbox!CheckDate, Inbox!Goto
<1>4. CASE Inbox!Post
  BY <1>4 DEF Inbox!Post, Inbox!Goto
<1>5. CASE Inbox!Edit
  BY <1>5 DEF Inbox!Edit, Inbox!Goto
<1>6. CASE Inbox!PostFails
  BY <1>6 DEF Inbox!PostFails, Inbox!Goto
<1>7. CASE Inbox!DateFails
  BY <1>7 DEF Inbox!DateFails, Inbox!Goto
<1>8. CASE Inbox!EditFails
  BY <1>8 DEF Inbox!EditFails, Inbox!Goto
<1>9. CASE Inbox!Record
  BY <1>9 DEF Inbox!Record, Inbox!Goto
<1>10. CASE Inbox!Note
  BY <1>10 DEF Inbox!Note, Inbox!Goto
<1>11. CASE Inbox!ListThreads
  BY <1>11 DEF Inbox!ListThreads
<1>12. CASE Inbox!ReadThread
  <2>1. PICK j \in tick.todo :
           tick' = [tick EXCEPT !.step = "claim", !.todo = @ \ {j}, !.job = j,
                            !.unread = Inbox!Unread(j),
                            !.seen = [row[j] EXCEPT !.anchor = replies[j]]]
    BY <1>12 DEF Inbox!ReadThread
  <2>2. j \in Jobs /\ row' = row
    BY <1>12 DEF Inbox!ReadThread
  <2>3. /\ tick'.job = j /\ tick'.step = "claim" /\ tick'.todo = tick.todo \ {j}
        /\ tick'.seen = [row[j] EXCEPT !.anchor = replies[j]]
    BY <2>1
  <2>4. row[j].known
    BY <1>12, <2>1 DEF Inbox!ReadThread
  <2>5. tick'.seen.known = row[j].known
    BY <2>2, <2>3
  <2>6. \A k \in tick'.todo : row[k].known
    BY <1>12, <2>3 DEF Inbox!ReadThread
  <2>7. QED
    BY <2>2, <2>3, <2>4, <2>5, <2>6
<1>13. CASE Inbox!ReadFails
  <2>1. PICK j \in tick.todo : tick' = [tick EXCEPT !.todo = @ \ {j}]
    BY <1>13 DEF Inbox!ReadFails
  <2>2. tick'.todo \subseteq tick.todo /\ tick'.step = "threads" /\ row' = row
    BY <1>13, <2>1 DEF Inbox!ReadFails
  <2>3. QED
    BY <1>13, <2>2 DEF Inbox!ReadFails
<1>14. CASE Inbox!Claim
  <2>1. /\ tick.step = "claim" /\ row' = row
        /\ tick'.step \in AtReply /\ tick'.job = tick.job /\ tick'.seen = tick.seen
        /\ tick'.todo = tick.todo
    <3>1. tick' = [tick EXCEPT !.unread = Tail(@)] \/ tick' = [tick EXCEPT !.step = "steer"]
      BY <1>14 DEF Inbox!Claim, Inbox!Goto
    <3>2. QED
      BY <1>14, <3>1 DEF Inbox!Claim
  <2>2. QED
    BY <2>1
<1>15. CASE Inbox!Steer
  BY <1>15 DEF Inbox!Steer
<1>16. CASE Inbox!SteerFails
  BY <1>16 DEF Inbox!SteerFails
<1>17. CASE Inbox!Anchor
  BY <1>17 DEF Inbox!Anchor, Inbox!Goto
<1>18. CASE Inbox!TickEnds
  BY <1>18 DEF Inbox!TickEnds, Inbox!Idle
<1>19. CASE Inbox!TickRaises
  BY <1>19 DEF Inbox!TickRaises, Inbox!Idle
<1>20. CASE Inbox!HostDies
  BY <1>20 DEF Inbox!HostDies, Inbox!Idle
<1>21. ASSUME NEW j \in Jobs, Inbox!JobMoves(j) PROVE InHand'
  BY <1>21 DEF Inbox!JobMoves
<1>22. ASSUME NEW j \in Jobs, Inbox!Tap(j) PROVE InHand'
  BY <1>22 DEF Inbox!Tap
<1>23. ASSUME NEW j \in Jobs, Inbox!Reply(j) PROVE InHand'
  BY <1>23 DEF Inbox!Reply
<1>24. CASE UNCHANGED Inbox!vars
  BY <1>24 DEF Inbox!vars
<1>25. QED
  BY <1>1, <1>2, <1>3, <1>4, <1>5, <1>6, <1>7, <1>8, <1>9, <1>10, <1>11, <1>12, <1>13, <1>14,
         <1>15, <1>16, <1>17, <1>18, <1>19, <1>20, <1>21, <1>22, <1>23, <1>24 DEF Inbox!Next,
         Inbox!TickStep

ThreadsKept == ReadDown /\ ClaimedToAnchor /\ Steering /\ SteeredApart

(* InboxStill: what moves no thread and no tick keeps the order.             *)
LEMMA InboxStill ==
    ASSUME ThreadsKept, UNCHANGED <<row, replies, claimed, steered, tick, lapsed>>
    PROVE  ThreadsKept'
<1>1. ReadDown' /\ Steering'
  BY DEF ThreadsKept, ReadDown, Steering, Reach
<1>2. ClaimedToAnchor'
  BY DEF ThreadsKept, ClaimedToAnchor
<1>3. SteeredApart'
  BY DEF ThreadsKept, SteeredApart
<1>4. QED
  BY <1>1, <1>2, <1>3 DEF ThreadsKept

(* InboxAway: a tick without a reply in hand keeps it, and so does one that  *)
(* drops the reply, which excuses its job.                                   *)
LEMMA InboxAway ==
    ASSUME ThreadsKept, UNCHANGED <<replies, claimed, steered>>, tick'.step \notin AtReply,
           \A j \in Jobs : row'[j].anchor = row[j].anchor,
           \A j \in Jobs : lapsed[j] \subseteq lapsed'[j],
           tick.step = "steer" => "steer" \in lapsed'[tick.job]
    PROVE  ThreadsKept'
<1>1. ReadDown' /\ Steering'
  BY DEF ReadDown, Steering, AtReply
<1>2. ClaimedToAnchor'
  BY DEF ThreadsKept, ClaimedToAnchor
<1>3. SteeredApart'
  <2> SUFFICES ASSUME NEW j \in Jobs,
                      lapsed'[j] \cap {"told", "steer"} = {}, NEW n \in claimed[j]
               PROVE  \E i \in DOMAIN steered[j] : steered[j][i] = n
    BY DEF ThreadsKept, SteeredApart
  <2>1. lapsed[j] \cap {"told", "steer"} = {}
    OBVIOUS
  <2>2. ~(tick.step = "steer" /\ tick.job = j)
    OBVIOUS
  <2>3. QED
    BY <2>1, <2>2 DEF ThreadsKept, SteeredApart
<1>4. QED
  BY <1>1, <1>2, <1>3 DEF ThreadsKept

(* InboxReads: a thread is read from its anchor on.                          *)
LEMMA InboxReads ==
    ASSUME InboxTyped, ThreadsKept, Inbox!ReadThread PROVE ThreadsKept'
<1>1. PICK j \in tick.todo :
         tick' = [tick EXCEPT !.step = "claim", !.todo = @ \ {j}, !.job = j,
                          !.unread = Inbox!Unread(j),
                          !.seen = [row[j] EXCEPT !.anchor = replies[j]]]
  BY DEF Inbox!ReadThread
<1>2. j \in Jobs /\ row[j].anchor \in Nat /\ replies[j] \in Nat /\ row[j].anchor <= replies[j]
  BY DEF InboxTyped, InboxTicks, InboxRows, ThreadsKept, ClaimedToAnchor
<1>3. /\ tick'.step = "claim" /\ tick'.job = j /\ tick'.unread = Inbox!Unread(j)
      /\ tick'.seen.anchor = replies[j]
  BY <1>1, <1>2 DEF InboxTyped, InboxTicks, InboxRows
<1>4. UNCHANGED <<row, replies, claimed, steered, lapsed>>
  BY DEF Inbox!ReadThread, Inbox!threadVars
<1>5. /\ Len(Inbox!Unread(j)) = replies[j] - row[j].anchor
      /\ \A i \in DOMAIN Inbox!Unread(j) : Inbox!Unread(j)[i] = replies[j] + 1 - i
  <2>1. replies[j] - row[j].anchor \in Nat
    BY <1>2
  <2>2. QED
    BY <2>1 DEF Inbox!Unread
<1>6. Reach' = replies[j]
  BY <1>2, <1>3, <1>4, <1>5 DEF Reach
<1>7. ReadDown'
  BY <1>2, <1>3, <1>4, <1>5, <1>6 DEF ReadDown, AtReply, ThreadsKept, ClaimedToAnchor
<1>8. Steering'
  BY <1>3 DEF Steering
<1>9. tick.step # "steer"
  BY DEF Inbox!ReadThread
<1>10. ClaimedToAnchor' /\ SteeredApart'
  BY <1>3, <1>4, <1>9 DEF ThreadsKept, ClaimedToAnchor, SteeredApart
<1>11. QED
  BY <1>7, <1>8, <1>10 DEF ThreadsKept

(* InboxHead: the reply at hand is the newest the tick is not through with.  *)
LEMMA InboxHead ==
    ASSUME InboxTyped, InHand, ThreadsKept, tick.step \in AtReply, tick.unread # <<>>
    PROVE  /\ tick.job \in Jobs /\ Reach \in Nat /\ row[tick.job].anchor < Reach
           /\ Head(tick.unread) = Reach /\ Head(tick.unread) \in 1..replies[tick.job]
           /\ Tail(tick.unread) \in Seq(Nat) /\ Len(Tail(tick.unread)) = Len(tick.unread) - 1
           /\ \A i \in DOMAIN Tail(tick.unread) : Tail(tick.unread)[i] = Reach - i
<1>1. tick.job \in Jobs
  BY DEF InHand, AtJob, AtReply
<1>2. /\ tick.unread \in Seq(Nat) /\ tick.seen.anchor \in Nat /\ Len(tick.unread) \in Nat \ {0}
      /\ replies[tick.job] \in Nat /\ row[tick.job].anchor \in Nat
  BY <1>1 DEF InboxTyped, InboxTicks, InboxRows
<1>3. Reach \in Nat /\ row[tick.job].anchor < Reach
  BY <1>2 DEF Reach
<1>4. Head(tick.unread) = Reach
  BY <1>2, <1>3 DEF ThreadsKept, ReadDown
<1>5. Reach <= replies[tick.job]
  BY <1>1, <1>2, <1>3 DEF ThreadsKept, ReadDown
<1>6. /\ Tail(tick.unread) \in Seq(Nat) /\ Len(Tail(tick.unread)) = Len(tick.unread) - 1
      /\ \A i \in DOMAIN Tail(tick.unread) : Tail(tick.unread)[i] = tick.unread[i + 1]
  BY <1>2
<1>7. ASSUME NEW i \in DOMAIN Tail(tick.unread) PROVE tick.unread[i + 1] = Reach - i
  <2>1. i \in Nat /\ i + 1 \in DOMAIN tick.unread
    BY <1>2, <1>6
  <2>2. tick.unread[i + 1] = Reach + 1 - (i + 1)
    BY <2>1 DEF ThreadsKept, ReadDown
  <2>3. QED
    BY <1>3, <2>1, <2>2
<1>8. QED
  BY <1>1, <1>2, <1>3, <1>4, <1>5, <1>6, <1>7

(* InboxOn: past a reply that is claimed the next one is at hand.            *)
LEMMA InboxOn ==
    ASSUME InboxTyped, InHand, ThreadsKept, tick.step \in AtReply, tick.unread # <<>>,
           UNCHANGED <<row, replies, claimed>>, tick'.step = "claim", tick'.job = tick.job,
           tick'.seen = tick.seen, tick'.unread = Tail(tick.unread),
               Head(tick.unread) \in claimed[tick.job]
    PROVE  ReadDown' /\ ClaimedToAnchor' /\ Steering'
<1>1. Len(tick'.unread) = Len(tick.unread) - 1 /\ tick.unread \in Seq(Nat)
  BY InboxHead DEF InboxTyped, InboxTicks
<1>2. /\ tick.seen.anchor \in Nat /\ Len(tick.unread) \in Nat /\ Reach \in Nat
      /\ row[tick.job].anchor \in Nat
  BY InboxHead DEF InboxTyped, InboxTicks, InboxRows
<1>3. Reach' = Reach - 1
  BY <1>1, <1>2 DEF Reach
<1>4. tick.seen.anchor \in 0..replies[tick.job] /\ Reach <= tick.seen.anchor
  BY DEF ThreadsKept, ReadDown
<1>5. ASSUME NEW n \in 1..tick.seen.anchor, n > Reach - 1 PROVE n \in claimed[tick.job]
  <2>1. n = Reach \/ n > Reach
    BY <1>2, <1>5
  <2>2. QED
    BY <2>1, InboxHead DEF ThreadsKept, ReadDown
<1>6. \A i \in DOMAIN tick'.unread : tick'.unread[i] = Reach' + 1 - i
  <2> SUFFICES ASSUME NEW i \in DOMAIN tick'.unread PROVE tick'.unread[i] = Reach' + 1 - i
    OBVIOUS
  <2>1. tick'.unread[i] = Reach - i /\ i \in Nat
    BY <1>1, <1>2, InboxHead
  <2>2. QED
    BY <1>2, <1>3, <2>1
<1>7. ReadDown'
  BY <1>2, <1>3, <1>4, <1>5, <1>6 DEF ReadDown
<1>8. ClaimedToAnchor'
  BY DEF ThreadsKept, ClaimedToAnchor
<1>9. QED
  BY <1>7, <1>8 DEF Steering

(* InboxClaims: a reply is claimed before it is in hand.                     *)
LEMMA InboxClaims ==
    ASSUME InboxTyped, InHand, ThreadsKept, Inbox!Claim PROVE ThreadsKept'
<1>1. tick.step = "claim" /\ tick.unread # <<>> /\ tick.step \in AtReply
  BY DEF Inbox!Claim, AtReply
<1>2. UNCHANGED <<row, replies, steered, lapsed>>
  BY DEF Inbox!Claim, Inbox!cardVars
<1> DEFINE n == Head(tick.unread)
<1>3. CASE n \in claimed[tick.job]
  <2>1. tick' = [tick EXCEPT !.unread = Tail(@)] /\ claimed' = claimed
    BY <1>3 DEF Inbox!Claim
  <2>2. /\ tick'.step = "claim" /\ tick'.job = tick.job /\ tick'.seen = tick.seen
        /\ tick'.unread = Tail(tick.unread)
    BY <1>1, <2>1 DEF InboxTyped, InboxTicks
  <2>3. ReadDown' /\ ClaimedToAnchor' /\ Steering'
    BY <1>1, <1>2, <1>3, <2>1, <2>2, InboxOn
  <2>4. SteeredApart'
    BY <1>1, <1>2, <2>1, <2>2 DEF ThreadsKept, SteeredApart
  <2>5. QED
    BY <2>3, <2>4 DEF ThreadsKept
<1>4. CASE n \notin claimed[tick.job]
  <2>1. tick' = [tick EXCEPT !.step = "steer"]
    BY <1>4 DEF Inbox!Claim, Inbox!Goto
  <2>2. /\ tick'.step = "steer" /\ tick'.job = tick.job /\ tick'.seen = tick.seen
        /\ tick'.unread = tick.unread
    BY <2>1 DEF InboxTyped, InboxTicks
  <2>3. claimed' = [claimed EXCEPT ![tick.job] = @ \cup {n}]
    BY <1>4 DEF Inbox!Claim
  <2>4. /\ tick.job \in Jobs /\ n \in Nat /\ n \in 1..replies[tick.job]
        /\ claimed[tick.job] \subseteq Nat
    BY <1>1, InboxHead DEF InboxTyped
  <2>5. /\ claimed'[tick.job] = claimed[tick.job] \cup {n}
        /\ \A j \in Jobs : j # tick.job => claimed'[j] = claimed[j]
    BY <2>3, <2>4 DEF InboxTyped
  <2>8. ReadDown'
    BY <1>1, <1>2, <2>2, <2>5 DEF ThreadsKept, ReadDown, Reach, AtReply
  <2>9. ClaimedToAnchor'
    <3> SUFFICES ASSUME NEW j \in Jobs
                 PROVE  /\ claimed'[j] \subseteq 1..replies[j]
                        /\ 1..row[j].anchor \subseteq claimed'[j]
      BY <1>2 DEF ThreadsKept, ClaimedToAnchor
    <3>1. CASE j # tick.job
      BY <2>5, <3>1 DEF ThreadsKept, ClaimedToAnchor
    <3>2. CASE j = tick.job
      BY <2>4, <2>5, <3>2 DEF ThreadsKept, ClaimedToAnchor
    <3>3. QED
      BY <3>1, <3>2
  <2>10. Steering'
    <3>1. \A i \in DOMAIN steered[tick.job] : steered[tick.job][i] # n
      BY <1>4, <2>4 DEF ThreadsKept, SteeredApart
    <3>2. QED
      BY <1>1, <1>2, <2>2, <2>5, <3>1 DEF Steering
  <2>11. SteeredApart'
    <3> SUFFICES ASSUME NEW j \in Jobs
                 PROVE  /\ \A i \in DOMAIN steered[j] : steered[j][i] \in claimed'[j]
                        /\ lapsed[j] \cap {"told", "steer"} = {} =>
                               \A m \in claimed'[j] :
                                   \/ \E i \in DOMAIN steered[j] : steered[j][i] = m
                                   \/ tick.job = j /\ m = n
      BY <1>2, <2>2 DEF ThreadsKept, SteeredApart
    <3>1. /\ \A i \in DOMAIN steered[j] : steered[j][i] \in claimed[j]
          /\ lapsed[j] \cap {"told", "steer"} = {} =>
                 \A m \in claimed[j] : \E i \in DOMAIN steered[j] : steered[j][i] = m
      BY <1>1 DEF ThreadsKept, SteeredApart
    <3>2. claimed[j] \subseteq claimed'[j]
      BY <2>5
    <3>3. ASSUME lapsed[j] \cap {"told", "steer"} = {}, NEW m \in claimed'[j]
          PROVE  \/ \E i \in DOMAIN steered[j] : steered[j][i] = m
                 \/ tick.job = j /\ m = n
      <4>1. m \in claimed[j] \/ (tick.job = j /\ m = n)
        BY <2>5
      <4>2. QED
        BY <3>1, <3>3, <4>1
    <3>4. \A i \in DOMAIN steered[j] : steered[j][i] \in claimed'[j]
      BY <3>1, <3>2
    <3>5. QED
      BY <3>3, <3>4
  <2>12. QED
    BY <2>8, <2>9, <2>10, <2>11 DEF ThreadsKept
<1>5. QED
  BY <1>3, <1>4

(* InboxSteers: the reply in hand becomes a steer, for the first time.       *)
LEMMA InboxSteers ==
    ASSUME InboxTyped, InHand, ThreadsKept, Inbox!Steer PROVE ThreadsKept'
<1>1. tick.step = "steer" /\ tick.unread # <<>> /\ tick.step \in AtReply
  BY DEF Inbox!Steer, AtReply, ThreadsKept, Steering
<1>2. UNCHANGED <<row, replies, claimed, lapsed>>
  BY DEF Inbox!Steer, Inbox!cardVars
<1> DEFINE n == Head(tick.unread)
           s == steered[tick.job]
<1>3. /\ tick'.step = "claim" /\ tick'.job = tick.job /\ tick'.seen = tick.seen
      /\ tick'.unread = Tail(tick.unread)
  BY DEF Inbox!Steer, InboxTyped, InboxTicks
<1>4. tick.job \in Jobs /\ n \in Nat /\ s \in Seq(Nat)
  BY <1>1, InboxHead DEF InboxTyped
<1>5. /\ steered'[tick.job] = Append(s, n)
      /\ \A j \in Jobs : j # tick.job => steered'[j] = steered[j]
  BY <1>4 DEF Inbox!Steer, InboxTyped
<1>6. n \in claimed[tick.job] /\ \A i \in DOMAIN s : s[i] # n
  BY <1>1 DEF ThreadsKept, Steering
<1>7. ReadDown' /\ ClaimedToAnchor' /\ Steering'
  BY <1>1, <1>2, <1>3, <1>6, InboxOn
<1>8. SteeredApart'
  <2> SUFFICES ASSUME NEW j \in Jobs
               PROVE  /\ \A i \in DOMAIN steered'[j] : steered'[j][i] \in claimed[j]
                      /\ \A a, b \in DOMAIN steered'[j] :
                             steered'[j][a] = steered'[j][b] => a = b
                      /\ lapsed[j] \cap {"told", "steer"} = {} =>
                             \A m \in claimed[j] : \E i \in DOMAIN steered'[j] :
                                 steered'[j][i] = m
    BY <1>2 DEF SteeredApart
  <2>1. CASE j # tick.job
    BY <1>5, <2>1 DEF ThreadsKept, SteeredApart
  <2>2. CASE j = tick.job
    <3>1. /\ DOMAIN steered'[j] = 1..(Len(s) + 1) /\ DOMAIN s = 1..Len(s) /\ Len(s) \in Nat
          /\ steered'[j][Len(s) + 1] = n /\ \A i \in DOMAIN s : steered'[j][i] = s[i]
      BY <1>4, <1>5, <2>2
    <3>2. \A i \in DOMAIN steered'[j] : i \in DOMAIN s \/ i = Len(s) + 1
      BY <3>1
    <3>3. \A i \in DOMAIN steered'[j] : steered'[j][i] \in claimed[j]
      BY <1>6, <2>2, <3>1, <3>2 DEF ThreadsKept, SteeredApart
    <3>4. ASSUME NEW a \in DOMAIN steered'[j], NEW b \in DOMAIN steered'[j],
                 steered'[j][a] = steered'[j][b]
          PROVE  a = b
      <4>1. CASE a \in DOMAIN s /\ b \in DOMAIN s
        BY <2>2, <3>1, <3>4, <4>1 DEF ThreadsKept, SteeredApart
      <4>2. CASE a \in DOMAIN s /\ b = Len(s) + 1
        BY <1>6, <3>1, <3>4, <4>2
      <4>3. CASE a = Len(s) + 1 /\ b \in DOMAIN s
        BY <1>6, <3>1, <3>4, <4>3
      <4>4. QED
        BY <3>2, <4>1, <4>2, <4>3
    <3>5. ASSUME lapsed[j] \cap {"told", "steer"} = {}, NEW m \in claimed[j]
          PROVE  \E i \in DOMAIN steered'[j] : steered'[j][i] = m
      <4>1. m = n \/ \E i \in DOMAIN s : s[i] = m
        BY <2>2, <3>5 DEF ThreadsKept, SteeredApart
      <4>2. QED
        BY <3>1, <4>1
    <3>6. QED
      BY <3>3, <3>4, <3>5
  <2>3. QED
    BY <2>1, <2>2
<1>9. QED
  BY <1>7, <1>8 DEF ThreadsKept

(* InboxTells: a reply that could not be steered stays claimed.              *)
LEMMA InboxTells ==
    ASSUME InboxTyped, InHand, ThreadsKept, Inbox!SteerFails PROVE ThreadsKept'
<1>1. tick.step = "steer" /\ tick.unread # <<>> /\ tick.step \in AtReply
  BY DEF Inbox!SteerFails, AtReply, ThreadsKept, Steering
<1>2. UNCHANGED <<row, replies, claimed, steered>>
  BY DEF Inbox!SteerFails, Inbox!cardVars, Inbox!threadVars
<1>3. /\ tick'.step = "claim" /\ tick'.job = tick.job /\ tick'.seen = tick.seen
      /\ tick'.unread = Tail(tick.unread)
  BY DEF Inbox!SteerFails, InboxTyped, InboxTicks
<1>4. tick.job \in Jobs /\ Head(tick.unread) \in claimed[tick.job]
  BY <1>1, InboxHead DEF ThreadsKept, Steering
<1>5. /\ "told" \in lapsed'[tick.job]
      /\ \A j \in Jobs : j # tick.job => lapsed'[j] = lapsed[j]
  BY <1>4 DEF Inbox!SteerFails, Inbox!Lapse, InboxTyped
<1>6. ReadDown' /\ ClaimedToAnchor' /\ Steering'
  BY <1>1, <1>2, <1>3, <1>4, InboxOn
<1>7. SteeredApart'
  BY <1>2, <1>3, <1>5 DEF ThreadsKept, SteeredApart
<1>8. QED
  BY <1>6, <1>7 DEF ThreadsKept

(* InboxAnchors: the anchor moves behind what the tick is through with.      *)
LEMMA InboxAnchors ==
    ASSUME InboxTyped, InHand, ThreadsKept, Inbox!Anchor PROVE ThreadsKept'
<1>1. tick.step = "claim" /\ tick.unread = <<>> /\ tick.job \in Jobs
  BY DEF Inbox!Anchor, InHand, AtJob
<1>2. UNCHANGED <<replies, claimed, steered, lapsed>> /\ tick'.step = "threads"
  BY DEF Inbox!Anchor, Inbox!Goto, Inbox!threadVars, InboxTyped, InboxTicks
<1>3. /\ row'[tick.job].anchor = tick.seen.anchor
      /\ \A j \in Jobs : j # tick.job => row'[j] = row[j]
  BY <1>1 DEF Inbox!Anchor, InboxTyped
<1>4. /\ tick.seen.anchor \in Nat /\ row[tick.job].anchor \in Nat
      /\ Reach = row[tick.job].anchor
  BY <1>1 DEF InboxTyped, InboxTicks, InboxRows, Reach
<1>5. tick.seen.anchor <= replies[tick.job] /\ 1..tick.seen.anchor \subseteq claimed[tick.job]
  <2>1. /\ tick.seen.anchor \in 0..replies[tick.job]
        /\ \A n \in 1..tick.seen.anchor : n > row[tick.job].anchor => n \in claimed[tick.job]
    BY <1>1, <1>4 DEF ThreadsKept, ReadDown, AtReply
  <2>2. 1..row[tick.job].anchor \subseteq claimed[tick.job]
    BY <1>1 DEF ThreadsKept, ClaimedToAnchor
  <2>3. replies[tick.job] \in Nat
    BY <1>1 DEF InboxTyped
  <2>4. QED
    BY <1>4, <2>1, <2>2, <2>3
<1>6. ClaimedToAnchor'
  <2> SUFFICES ASSUME NEW j \in Jobs
               PROVE  row'[j].anchor <= replies[j] /\ 1..row'[j].anchor \subseteq claimed[j]
    BY <1>2 DEF ThreadsKept, ClaimedToAnchor
  <2>1. QED
    BY <1>3, <1>5 DEF ThreadsKept, ClaimedToAnchor
<1>7. SteeredApart'
  BY <1>1, <1>2 DEF ThreadsKept, SteeredApart
<1>8. QED
  BY <1>2, <1>6, <1>7 DEF ThreadsKept, ReadDown, Steering, AtReply

(* InboxGrows: a new reply is behind everything that was read.               *)
LEMMA InboxGrows ==
    ASSUME InboxTyped, InHand, ThreadsKept, NEW j \in Jobs, Inbox!Reply(j) PROVE ThreadsKept'
<1>1. UNCHANGED <<row, claimed, steered, tick, lapsed>>
  BY DEF Inbox!Reply
<1>2. \A k \in Jobs : replies[k] \in Nat /\ replies'[k] \in Nat /\ replies[k] <= replies'[k]
  BY DEF Inbox!Reply, InboxTyped
<1>3. ClaimedToAnchor'
  <2> SUFFICES ASSUME NEW k \in Jobs
               PROVE  row[k].anchor <= replies'[k] /\ claimed[k] \subseteq 1..replies'[k]
    BY <1>1 DEF ThreadsKept, ClaimedToAnchor
  <2>1. row[k].anchor \in Nat /\ row[k].anchor <= replies[k]
          /\ claimed[k] \subseteq 1..replies[k]
    BY DEF ThreadsKept, ClaimedToAnchor, InboxTyped, InboxRows
  <2>2. QED
    BY <1>2, <2>1
<1>4. ReadDown'
  <2> SUFFICES ASSUME tick.step \in AtReply
               PROVE  tick.seen.anchor \in 0..replies'[tick.job]
    BY <1>1 DEF ThreadsKept, ReadDown, Reach
  <2>1. tick.job \in Jobs /\ tick.seen.anchor \in Nat /\ Len(tick.unread) \in Nat
    BY DEF InHand, AtJob, AtReply, InboxTyped, InboxTicks, InboxRows
  <2>2. QED
    BY <1>2, <2>1 DEF ThreadsKept, ReadDown
<1>5. QED
  BY <1>1, <1>3, <1>4 DEF ThreadsKept, Steering, SteeredApart

(* InboxThreads: no step breaks the order of claims and steers.              *)
LEMMA InboxThreads ==
    ASSUME InboxTyped, InHand, ThreadsKept, [Inbox!Next]_(Inbox!vars) PROVE ThreadsKept'
<1> USE DEF Inbox!jobVars, Inbox!cardVars, Inbox!threadVars
<1>1. CASE Inbox!Tick
  <2>1. tick.step \notin AtReply /\ tick'.step \notin AtReply
    BY <1>1 DEF Inbox!Tick, Inbox!Idle, AtReply, InboxTyped, InboxTicks
  <2>2. QED
    BY <1>1, <2>1, InboxAway DEF Inbox!Tick, AtReply
<1>2. CASE Inbox!LookUp
  <2>1. tick.step \notin AtReply /\ tick'.step \notin AtReply
    BY <1>2 DEF Inbox!LookUp, AtReply, InboxTyped, InboxTicks
  <2>2. QED
    BY <1>2, <2>1, InboxAway DEF Inbox!LookUp, AtReply
<1>3. CASE Inbox!CheckDate
  <2>1. tick.step \notin AtReply /\ tick'.step \notin AtReply
    BY <1>3 DEF Inbox!CheckDate, Inbox!Goto, AtReply, InboxTyped, InboxTicks
  <2>2. QED
    BY <1>3, <2>1, InboxAway DEF Inbox!CheckDate, AtReply
<1>4. CASE Inbox!Post
  <2>1. tick.step \notin AtReply /\ tick'.step \notin AtReply
    BY <1>4 DEF Inbox!Post, Inbox!Goto, AtReply, InboxTyped, InboxTicks
  <2>2. QED
    BY <1>4, <2>1, InboxAway DEF Inbox!Post, AtReply
<1>5. CASE Inbox!Edit
  <2>1. tick.step \notin AtReply /\ tick'.step \notin AtReply
    BY <1>5 DEF Inbox!Edit, Inbox!Goto, AtReply, InboxTyped, InboxTicks
  <2>2. QED
    BY <1>5, <2>1, InboxAway DEF Inbox!Edit, AtReply
<1>6. CASE Inbox!ListThreads
  <2>1. tick.step \notin AtReply /\ tick'.step \notin AtReply
    BY <1>6 DEF Inbox!ListThreads, AtReply, InboxTyped, InboxTicks
  <2>2. QED
    BY <1>6, <2>1, InboxAway DEF Inbox!ListThreads, AtReply
<1>7. CASE Inbox!TickEnds
  <2>1. tick.step \notin AtReply /\ tick'.step \notin AtReply
    BY <1>7 DEF Inbox!TickEnds, Inbox!Idle, AtReply, InboxTyped, InboxTicks
  <2>2. QED
    BY <1>7, <2>1, InboxAway DEF Inbox!TickEnds, AtReply
<1>8. CASE Inbox!PostFails
  <2>1. tick.step \notin AtReply /\ tick'.step \notin AtReply
    BY <1>8 DEF Inbox!PostFails, Inbox!Goto, AtReply, InboxTyped, InboxTicks
  <2>2. QED
    BY <1>8, <2>1, InboxAway DEF Inbox!PostFails, AtReply
<1>9. CASE Inbox!DateFails
  <2>1. tick.step \notin AtReply /\ tick'.step \notin AtReply
    BY <1>9 DEF Inbox!DateFails, Inbox!Goto, AtReply, InboxTyped, InboxTicks
  <2>2. \A j \in Jobs : lapsed[j] \subseteq lapsed'[j]
    BY <1>9 DEF Inbox!DateFails, Inbox!Lapse, InboxTyped
  <2>3. QED
    BY <1>9, <2>1, <2>2, InboxAway DEF Inbox!DateFails, AtReply
<1>10. CASE Inbox!EditFails
  <2>1. tick.step \notin AtReply /\ tick'.step \notin AtReply
    BY <1>10 DEF Inbox!EditFails, Inbox!Goto, AtReply, InboxTyped, InboxTicks
  <2>2. \A j \in Jobs : lapsed[j] \subseteq lapsed'[j]
    BY <1>10 DEF Inbox!EditFails, Inbox!Lapse, InboxTyped
  <2>3. QED
    BY <1>10, <2>1, <2>2, InboxAway DEF Inbox!EditFails, AtReply
<1>11. CASE Inbox!Record
  <2>1. tick.step \notin AtReply /\ tick'.step \notin AtReply /\ tick.step \in AtJob
    BY <1>11 DEF Inbox!Record, Inbox!Goto, AtJob, AtReply, InboxTyped, InboxTicks
  <2>2. tick.job \in Jobs /\ tick.seen.anchor = row[tick.job].anchor
    BY <2>1 DEF InHand
  <2>3. \A j \in Jobs : row'[j].anchor = row[j].anchor
    BY <1>11, <2>2 DEF Inbox!Record, InboxTyped, InboxTicks, InboxRows
  <2>4. QED
    BY <1>11, <2>1, <2>3, InboxAway DEF Inbox!Record, AtReply
<1>12. CASE Inbox!Note
  <2>1. tick.step \notin AtReply /\ tick'.step \notin AtReply /\ tick.step \in AtJob
    BY <1>12 DEF Inbox!Note, Inbox!Goto, AtJob, AtReply, InboxTyped, InboxTicks
  <2>2. tick.job \in Jobs /\ tick.seen.anchor = row[tick.job].anchor
    BY <2>1 DEF InHand
  <2>3. \A j \in Jobs : row'[j].anchor = row[j].anchor
    BY <1>12, <2>2 DEF Inbox!Note, InboxTyped, InboxTicks, InboxRows
  <2>4. QED
    BY <1>12, <2>1, <2>3, InboxAway DEF Inbox!Note, AtReply
<1>13. CASE Inbox!ReadThread
  BY <1>13, InboxReads
<1>14. CASE Inbox!Claim
  BY <1>14, InboxClaims
<1>15. CASE Inbox!Steer
  BY <1>15, InboxSteers
<1>16. CASE Inbox!SteerFails
  BY <1>16, InboxTells
<1>17. CASE Inbox!Anchor
  BY <1>17, InboxAnchors
<1>18. CASE Inbox!ReadFails
  <2>1. tick.step \notin AtReply /\ tick'.step \notin AtReply
    BY <1>18 DEF Inbox!ReadFails, AtReply, InboxTyped, InboxTicks
  <2>2. QED
    BY <1>18, <2>1, InboxAway DEF Inbox!ReadFails, AtReply
<1>19. CASE Inbox!TickRaises
  <2>1. tick'.step \notin AtReply
    BY <1>19 DEF Inbox!TickRaises, Inbox!Idle, AtReply
  <2>2. CASE tick.step \in {"record", "steer"}
    <3>1. tick.job \in Jobs
      BY <2>2 DEF InHand, AtJob, AtReply
    <3>2. lapsed' = [lapsed EXCEPT ![tick.job] = @ \cup {tick.step}]
      BY <1>19, <2>2 DEF Inbox!TickRaises, Inbox!Excuse, Inbox!Lapse
    <3>3. /\ \A j \in Jobs : lapsed[j] \subseteq lapsed'[j]
          /\ tick.step = "steer" => "steer" \in lapsed'[tick.job]
      BY <3>1, <3>2 DEF InboxTyped
    <3>4. QED
      BY <1>19, <2>1, <3>3, InboxAway DEF Inbox!TickRaises
  <2>3. CASE tick.step \notin {"record", "steer"}
    <3>1. UNCHANGED lapsed
      BY <1>19, <2>3 DEF Inbox!TickRaises, Inbox!Excuse
    <3>2. QED
      BY <1>19, <2>1, <2>3, <3>1, InboxAway DEF Inbox!TickRaises
  <2>4. QED
    BY <2>2, <2>3
<1>20. CASE Inbox!HostDies
  <2>1. tick'.step \notin AtReply
    BY <1>20 DEF Inbox!HostDies, Inbox!Idle, AtReply
  <2>2. CASE tick.step \in {"record", "steer"}
    <3>1. tick.job \in Jobs
      BY <2>2 DEF InHand, AtJob, AtReply
    <3>2. lapsed' = [lapsed EXCEPT ![tick.job] = @ \cup {tick.step}]
      BY <1>20, <2>2 DEF Inbox!HostDies, Inbox!Excuse, Inbox!Lapse
    <3>3. /\ \A j \in Jobs : lapsed[j] \subseteq lapsed'[j]
          /\ tick.step = "steer" => "steer" \in lapsed'[tick.job]
      BY <3>1, <3>2 DEF InboxTyped
    <3>4. QED
      BY <1>20, <2>1, <3>3, InboxAway DEF Inbox!HostDies
  <2>3. CASE tick.step \notin {"record", "steer"}
    <3>1. UNCHANGED lapsed
      BY <1>20, <2>3 DEF Inbox!HostDies, Inbox!Excuse
    <3>2. QED
      BY <1>20, <2>1, <2>3, <3>1, InboxAway DEF Inbox!HostDies
  <2>4. QED
    BY <2>2, <2>3
<1>21. ASSUME NEW j \in Jobs, Inbox!JobMoves(j) \/ Inbox!Tap(j) PROVE ThreadsKept'
  BY <1>21, InboxStill DEF Inbox!JobMoves, Inbox!Tap
<1>22. ASSUME NEW j \in Jobs, Inbox!Reply(j) PROVE ThreadsKept'
  BY <1>22, InboxGrows
<1>23. CASE UNCHANGED Inbox!vars
  BY <1>23, InboxStill DEF Inbox!vars
<1>24. QED
  BY <1>1, <1>2, <1>3, <1>4, <1>5, <1>6, <1>7, <1>8, <1>9, <1>10, <1>11, <1>12, <1>13, <1>14,
         <1>15, <1>16, <1>17, <1>18, <1>19, <1>20, <1>21, <1>22, <1>23 DEF Inbox!Next,
         Inbox!TickStep

CardsKept == CardsOnce /\ OldJobs

(* InboxCards: no step posts a second card.                                  *)
LEMMA InboxCards ==
    ASSUME InboxTyped, InHand, CardsKept, [Inbox!Next]_(Inbox!vars) PROVE CardsKept'
<1> USE DEF InHand, AtJob, AtReply, InboxTyped, InboxTicks, InboxRows, CardsKept, CardsOnce,
      OldJobs,
            Inbox!jobVars, Inbox!cardVars, Inbox!threadVars
<1>1. CASE Inbox!Tick
  BY <1>1 DEF Inbox!Tick, Inbox!Idle
<1>2. CASE Inbox!LookUp
  BY <1>2 DEF Inbox!LookUp
<1>3. CASE Inbox!CheckDate
  BY <1>3 DEF Inbox!CheckDate, Inbox!Goto
<1>4. CASE Inbox!Post
  <2>1. tick.job \in Jobs /\ tick.step = "post" /\ tick'.step = "record" /\ tick'.job = tick.job
    BY <1>4 DEF Inbox!Post, Inbox!Goto
  <2>2. cards' = [cards EXCEPT ![tick.job] = @ + 1] /\ UNCHANGED <<old, row, lapsed>>
    BY <1>4 DEF Inbox!Post
  <2>3. "record" \in lapsed[tick.job] \/ cards[tick.job] = 0
    BY <2>1
  <2>4. \A j \in Jobs : j # tick.job => cards'[j] = cards[j]
    BY <2>2
  <2>5. "record" \in lapsed[tick.job] \/ cards'[tick.job] <= 1
    BY <2>1, <2>2, <2>3
  <2>6. CardsOnce'
    BY <2>1, <2>2, <2>4, <2>5
  <2>7. OldJobs'
    BY <2>1, <2>2, <2>4
  <2>8. QED
    BY <2>6, <2>7
<1>5. CASE Inbox!Record
  BY <1>5 DEF Inbox!Record, Inbox!Goto
<1>6. CASE Inbox!Edit
  BY <1>6 DEF Inbox!Edit, Inbox!Goto
<1>7. CASE Inbox!Note
  BY <1>7 DEF Inbox!Note, Inbox!Goto
<1>8. CASE Inbox!PostFails
  BY <1>8 DEF Inbox!PostFails, Inbox!Goto
<1>9. CASE Inbox!ListThreads
  BY <1>9 DEF Inbox!ListThreads
<1>10. CASE Inbox!ReadThread
  BY <1>10 DEF Inbox!ReadThread
<1>11. CASE Inbox!ReadFails
  BY <1>11 DEF Inbox!ReadFails
<1>12. CASE Inbox!Claim
  <2>1. tick.step = "claim" /\ tick'.step \in AtReply
    <3>1. tick' = [tick EXCEPT !.unread = Tail(@)] \/ tick' = [tick EXCEPT !.step = "steer"]
      BY <1>12 DEF Inbox!Claim, Inbox!Goto
    <3>2. QED
      BY <1>12, <3>1 DEF Inbox!Claim
  <2>2. QED
    BY <1>12, <2>1 DEF Inbox!Claim
<1>13. CASE Inbox!Steer
  BY <1>13 DEF Inbox!Steer
<1>14. CASE Inbox!Anchor
  BY <1>14 DEF Inbox!Anchor, Inbox!Goto
<1>15. CASE Inbox!TickEnds
  BY <1>15 DEF Inbox!TickEnds, Inbox!Idle
<1>16. CASE Inbox!EditFails
  <2>1. tick.step \notin {"record", "post"} /\ tick'.step \notin {"record", "post"}
    BY <1>16 DEF Inbox!EditFails, Inbox!Goto, Steering
  <2>2. \A j \in Jobs : lapsed[j] \subseteq lapsed'[j]
    BY <1>16 DEF Inbox!EditFails, Inbox!Lapse
  <2>3. QED
    BY <1>16, <2>1, <2>2 DEF Inbox!EditFails
<1>17. CASE Inbox!SteerFails
  <2>1. tick.step \notin {"record", "post"} /\ tick'.step \notin {"record", "post"}
    BY <1>17 DEF Inbox!SteerFails, Inbox!Goto, Steering
  <2>2. \A j \in Jobs : lapsed[j] \subseteq lapsed'[j]
    BY <1>17 DEF Inbox!SteerFails, Inbox!Lapse
  <2>3. QED
    BY <1>17, <2>1, <2>2 DEF Inbox!SteerFails
<1>18. CASE Inbox!DateFails
  <2>1. /\ tick.job \in Jobs /\ tick.step = "date"
        /\ tick'.step = "post" /\ tick'.job = tick.job
    BY <1>18 DEF Inbox!DateFails, Inbox!Goto
  <2>2. \A j \in Jobs : lapsed[j] \subseteq lapsed'[j]
    BY <1>18 DEF Inbox!DateFails, Inbox!Lapse
  <2>3. "undated" \in lapsed'[tick.job]
    BY <1>18, <2>1 DEF Inbox!DateFails, Inbox!Lapse
  <2>4. QED
    BY <1>18, <2>1, <2>2, <2>3 DEF Inbox!DateFails
<1>19. CASE Inbox!TickRaises
  <2>1. tick'.step = "idle"
    BY <1>19 DEF Inbox!TickRaises, Inbox!Idle
  <2>2. CASE tick.step \in {"record", "steer"}
    <3>1. tick.job \in Jobs
      BY <2>2
    <3>2. lapsed' = [lapsed EXCEPT ![tick.job] = @ \cup {tick.step}]
      BY <1>19, <2>2 DEF Inbox!TickRaises, Inbox!Excuse, Inbox!Lapse
    <3>3. /\ \A j \in Jobs : lapsed[j] \subseteq lapsed'[j]
          /\ tick.step = "record" => "record" \in lapsed'[tick.job]
      BY <3>1, <3>2
    <3>4. QED
      BY <1>19, <2>1, <3>3 DEF Inbox!TickRaises
  <2>3. CASE tick.step \notin {"record", "steer"}
    BY <1>19, <2>1, <2>3 DEF Inbox!TickRaises, Inbox!Excuse
  <2>4. QED
    BY <2>2, <2>3
<1>20. CASE Inbox!HostDies
  <2>1. tick'.step = "idle"
    BY <1>20 DEF Inbox!HostDies, Inbox!Idle
  <2>2. CASE tick.step \in {"record", "steer"}
    <3>1. tick.job \in Jobs
      BY <2>2
    <3>2. lapsed' = [lapsed EXCEPT ![tick.job] = @ \cup {tick.step}]
      BY <1>20, <2>2 DEF Inbox!HostDies, Inbox!Excuse, Inbox!Lapse
    <3>3. /\ \A j \in Jobs : lapsed[j] \subseteq lapsed'[j]
          /\ tick.step = "record" => "record" \in lapsed'[tick.job]
      BY <3>1, <3>2
    <3>4. QED
      BY <1>20, <2>1, <3>3 DEF Inbox!HostDies
  <2>3. CASE tick.step \notin {"record", "steer"}
    BY <1>20, <2>1, <2>3 DEF Inbox!HostDies, Inbox!Excuse
  <2>4. QED
    BY <2>2, <2>3
<1>21. ASSUME NEW j \in Jobs, Inbox!JobMoves(j) PROVE CardsKept'
  BY <1>21 DEF Inbox!JobMoves
<1>22. ASSUME NEW j \in Jobs, Inbox!Tap(j) PROVE CardsKept'
  BY <1>22 DEF Inbox!Tap
<1>23. ASSUME NEW j \in Jobs, Inbox!Reply(j) PROVE CardsKept'
  BY <1>23 DEF Inbox!Reply
<1>24. CASE UNCHANGED Inbox!vars
  BY <1>24 DEF Inbox!vars
<1>25. QED
  BY <1>1, <1>2, <1>3, <1>4, <1>5, <1>6, <1>7, <1>8, <1>9, <1>10, <1>11, <1>12, <1>13, <1>14,
         <1>15, <1>16, <1>17, <1>18, <1>19, <1>20, <1>21, <1>22, <1>23, <1>24 DEF Inbox!Next,
         Inbox!TickStep

\* The invariant.
InboxInv == InboxTyped /\ InHand /\ ThreadsKept /\ CardsKept

(* InboxInit: nothing is carded, claimed or steered to begin with.          *)
LEMMA InboxInit == Inbox!Init => InboxInv
<1> SUFFICES ASSUME Inbox!Init PROVE InboxInv
  OBVIOUS
<1>1. InboxTyped
  <2>1. tick \in InboxTicks
    BY DEF Inbox!Init, Inbox!Idle, Inbox!NoRow, InboxTicks, InboxRows, InboxStatuses
  <2>2. pm \in [Jobs -> [status : InboxStatuses, moves : Nat]]
          /\ shows \in [Jobs -> InboxStatuses]
    BY DEF Inbox!Init, InboxStatuses
  <2>3. row \in [Jobs -> InboxRows]
    BY DEF Inbox!Init, Inbox!NoRow, InboxRows, InboxStatuses
  <2>4. QED
    BY <2>1, <2>2, <2>3 DEF Inbox!Init, InboxTyped
<1>2. InHand /\ ThreadsKept /\ CardsKept
  BY DEF Inbox!Init, Inbox!Idle, Inbox!NoRow, InHand, AtJob, AtReply, ThreadsKept,
      ReadDown, ClaimedToAnchor, Steering, SteeredApart, CardsKept, CardsOnce, OldJobs
<1>3. QED
  BY <1>1, <1>2 DEF InboxInv

(* InboxStep: each part of the invariant carries the next.                  *)
LEMMA InboxStep == InboxInv /\ [Inbox!Next]_(Inbox!vars) => InboxInv'
<1> SUFFICES ASSUME InboxInv, [Inbox!Next]_(Inbox!vars) PROVE InboxInv'
  OBVIOUS
<1>1. InboxTyped'
  BY InboxTypes DEF InboxInv, ThreadsKept
<1>2. QED
  BY <1>1, InboxHands, InboxThreads, InboxCards DEF InboxInv

(* OneSteer: over ticks that break off in the middle of a page and restarts  *)
(* a reply in a job's thread steers the job once, and none the anchor has    *)
(* passed is lost but one the thread was told of or that a dying host had    *)
(* in hand.                                                                  *)
THEOREM OneSteer == Inbox!Spec => []Inbox!SteerOnce
<1>1. InboxInv => Inbox!SteerOnce
  <2> SUFFICES ASSUME InboxInv, NEW j \in Jobs
               PROVE  /\ \A a, b \in DOMAIN steered[j] :
                             steered[j][a] = steered[j][b] => a = b
                      /\ lapsed[j] \cap {"told", "steer"} = {} =>
                             \A n \in 1..row[j].anchor :
                                 \E i \in DOMAIN steered[j] : steered[j][i] = n
    BY DEF Inbox!SteerOnce
  <2>1. ASSUME lapsed[j] \cap {"told", "steer"} = {}, NEW n \in 1..row[j].anchor
        PROVE  \E i \in DOMAIN steered[j] : steered[j][i] = n
    <3>1. n \in claimed[j]
      BY DEF InboxInv, ThreadsKept, ClaimedToAnchor
    <3>2. ASSUME tick.step = "steer", tick.job = j, n = Head(tick.unread) PROVE FALSE
      <4>1. tick.step \in AtReply /\ tick.unread # <<>>
        BY <3>2 DEF InboxInv, ThreadsKept, Steering, AtReply
      <4>2. n = Reach /\ row[j].anchor < Reach /\ Reach \in Nat
        BY <3>2, <4>1, InboxHead DEF InboxInv
      <4>3. row[j].anchor \in Nat
        BY DEF InboxInv, InboxTyped, InboxRows
      <4>4. QED
        BY <4>2, <4>3
    <3>3. QED
      BY <2>1, <3>1, <3>2 DEF InboxInv, ThreadsKept, SteeredApart
  <2>2. QED
    BY <2>1 DEF InboxInv, ThreadsKept, SteeredApart
<1>2. QED
  BY <1>1, InboxInit, InboxStep, PTL DEF Inbox!Spec

(* OneCard: a job has one card and one from before the inbox was opened has  *)
(* none, but for a card whose row was not written and a date not read.       *)
THEOREM OneCard == Inbox!Spec => []Inbox!OneCardNewJobs
<1>1. InboxInv => Inbox!OneCardNewJobs
  BY DEF InboxInv, CardsKept, CardsOnce, OldJobs, Inbox!OneCardNewJobs
<1>2. QED
  BY <1>1, InboxInit, InboxStep, PTL DEF Inbox!Spec

-----------------------------------------------------------------------------
(* The wake: an event is posted once and a rule opens one job.              *)

\* The event that the poll has claimed and not acted on yet.
WakeHand ==
    (IF poll.step = "post" THEN {Head(poll.todo)} ELSE {})
        \cup (IF poll.step = "answer" THEN {Wake!RuleRed} ELSE {})
        \cup (IF poll.step = "cipost" THEN {Wake!CiRed(poll.head)} ELSE {})

WakeTyped ==
    /\ poll = [step |-> poll.step, head |-> poll.head, todo |-> poll.todo, then |-> poll.then]
    /\ poll.then \in {"idle", "rule", "ci"}
    /\ done \in [Wake!Ids -> Nat]
    /\ bound \in BOOLEAN

\* An event is acted on after its claim only, and one in hand has not been yet.
ClaimedFirst ==
    \A e \in Wake!Ids \ {Wake!Opened} :
        \/ <<e, "unclaimed">> \in waived
        \/ /\ done[e] <= 1
           /\ done[e] = 0 \/ e \in marked
           /\ e \in WakeHand => done[e] = 0 /\ e \in marked

\* A job is opened for a pull request that has none, as far as that can be read; then
\* it is bound.
OpenedFirst ==
    /\ poll.step \in {"open", "adopt"} => ~bound \/ <<Wake!Opened, "unclaimed">> \in waived
    /\ \/ <<Wake!Opened, "unclaimed">> \in waived
       \/ /\ done[Wake!Opened] <= 1
          /\ done[Wake!Opened] = 0 \/ bound \/ poll.step = "adopt"

\* The invariant.
WakeInv == WakeTyped /\ ClaimedFirst /\ OpenedFirst

(* WakeInit: nothing is claimed or done to begin with.                      *)
LEMMA WakeInit == Wake!Init => WakeInv
<1> SUFFICES ASSUME Wake!Init PROVE WakeInv
  OBVIOUS
<1>1. WakeTyped
  BY DEF Wake!Init, Wake!Idle, WakeTyped
<1>2. Wake!Opened \in Wake!Ids
  BY DEF Wake!Ids
<1>3. ClaimedFirst
  <2>1. poll.step = "idle" /\ \A e \in Wake!Ids : done[e] = 0
    BY DEF Wake!Init, Wake!Idle
  <2>2. QED
    BY <2>1 DEF ClaimedFirst, WakeHand
<1>4. OpenedFirst
  <2>1. poll.step = "idle" /\ done[Wake!Opened] = 0
    BY <1>2 DEF Wake!Init, Wake!Idle
  <2>2. QED
    BY <2>1 DEF OpenedFirst
<1>5. QED
  BY <1>1, <1>3, <1>4 DEF WakeInv

(* WakeCounts: an act counts for its event.                                  *)
LEMMA WakeCounts ==
    ASSUME WakeTyped, NEW e, Wake!Did(e)
    PROVE  /\ done' \in [Wake!Ids -> Nat]
           /\ \A f \in Wake!Ids : done'[f] = IF f = e THEN done[f] + 1 ELSE done[f]
<1>1. done' = [done EXCEPT ![e] = done[e] + 1] /\ done \in [Wake!Ids -> Nat]
  BY DEF WakeTyped, Wake!Did
<1>2. \A f \in Wake!Ids : done'[f] = IF f = e THEN done[f] + 1 ELSE done[f]
  BY <1>1
<1>3. \A f \in Wake!Ids : done'[f] \in Nat
  BY <1>1, <1>2
<1>4. QED
  BY <1>1, <1>2, <1>3

(* WakeStill: what acts on no event and takes none in hand keeps the order.  *)
LEMMA WakeStill ==
    ASSUME ClaimedFirst, done' = done, marked \subseteq marked', waived \subseteq waived',
           WakeHand' \subseteq WakeHand
    PROVE  ClaimedFirst'
  BY DEF ClaimedFirst

(* WakeTakes: an event taken in hand was not claimed before.                 *)
LEMMA WakeTakes ==
    ASSUME ClaimedFirst, NEW e, done' = done, waived' = waived, e \notin marked,
           marked' = marked \cup {e}, WakeHand' = {e}
    PROVE  ClaimedFirst'
  BY DEF ClaimedFirst

(* WakeTakesUnclaimed: or its claim raised.                                  *)
LEMMA WakeTakesUnclaimed ==
    ASSUME ClaimedFirst, NEW e, done' = done, waived' = waived \cup {<<e, "unclaimed">>},
           marked' = marked, WakeHand' = {e}
    PROVE  ClaimedFirst'
  BY DEF ClaimedFirst

(* WakeActs: the event in hand is acted on.                                  *)
LEMMA WakeActs ==
    ASSUME WakeTyped, ClaimedFirst, NEW e \in WakeHand, Wake!Did(e), marked' = marked,
           waived' = waived, WakeHand' = {}
    PROVE  ClaimedFirst'
<1>1. \A f \in Wake!Ids : done[f] \in Nat
  BY DEF WakeTyped
<1>2. \A f \in Wake!Ids : done'[f] = IF f = e THEN done[f] + 1 ELSE done[f]
  BY WakeCounts
<1>3. SUFFICES ASSUME NEW f \in Wake!Ids \ {Wake!Opened}, <<f, "unclaimed">> \notin waived
               PROVE  done'[f] <= 1 /\ (done'[f] = 0 \/ f \in marked)
  BY DEF ClaimedFirst
<1>4. /\ done[f] <= 1 /\ (done[f] = 0 \/ f \in marked)
      /\ f \in WakeHand => done[f] = 0 /\ f \in marked
  BY <1>3 DEF ClaimedFirst
<1>5. QED
  BY <1>1, <1>2, <1>4

(* WakeStep: no step breaks the order of claims and acts.                    *)
LEMMA WakeStep == WakeInv /\ [Wake!Next]_(Wake!vars) => WakeInv'
<1> SUFFICES ASSUME WakeInv, [Wake!Next]_(Wake!vars) PROVE WakeInv'
  OBVIOUS
<1> USE DEF Wake!hubVars, Wake!jobVars
<1>1. CASE Wake!Push
  <2>1. WakeTyped'
    BY <1>1 DEF Wake!Push, WakeInv, WakeTyped
  <2>2. ClaimedFirst'
    BY <1>1, <2>1, WakeStill DEF Wake!Push, WakeInv, WakeTyped, WakeHand
  <2>3. OpenedFirst'
    BY <1>1, <2>1 DEF Wake!Push, WakeInv, WakeTyped, OpenedFirst
  <2>4. QED
    BY <2>1, <2>2, <2>3 DEF WakeInv
<1>2. CASE Wake!CheckRuns
  <2>1. WakeTyped'
    BY <1>2 DEF Wake!CheckRuns, WakeInv, WakeTyped
  <2>2. ClaimedFirst'
    BY <1>2, <2>1, WakeStill DEF Wake!CheckRuns, WakeInv, WakeTyped, WakeHand
  <2>3. OpenedFirst'
    BY <1>2, <2>1 DEF Wake!CheckRuns, WakeInv, WakeTyped, OpenedFirst
  <2>4. QED
    BY <2>1, <2>2, <2>3 DEF WakeInv
<1>3. CASE Wake!Comment
  <2>1. WakeTyped'
    BY <1>3 DEF Wake!Comment, WakeInv, WakeTyped
  <2>2. ClaimedFirst'
    BY <1>3, <2>1, WakeStill DEF Wake!Comment, WakeInv, WakeTyped, WakeHand
  <2>3. OpenedFirst'
    BY <1>3, <2>1 DEF Wake!Comment, WakeInv, WakeTyped, OpenedFirst
  <2>4. QED
    BY <2>1, <2>2, <2>3 DEF WakeInv
<1>4. CASE Wake!Merge
  <2>1. WakeTyped'
    BY <1>4 DEF Wake!Merge, WakeInv, WakeTyped
  <2>2. ClaimedFirst'
    BY <1>4, <2>1, WakeStill DEF Wake!Merge, WakeInv, WakeTyped, WakeHand
  <2>3. OpenedFirst'
    BY <1>4, <2>1 DEF Wake!Merge, WakeInv, WakeTyped, OpenedFirst
  <2>4. QED
    BY <2>1, <2>2, <2>3 DEF WakeInv
<1>5. CASE Wake!Discover
  <2>1. WakeTyped'
    BY <1>5 DEF Wake!Discover, WakeInv, WakeTyped
  <2>2. ClaimedFirst'
    BY <1>5, <2>1, WakeStill DEF Wake!Discover, WakeInv, WakeTyped, WakeHand
  <2>3. OpenedFirst'
    BY <1>5, <2>1 DEF Wake!Discover, WakeInv, WakeTyped, OpenedFirst
  <2>4. QED
    BY <2>1, <2>2, <2>3 DEF WakeInv
<1>6. CASE Wake!Poll
  <2>1. WakeTyped'
    BY <1>6 DEF Wake!Poll, Wake!Idle, WakeInv, WakeTyped
  <2>2. ClaimedFirst'
    BY <1>6, <2>1, WakeStill DEF Wake!Poll, Wake!Idle, WakeInv, WakeTyped, WakeHand
  <2>3. OpenedFirst'
    BY <1>6, <2>1 DEF Wake!Poll, Wake!Idle, WakeInv, WakeTyped, OpenedFirst
  <2>4. QED
    BY <2>1, <2>2, <2>3 DEF WakeInv
<1>7. CASE Wake!PollFails
  <2>1. WakeTyped'
    BY <1>7 DEF Wake!PollFails, Wake!Idle, WakeInv, WakeTyped
  <2>2. ClaimedFirst'
    BY <1>7, <2>1, WakeStill DEF Wake!PollFails, Wake!Idle, WakeInv, WakeTyped, WakeHand
  <2>3. OpenedFirst'
    BY <1>7, <2>1 DEF Wake!PollFails, Wake!Idle, WakeInv, WakeTyped, OpenedFirst
  <2>4. QED
    BY <2>1, <2>2, <2>3 DEF WakeInv
<1>8. CASE Wake!Claim
  <2>1. WakeTyped'
    BY <1>8 DEF Wake!Claim, Wake!Goto, WakeInv, WakeTyped
  <2>2. ClaimedFirst'
    <3>1. CASE Head(poll.todo) = Wake!Waiting \/ Head(poll.todo) \in marked
      BY <1>8, <3>1, WakeStill DEF Wake!Claim, WakeInv, WakeTyped, WakeHand
    <3>2. CASE Head(poll.todo) # Wake!Waiting /\ Head(poll.todo) \notin marked
      <4>1. WakeHand' = {Head(poll.todo)} /\ marked' = marked \cup {Head(poll.todo)}
        BY <1>8, <3>2 DEF Wake!Claim, Wake!Goto, WakeInv, WakeTyped, WakeHand
      <4>2. QED
        BY <1>8, <3>2, <4>1, WakeTakes DEF Wake!Claim, WakeInv
    <3>3. QED
      BY <3>1, <3>2
  <2>3. OpenedFirst'
    BY <1>8, <2>1 DEF Wake!Claim, Wake!Goto, WakeInv, WakeTyped, OpenedFirst
  <2>4. QED
    BY <2>1, <2>2, <2>3 DEF WakeInv
<1>9. CASE Wake!ClaimRaises
  <2>1. WakeTyped'
    BY <1>9 DEF Wake!ClaimRaises, Wake!Goto, WakeInv, WakeTyped
  <2>2. ClaimedFirst'
    <3>1. WakeHand' = {Head(poll.todo)} /\ waived' = waived \cup {<<Head(poll.todo),
            "unclaimed">>}
      BY <1>9 DEF Wake!ClaimRaises, Wake!Goto, Wake!Lapse, WakeInv, WakeTyped, WakeHand
    <3>2. QED
      BY <1>9, <3>1, WakeTakesUnclaimed DEF Wake!ClaimRaises, WakeInv
  <2>3. OpenedFirst'
    BY <1>9, <2>1 DEF Wake!ClaimRaises, Wake!Goto, Wake!Lapse, WakeInv, WakeTyped, OpenedFirst
  <2>4. QED
    BY <2>1, <2>2, <2>3 DEF WakeInv
<1>10. CASE Wake!Post
  <2>1. WakeTyped'
    <3>1. poll' = [step |-> poll'.step, head |-> poll'.head, todo |-> poll'.todo, then
            |-> poll'.then]
             /\ poll'.then \in {"idle", "rule", "ci"} /\ bound' = bound
      BY <1>10 DEF Wake!Post, WakeInv, WakeTyped
    <3>2. done' \in [Wake!Ids -> Nat]
      BY <1>10, WakeCounts DEF Wake!Post, WakeInv, WakeTyped
    <3>3. QED
      BY <3>1, <3>2 DEF WakeInv, WakeTyped
  <2>2. ClaimedFirst'
    <3>1. CASE Wake!Posts(Head(poll.todo)) /\ place
      <4>1. WakeHand' = {} /\ Head(poll.todo) \in WakeHand
        BY <1>10 DEF Wake!Post, WakeInv, WakeTyped, WakeHand
      <4>2. QED
        BY <1>10, <3>1, <4>1, WakeActs DEF Wake!Post, WakeInv
    <3>2. CASE ~(Wake!Posts(Head(poll.todo)) /\ place)
      BY <1>10, <3>2, WakeStill DEF Wake!Post, WakeInv, WakeTyped, WakeHand
    <3>3. QED
      BY <3>1, <3>2
  <2>3. OpenedFirst'
    <3>1. poll.step = "post" /\ poll'.step = "event" /\ bound' = bound /\ waived' = waived
      BY <1>10 DEF Wake!Post, WakeInv, WakeTyped
    <3>2. done'[Wake!Opened] = done[Wake!Opened]
      <4>1. Wake!Opened \in Wake!Ids /\ ~Wake!Posts(Wake!Opened)
        BY DEF Wake!Ids, Wake!Posts, Wake!Opened, Wake!Red
      <4>2. QED
        BY <1>10, <4>1, WakeCounts DEF Wake!Post, WakeInv
    <3>3. QED
      BY <3>1, <3>2 DEF WakeInv, OpenedFirst
  <2>4. QED
    BY <2>1, <2>2, <2>3 DEF WakeInv
<1>11. CASE Wake!PostFails
  <2>1. WakeTyped'
    BY <1>11 DEF Wake!PostFails, WakeInv, WakeTyped
  <2>2. ClaimedFirst'
    BY <1>11, <2>1, WakeStill DEF Wake!PostFails, Wake!Lapse, WakeInv, WakeTyped, WakeHand
  <2>3. OpenedFirst'
    BY <1>11, <2>1 DEF Wake!PostFails, Wake!Lapse, WakeInv, WakeTyped, OpenedFirst
  <2>4. QED
    BY <2>1, <2>2, <2>3 DEF WakeInv
<1>12. CASE Wake!EventsEnd
  <2>1. WakeTyped'
    BY <1>12 DEF Wake!EventsEnd, Wake!Goto, WakeInv, WakeTyped
  <2>2. ClaimedFirst'
    BY <1>12, <2>1, WakeStill DEF Wake!EventsEnd, Wake!Goto, WakeInv, WakeTyped, WakeHand
  <2>3. OpenedFirst'
    BY <1>12, <2>1 DEF Wake!EventsEnd, Wake!Goto, WakeInv, WakeTyped, OpenedFirst
  <2>4. QED
    BY <2>1, <2>2, <2>3 DEF WakeInv
<1>13. CASE Wake!MatchRule
  <2>1. WakeTyped'
    BY <1>13 DEF Wake!MatchRule, Wake!Goto, WakeInv, WakeTyped
  <2>2. ClaimedFirst'
    <3>1. CASE rule = "single" /\ bound /\ pr.checks = "red" /\ Wake!RuleRed \notin marked
      <4>1. WakeHand' = {Wake!RuleRed} /\ marked' = marked \cup {Wake!RuleRed}
        BY <1>13, <3>1 DEF Wake!MatchRule, Wake!Goto, WakeInv, WakeTyped, WakeHand
      <4>2. QED
        BY <1>13, <3>1, <4>1, WakeTakes DEF Wake!MatchRule, WakeInv
    <3>2. CASE ~(rule = "single" /\ bound /\ pr.checks = "red" /\ Wake!RuleRed \notin marked)
      BY <1>13, <3>2, WakeStill DEF Wake!MatchRule, WakeInv, WakeTyped, WakeHand
    <3>3. QED
      BY <3>1, <3>2
  <2>3. OpenedFirst'
    BY <1>13, <2>1 DEF Wake!MatchRule, Wake!Goto, WakeInv, WakeTyped, OpenedFirst
  <2>4. QED
    BY <2>1, <2>2, <2>3 DEF WakeInv
<1>14. CASE Wake!RuleClaimRaises
  <2>1. WakeTyped'
    BY <1>14 DEF Wake!RuleClaimRaises, Wake!Goto, WakeInv, WakeTyped
  <2>2. ClaimedFirst'
    <3>1. WakeHand' = {Wake!RuleRed} /\ waived' = waived \cup {<<Wake!RuleRed, "unclaimed">>}
      BY <1>14 DEF Wake!RuleClaimRaises, Wake!Goto, Wake!Lapse, WakeInv, WakeTyped, WakeHand
    <3>2. QED
      BY <1>14, <3>1, WakeTakesUnclaimed DEF Wake!RuleClaimRaises, WakeInv
  <2>3. OpenedFirst'
    BY <1>14, <2>1 DEF Wake!RuleClaimRaises, Wake!Goto, Wake!Lapse, WakeInv, WakeTyped,
        OpenedFirst
  <2>4. QED
    BY <2>1, <2>2, <2>3 DEF WakeInv
<1>15. CASE Wake!Answer
  <2>1. WakeTyped'
    <3>1. poll' = [step |-> poll'.step, head |-> poll'.head, todo |-> poll'.todo, then
            |-> poll'.then]
             /\ poll'.then \in {"idle", "rule", "ci"} /\ bound' = bound
      BY <1>15 DEF Wake!Answer, Wake!Goto, WakeInv, WakeTyped
    <3>2. done' \in [Wake!Ids -> Nat]
      BY <1>15, WakeCounts DEF Wake!Answer, WakeInv
    <3>3. QED
      BY <3>1, <3>2 DEF WakeInv, WakeTyped
  <2>2. ClaimedFirst'
    <3>1. WakeHand' = {} /\ Wake!RuleRed \in WakeHand
      BY <1>15 DEF Wake!Answer, Wake!Goto, WakeInv, WakeTyped, WakeHand
    <3>2. QED
      BY <1>15, <3>1, WakeActs DEF Wake!Answer, WakeInv
  <2>3. OpenedFirst'
    BY <1>15, <2>1 DEF Wake!Answer, Wake!Goto, Wake!Did, Wake!Opened, Wake!RuleRed, WakeInv,
        WakeTyped, OpenedFirst
  <2>4. QED
    BY <2>1, <2>2, <2>3 DEF WakeInv
<1>16. CASE Wake!AnswerFails
  <2>1. WakeTyped'
    BY <1>16 DEF Wake!AnswerFails, Wake!Goto, WakeInv, WakeTyped
  <2>2. ClaimedFirst'
    BY <1>16, <2>1, WakeStill DEF Wake!AnswerFails, Wake!Goto, Wake!Lapse, WakeInv, WakeTyped,
        WakeHand
  <2>3. OpenedFirst'
    BY <1>16, <2>1 DEF Wake!AnswerFails, Wake!Goto, Wake!Lapse, WakeInv, WakeTyped, OpenedFirst
  <2>4. QED
    BY <2>1, <2>2, <2>3 DEF WakeInv
<1>17. CASE Wake!Open
  <2>1. WakeTyped'
    <3>1. poll' = [step |-> poll'.step, head |-> poll'.head, todo |-> poll'.todo, then
            |-> poll'.then]
             /\ poll'.then \in {"idle", "rule", "ci"} /\ bound' = bound
      BY <1>17 DEF Wake!Open, Wake!Goto, WakeInv, WakeTyped
    <3>2. done' \in [Wake!Ids -> Nat]
      BY <1>17, WakeCounts DEF Wake!Open, WakeInv
    <3>3. QED
      BY <3>1, <3>2 DEF WakeInv, WakeTyped
  <2>2. ClaimedFirst'
    <3>1. WakeHand' = {} /\ marked' = marked /\ waived' = waived
      BY <1>17 DEF Wake!Open, Wake!Goto, WakeInv, WakeTyped, WakeHand
    <3>2. \A e \in Wake!Ids \ {Wake!Opened} : done'[e] = done[e]
      BY <1>17 DEF Wake!Open, Wake!Did, WakeInv, WakeTyped
    <3>3. QED
      BY <3>1, <3>2 DEF WakeInv, ClaimedFirst
  <2>3. OpenedFirst'
    BY <1>17, <2>1 DEF Wake!Open, Wake!Goto, Wake!Did, WakeInv, WakeTyped, OpenedFirst
  <2>4. QED
    BY <2>1, <2>2, <2>3 DEF WakeInv
<1>18. CASE Wake!OpenFails
  <2>1. WakeTyped'
    BY <1>18 DEF Wake!OpenFails, Wake!Goto, WakeInv, WakeTyped
  <2>2. ClaimedFirst'
    BY <1>18, <2>1, WakeStill DEF Wake!OpenFails, Wake!Goto, WakeInv, WakeTyped, WakeHand
  <2>3. OpenedFirst'
    BY <1>18, <2>1 DEF Wake!OpenFails, Wake!Goto, WakeInv, WakeTyped, OpenedFirst
  <2>4. QED
    BY <2>1, <2>2, <2>3 DEF WakeInv
<1>19. CASE Wake!Adopt
  <2>1. WakeTyped'
    BY <1>19 DEF Wake!Adopt, WakeInv, WakeTyped
  <2>2. ClaimedFirst'
    BY <1>19, <2>1, WakeStill DEF Wake!Adopt, WakeInv, WakeTyped, WakeHand
  <2>3. OpenedFirst'
    BY <1>19, <2>1 DEF Wake!Adopt, WakeInv, WakeTyped, OpenedFirst
  <2>4. QED
    BY <2>1, <2>2, <2>3 DEF WakeInv
<1>20. CASE Wake!AdoptFails
  <2>1. WakeTyped'
    BY <1>20 DEF Wake!AdoptFails, WakeInv, WakeTyped
  <2>2. ClaimedFirst'
    BY <1>20, <2>1, WakeStill DEF Wake!AdoptFails, Wake!Lapse, WakeInv, WakeTyped, WakeHand
  <2>3. OpenedFirst'
    BY <1>20, <2>1 DEF Wake!AdoptFails, Wake!Lapse, WakeInv, WakeTyped, OpenedFirst
  <2>4. QED
    BY <2>1, <2>2, <2>3 DEF WakeInv
<1>21. CASE Wake!ClaimHead
  <2>1. WakeTyped'
    <3>1. /\ poll.step = "ci" /\ UNCHANGED <<bound, done, waived>>
          /\ poll' = [poll EXCEPT !.step = "cipost", !.head = pr.head] \/ poll' = Wake!Idle
      BY <1>21 DEF Wake!ClaimHead
    <3>2. CASE poll' = [poll EXCEPT !.step = "cipost", !.head = pr.head]
      BY <3>1, <3>2 DEF WakeInv, WakeTyped
    <3>3. CASE poll' = Wake!Idle
      BY <3>1, <3>3 DEF Wake!Idle, WakeInv, WakeTyped
    <3>4. QED
      BY <3>1, <3>2, <3>3
  <2>2. ClaimedFirst'
    <3>1. CASE pr.checks = "red" /\ ~pr.merged /\ Wake!CiRed(pr.head) \notin marked
      <4>1. /\ WakeHand' = {Wake!CiRed(pr.head)}
            /\ marked' = marked \cup {Wake!CiRed(pr.head)}
        BY <1>21, <3>1 DEF Wake!ClaimHead, Wake!CiRed, WakeInv, WakeTyped, WakeHand
      <4>2. QED
        BY <1>21, <3>1, <4>1, WakeTakes DEF Wake!ClaimHead, WakeInv
    <3>2. CASE ~(pr.checks = "red" /\ ~pr.merged /\ Wake!CiRed(pr.head) \notin marked)
      BY <1>21, <3>2, WakeStill DEF Wake!ClaimHead, Wake!Idle, WakeInv, WakeTyped, WakeHand
    <3>3. QED
      BY <3>1, <3>2
  <2>3. OpenedFirst'
    <3>1. /\ poll.step = "ci" /\ UNCHANGED <<bound, done, waived>>
          /\ poll' = [poll EXCEPT !.step = "cipost", !.head = pr.head] \/ poll' = Wake!Idle
      BY <1>21 DEF Wake!ClaimHead
    <3>2. poll'.step \in {"cipost", "idle"}
      <4>1. CASE poll' = [poll EXCEPT !.step = "cipost", !.head = pr.head]
        BY <4>1 DEF WakeInv, WakeTyped
      <4>2. CASE poll' = Wake!Idle
        BY <4>2 DEF Wake!Idle
      <4>3. QED
        BY <3>1, <4>1, <4>2
    <3>3. QED
      BY <3>1, <3>2 DEF WakeInv, OpenedFirst
  <2>4. QED
    BY <2>1, <2>2, <2>3 DEF WakeInv
<1>22. CASE Wake!ClaimHeadFails
  <2>1. WakeTyped'
    BY <1>22 DEF Wake!ClaimHeadFails, Wake!Idle, WakeInv, WakeTyped
  <2>2. ClaimedFirst'
    BY <1>22, <2>1, WakeStill DEF Wake!ClaimHeadFails, Wake!Idle, WakeInv, WakeTyped, WakeHand
  <2>3. OpenedFirst'
    BY <1>22, <2>1 DEF Wake!ClaimHeadFails, Wake!Idle, WakeInv, WakeTyped, OpenedFirst
  <2>4. QED
    BY <2>1, <2>2, <2>3 DEF WakeInv
<1>23. CASE Wake!PostHead
  <2>1. WakeTyped'
    <3>1. poll' = [step |-> poll'.step, head |-> poll'.head, todo |-> poll'.todo, then
            |-> poll'.then]
             /\ poll'.then \in {"idle", "rule", "ci"} /\ bound' = bound
      BY <1>23 DEF Wake!PostHead, Wake!Idle, WakeInv, WakeTyped
    <3>2. done' \in [Wake!Ids -> Nat]
      BY <1>23, WakeCounts DEF Wake!PostHead, WakeInv
    <3>3. QED
      BY <3>1, <3>2 DEF WakeInv, WakeTyped
  <2>2. ClaimedFirst'
    <3>1. WakeHand' = {} /\ Wake!CiRed(poll.head) \in WakeHand
      BY <1>23 DEF Wake!PostHead, Wake!Idle, WakeInv, WakeTyped, WakeHand
    <3>2. QED
      BY <1>23, <3>1, WakeActs DEF Wake!PostHead, WakeInv
  <2>3. OpenedFirst'
    BY <1>23, <2>1 DEF Wake!PostHead, Wake!Idle, Wake!Did, Wake!Opened, Wake!CiRed, WakeInv,
        WakeTyped, OpenedFirst
  <2>4. QED
    BY <2>1, <2>2, <2>3 DEF WakeInv
<1>24. CASE Wake!PostHeadFails
  <2>1. WakeTyped'
    BY <1>24 DEF Wake!PostHeadFails, Wake!Idle, WakeInv, WakeTyped
  <2>2. ClaimedFirst'
    BY <1>24, <2>1, WakeStill DEF Wake!PostHeadFails, Wake!Idle, Wake!Lapse, WakeInv,
        WakeTyped, WakeHand
  <2>3. OpenedFirst'
    BY <1>24, <2>1 DEF Wake!PostHeadFails, Wake!Idle, Wake!Lapse, WakeInv, WakeTyped,
        OpenedFirst
  <2>4. QED
    BY <2>1, <2>2, <2>3 DEF WakeInv
<1>25. CASE Wake!HostDies
  <2>1. WakeTyped' /\ poll'.step = "idle"
    BY <1>25 DEF Wake!HostDies, Wake!Idle, WakeInv, WakeTyped
  <2>2. waived \subseteq waived'
    BY <1>25 DEF Wake!HostDies, Wake!Lapse
  <2>3. ClaimedFirst'
    BY <1>25, <2>1, <2>2, WakeStill DEF Wake!HostDies, WakeInv, WakeHand
  <2>4. OpenedFirst'
    <3>1. CASE poll.step = "adopt"
      BY <1>25, <2>1, <3>1 DEF Wake!HostDies, Wake!Lapse, OpenedFirst
    <3>2. CASE poll.step # "adopt"
      BY <1>25, <2>1, <2>2, <3>2 DEF Wake!HostDies, WakeInv, OpenedFirst
    <3>3. QED
      BY <3>1, <3>2
  <2>5. QED
    BY <2>1, <2>3, <2>4 DEF WakeInv
<1>26. CASE UNCHANGED Wake!vars
  BY <1>26 DEF Wake!vars, WakeInv, WakeTyped, ClaimedFirst, OpenedFirst, WakeHand
<1>27. CASE Wake!AttentionFails
  <2>1. WakeTyped'
    BY <1>27 DEF Wake!AttentionFails, Wake!Goto, WakeInv, WakeTyped
  <2>2. ClaimedFirst'
    <3>1. CASE Head(poll.todo) = Wake!Waiting \/ Head(poll.todo) \in marked
      BY <1>27, <3>1, WakeStill DEF Wake!AttentionFails, WakeInv, WakeTyped, WakeHand
    <3>2. CASE Head(poll.todo) # Wake!Waiting /\ Head(poll.todo) \notin marked
      <4>1. WakeHand' = {Head(poll.todo)} /\ marked' = marked \cup {Head(poll.todo)}
        BY <1>27, <3>2 DEF Wake!AttentionFails, Wake!Goto, WakeInv, WakeTyped, WakeHand
      <4>2. QED
        BY <1>27, <3>2, <4>1, WakeTakes DEF Wake!AttentionFails, WakeInv
    <3>3. QED
      BY <3>1, <3>2
  <2>3. OpenedFirst'
    BY <1>27, <2>1 DEF Wake!AttentionFails, Wake!Goto, WakeInv, WakeTyped, OpenedFirst
  <2>4. QED
    BY <2>1, <2>2, <2>3 DEF WakeInv
<1>28. CASE Wake!OwnerFails
  <2>1. WakeTyped'
    BY <1>28 DEF Wake!OwnerFails, Wake!Goto, WakeInv, WakeTyped
  <2>2. waived \subseteq waived' /\ WakeHand' \subseteq WakeHand
    BY <1>28 DEF Wake!OwnerFails, Wake!Goto, Wake!Lapse, WakeInv, WakeTyped, WakeHand
  <2>3. ClaimedFirst'
    BY <1>28, <2>2, WakeStill DEF Wake!OwnerFails, WakeInv
  <2>4. OpenedFirst'
    <3>1. CASE rule = "new" /\ pr.checks = "red"
      BY <1>28, <3>1 DEF Wake!OwnerFails, Wake!Lapse, OpenedFirst
    <3>2. CASE ~(rule = "new" /\ pr.checks = "red")
      BY <1>28, <3>2 DEF Wake!OwnerFails, Wake!Goto, WakeInv, WakeTyped, OpenedFirst
    <3>3. QED
      BY <3>1, <3>2
  <2>5. QED
    BY <2>1, <2>3, <2>4 DEF WakeInv
<1>29. CASE Wake!OpenThreadless
  <2>1. WakeTyped'
    <3>1. poll' = [step |-> poll'.step, head |-> poll'.head, todo |-> poll'.todo, then
            |-> poll'.then]
             /\ poll'.then \in {"idle", "rule", "ci"} /\ bound' = bound
      BY <1>29 DEF Wake!OpenThreadless, Wake!Goto, WakeInv, WakeTyped
    <3>2. done' \in [Wake!Ids -> Nat]
      BY <1>29, WakeCounts DEF Wake!OpenThreadless, WakeInv
    <3>3. QED
      BY <3>1, <3>2 DEF WakeInv, WakeTyped
  <2>2. ClaimedFirst'
    <3>1. WakeHand' = {} /\ marked' = marked /\ waived' = waived
      BY <1>29 DEF Wake!OpenThreadless, Wake!Goto, WakeInv, WakeTyped, WakeHand
    <3>2. \A e \in Wake!Ids \ {Wake!Opened} : done'[e] = done[e]
      BY <1>29 DEF Wake!OpenThreadless, Wake!Did, WakeInv, WakeTyped
    <3>3. QED
      BY <3>1, <3>2 DEF WakeInv, ClaimedFirst
  <2>3. OpenedFirst'
    BY <1>29, <2>1 DEF Wake!OpenThreadless, Wake!Goto, Wake!Did, WakeInv, WakeTyped, OpenedFirst
  <2>4. QED
    BY <2>1, <2>2, <2>3 DEF WakeInv
<1>30. QED
  BY <1>1, <1>2, <1>3, <1>4, <1>5, <1>6, <1>7, <1>8, <1>9, <1>10, <1>11, <1>12, <1>13, <1>14,
         <1>15, <1>16, <1>17, <1>18, <1>19, <1>20, <1>21, <1>22, <1>23, <1>24, <1>25, <1>26,
         <1>27, <1>28, <1>29
         DEF Wake!Next, Wake!HostStep

(* OneWake: over polls, three followers of one pull request and restarts a   *)
(* comment, a failing check and a red head are posted once, and a rule       *)
(* answers once and opens one job, but for a claim that raised, an owner     *)
(* that could not be read and a job that was not bound.                      *)
THEOREM OneWake == Wake!Spec => []Wake!WakesOnce
<1>1. WakeInv => Wake!WakesOnce
  BY DEF WakeInv, ClaimedFirst, OpenedFirst, Wake!WakesOnce
<1>2. QED
  BY <1>1, WakeInit, WakeStep, PTL DEF Wake!Spec

-----------------------------------------------------------------------------
(* The calls to Discord: no chunk of a text is shown twice.                 *)

\* What a call under way or returned has brought to the channel.
CallOK(a, texts, paints) ==
    /\ a.step \in {"idle", "acquire", "bucket", "nap", "woken", "send", "answer", "done"}
    /\ a.step # "done" => a.result = "none"
    /\ a.route = "POST" =>
         /\ a.chunk \in 1..Chunks /\ a.step # "idle"
         /\ a.step \in {"acquire", "bucket", "nap", "woken", "send"} => texts = a.chunk - 1
         /\ a.step = "answer" =>
              CASE a.met \in {"ok", "garbled"}  -> texts = a.chunk
                [] a.met \in {"origin", "lost"} -> texts \in {a.chunk - 1, a.chunk}
                [] OTHER -> texts = a.chunk - 1
         /\ a.step = "done" =>
              CASE a.result = "ok"     -> a.chunk = Chunks /\ texts = Chunks
                [] a.result = "raised" -> texts = a.chunk - 1
                [] OTHER -> texts \in {a.chunk - 1, a.chunk}
    /\ a.route # "POST" /\ (a.result = "ok" \/ (a.step = "answer" /\ a.met = "ok"))
         => paints > 0

IsCall(a) ==
    a = [step |-> a.step, route |-> a.route, chunk |-> a.chunk, rate |-> a.rate,
         transient |-> a.transient, nap |-> a.nap, met |-> a.met, result |-> a.result]

RestTyped ==
    /\ DOMAIN call = Callers /\ call = [t \in Callers |-> call[t]]
    /\ \A t \in Callers : IsCall(call[t])
    /\ shown \in [Callers -> Nat] /\ painted \in [Callers -> Nat]

\* The invariant.
RestInv == RestTyped /\ \A t \in Callers : CallOK(call[t], shown[t], painted[t])

(* RestInit: no call is under way to begin with.                            *)
LEMMA RestInit == Rest!Init => RestInv
<1> SUFFICES ASSUME Rest!Init PROVE RestInv
  OBVIOUS
<1>1. RestTyped
  BY DEF Rest!Init, Rest!Idle, RestTyped, IsCall
<1>2. QED
  BY <1>1 DEF Rest!Init, Rest!Idle, RestInv, CallOK

\* Only the call of t moves, and the channel brings what belongs to it.
OnlyCall(t) ==
    /\ DOMAIN call' = Callers /\ call' = [u \in Callers |-> call'[u]]
    /\ \A u \in Callers \ {t} : call'[u] = call[u] /\ shown'[u] = shown[u]
         /\ painted'[u] = painted[u]
    /\ IsCall(call'[t]) /\ shown' \in [Callers -> Nat] /\ painted' \in [Callers -> Nat]

(* RestMoves: a step of one call is judged by that call.                     *)
LEMMA RestMoves ==
    ASSUME RestInv, NEW t \in Callers, OnlyCall(t), CallOK(call'[t], shown'[t], painted'[t])
    PROVE  RestInv'
<1>1. RestTyped'
  BY DEF RestInv, RestTyped, OnlyCall
<1>2. ASSUME NEW u \in Callers PROVE CallOK(call[u], shown[u], painted[u])'
  <2>1. CASE u = t
    BY <2>1
  <2>2. CASE u # t
    <3>1. call'[u] = call[u] /\ shown'[u] = shown[u] /\ painted'[u] = painted[u]
      BY <2>2 DEF OnlyCall
    <3>2. CallOK(call[u], shown[u], painted[u])
      BY DEF RestInv
    <3>3. QED
      BY <3>1, <3>2
  <2>3. QED
    BY <2>1, <2>2
<1>3. QED
  BY <1>1, <1>2 DEF RestInv

(* RestPasses: the naps of one clock end.                                   *)
LEMMA RestPasses ==
    ASSUME RestInv, NEW what, call' = Rest!Passed(what), UNCHANGED <<shown, painted>>
    PROVE  RestInv'
<1>1. ASSUME NEW t \in Callers
      PROVE  IsCall(call'[t]) /\ CallOK(call[t], shown[t], painted[t])'
  <2>1. IsCall(call[t]) /\ CallOK(call[t], shown[t], painted[t])
    BY DEF RestInv, RestTyped
  <2>2. CASE call[t].step = "nap" /\ call[t].nap = what
    <3>1. call'[t] = [call[t] EXCEPT !.step = "woken"]
      BY <2>2 DEF Rest!Passed
    <3>2. QED
      BY <2>1, <2>2, <3>1 DEF IsCall, CallOK
  <2>3. CASE ~(call[t].step = "nap" /\ call[t].nap = what)
    <3>1. call'[t] = call[t]
      BY <2>3 DEF Rest!Passed
    <3>2. QED
      BY <2>1, <3>1
  <2>4. QED
    BY <2>2, <2>3
<1>2. RestTyped'
  BY <1>1 DEF Rest!Passed, RestInv, RestTyped
<1>3. QED
  BY <1>1, <1>2 DEF RestInv

(* RestStep: no step shows a chunk again.                                    *)
LEMMA RestStep ==
    ASSUME Chunks \in Nat \ {0} PROVE RestInv /\ [Rest!Next]_(Rest!vars) => RestInv'
<1> SUFFICES ASSUME RestInv, [Rest!Next]_(Rest!vars) PROVE RestInv'
  OBVIOUS
<1> USE DEF Rest!limiter, Rest!discord
<1>1. ASSUME NEW t \in Callers, Rest!Begin(t) \/ Rest!ThreadStep(t) \/ Rest!DiscordStep(t)
      PROVE  RestInv'
  <2>1. IsCall(call[t]) /\ CallOK(call[t], shown[t], painted[t])
    BY DEF RestInv, RestTyped
  <2>2. DOMAIN call = Callers /\ call = [u \in Callers |-> call[u]]
          /\ shown \in [Callers -> Nat]
        /\ painted \in [Callers -> Nat]
    BY DEF RestInv, RestTyped
  <2>3. CASE Rest!Begin(t)
    <3>1. PICK r \in Rest!Routes : call' = [call EXCEPT ![t]
            = Rest!Attempt([Rest!Idle EXCEPT !.route = r], 1)]
      BY <2>3 DEF Rest!Begin
    <3>2. /\ call'[t] = Rest!Attempt([Rest!Idle EXCEPT !.route = r], 1) /\ shown'[t] = 0
          /\ painted'[t] = 0
      BY <2>3, <2>2, <3>1 DEF Rest!Begin
    <3>3. IsCall(call'[t]) /\ CallOK(call'[t], shown'[t], painted'[t])
      <4>1. call'[t] = [step |-> "acquire", route |-> r, chunk |-> 1, rate |-> RateRetries,
                      transient |-> Transients, nap |-> "none", met |-> "none",
                      result |-> "none"]
        BY <3>2 DEF Rest!Attempt, Rest!Idle
      <4>2. QED
        BY <3>2, <4>1 DEF CallOK, IsCall
    <3>4. OnlyCall(t)
      BY <2>2, <2>3, <3>1, <3>3 DEF Rest!Begin, OnlyCall
    <3>5. QED
      BY <3>3, <3>4, RestMoves
  <2>4. CASE Rest!Acquire(t)
    <3>1. OnlyCall(t)
      BY <2>1, <2>2, <2>4 DEF Rest!Acquire, Rest!Goto, OnlyCall, IsCall
    <3>2. CallOK(call'[t], shown'[t], painted'[t])
      BY <2>1, <2>2, <2>4 DEF Rest!Acquire, Rest!Goto, CallOK, IsCall
    <3>3. QED
      BY <3>1, <3>2, RestMoves
  <2>5. CASE Rest!Bucket(t)
    <3>1. OnlyCall(t)
      BY <2>1, <2>2, <2>5 DEF Rest!Bucket, Rest!Goto, OnlyCall, IsCall
    <3>2. CallOK(call'[t], shown'[t], painted'[t])
      BY <2>1, <2>2, <2>5 DEF Rest!Bucket, Rest!Goto, CallOK, IsCall
    <3>3. QED
      BY <3>1, <3>2, RestMoves
  <2>6. CASE Rest!Wake(t)
    <3>1. OnlyCall(t)
      BY <2>1, <2>2, <2>6 DEF Rest!Wake, OnlyCall, IsCall
    <3>2. CallOK(call'[t], shown'[t], painted'[t])
      BY <2>1, <2>2, <2>6 DEF Rest!Wake, CallOK, IsCall
    <3>3. QED
      BY <3>1, <3>2, RestMoves
  <2>7. CASE Rest!Answered(t)
    <3>1. OnlyCall(t)
      BY <2>1, <2>2, <2>7 DEF Rest!Answered, Rest!Attempt, Rest!Return, OnlyCall, IsCall
    <3>2. CallOK(call'[t], shown'[t], painted'[t])
      BY <2>1, <2>2, <2>7 DEF Rest!Answered, Rest!Attempt, Rest!Return, CallOK, IsCall
    <3>3. QED
      BY <3>1, <3>2, RestMoves
  <2>8. CASE Rest!RateLimited(t)
    <3>1. CASE call[t].rate = 0 \/ call[t].met = "long"
      <4>1. call' = [call EXCEPT ![t] = [call[t] EXCEPT !.step = "done", !.result = "raised"]]
        BY <2>8, <3>1 DEF Rest!RateLimited, Rest!Return
      <4>2. OnlyCall(t)
        BY <2>1, <2>2, <2>8, <4>1 DEF Rest!RateLimited, OnlyCall, IsCall
      <4>3. CallOK(call'[t], shown'[t], painted'[t])
        BY <2>1, <2>2, <2>8, <4>1 DEF Rest!RateLimited, CallOK, IsCall
      <4>4. QED
        BY <4>2, <4>3, RestMoves
    <3>2. CASE ~(call[t].rate = 0 \/ call[t].met = "long")
      <4>1. /\ call[t].step = "answer" /\ call[t].met \in {"limited", "frozen"}
            /\ UNCHANGED <<shown, painted>>
            /\ call' = [call EXCEPT ![t].step = "nap", ![t].rate = @ - 1, ![t].met = "limited",
                                ![t].nap = IF call[t].met = "frozen" THEN "global"
                                           ELSE call[t].route]
        BY <2>8, <3>2 DEF Rest!RateLimited
      <4>2. OnlyCall(t)
        BY <2>1, <2>2, <4>1 DEF OnlyCall, IsCall
      <4>3. CallOK(call'[t], shown'[t], painted'[t])
        BY <2>1, <2>2, <4>1 DEF CallOK, IsCall
      <4>4. QED
        BY <4>2, <4>3, RestMoves
    <3>3. QED
      BY <3>1, <3>2
  <2>9. CASE Rest!Failed(t)
    <3>1. OnlyCall(t)
      BY <2>1, <2>2, <2>9 DEF Rest!Failed, Rest!Replay, Rest!Idempotent, Rest!NotSent,
          Rest!Return, OnlyCall, IsCall
    <3>2. CallOK(call'[t], shown'[t], painted'[t])
      BY <2>1, <2>2, <2>9 DEF Rest!Failed, Rest!Replay, Rest!Idempotent, Rest!NotSent,
          Rest!Return, CallOK, IsCall
    <3>3. QED
      BY <3>1, <3>2, RestMoves
  <2>10. CASE Rest!Serve(t)
    <3>1. OnlyCall(t)
      BY <2>1, <2>2, <2>10 DEF Rest!Serve, Rest!Apply, Rest!Met, OnlyCall, IsCall
    <3>2. call'[t] = [call[t] EXCEPT !.step = "answer", !.met = "ok"]
      BY <2>2, <2>10 DEF Rest!Serve, Rest!Met
    <3>3. \/ call[t].route = "POST" /\ shown'[t] = shown[t] + 1
          \/ call[t].route # "POST" /\ painted'[t] = painted[t] + 1
      BY <2>2, <2>10 DEF Rest!Serve, Rest!Apply
    <3>4. shown[t] \in Nat /\ painted[t] \in Nat /\ call[t].step = "send"
      BY <2>2, <2>10 DEF Rest!Serve
    <3>5. CallOK(call'[t], shown'[t], painted'[t])
      BY <2>1, <3>2, <3>3, <3>4 DEF CallOK, IsCall
    <3>6. QED
      BY <3>1, <3>5, RestMoves
  <2>11. CASE Rest!Limit(t)
    <3>1. OnlyCall(t)
      BY <2>1, <2>2, <2>11 DEF Rest!Limit, Rest!Met, OnlyCall, IsCall
    <3>2. CallOK(call'[t], shown'[t], painted'[t])
      BY <2>1, <2>2, <2>11 DEF Rest!Limit, Rest!Met, CallOK, IsCall
    <3>3. QED
      BY <3>1, <3>2, RestMoves
  <2>12. CASE Rest!Fail(t)
    <3>1. OnlyCall(t)
      BY <2>1, <2>2, <2>12 DEF Rest!Fail, Rest!Apply, Rest!Met, Rest!Faulty, OnlyCall, IsCall
    <3>2. PICK what \in Rest!Faulty :
             /\ Rest!Met(t, what)
             /\ \/ what \in {"origin", "lost", "garbled"} /\ Rest!Apply(t)
                \/ what # "garbled" /\ UNCHANGED <<shown, painted>>
      BY <2>12 DEF Rest!Fail
    <3>3. call'[t] = [call[t] EXCEPT !.step = "answer", !.met = what] /\ what # "ok"
      BY <2>2, <3>2 DEF Rest!Met, Rest!Faulty
    <3>4. shown[t] \in Nat /\ call[t].step = "send"
      BY <2>2, <2>12 DEF Rest!Fail
    <3>5. call[t].route = "POST" =>
             \/ what \in {"origin", "lost", "garbled"} /\ shown'[t] = shown[t] + 1
             \/ what # "garbled" /\ shown'[t] = shown[t]
      BY <2>2, <3>2 DEF Rest!Apply
    <3>6. CallOK(call'[t], shown'[t], painted'[t])
      BY <2>1, <3>3, <3>4, <3>5 DEF CallOK, IsCall
    <3>7. QED
      BY <3>1, <3>6, RestMoves
  <2>13. QED
    BY <1>1, <2>3, <2>4, <2>5, <2>6, <2>7, <2>8, <2>9, <2>10, <2>11, <2>12
        DEF Rest!ThreadStep, Rest!DiscordStep
<1>2. ASSUME NEW r \in Rest!Routes, Rest!WindowPasses(r) PROVE RestInv'
  BY <1>2, RestPasses DEF Rest!WindowPasses
<1>3. CASE Rest!CooldownPasses
  BY <1>3, RestPasses DEF Rest!CooldownPasses
<1>4. CASE UNCHANGED Rest!vars
  BY <1>4 DEF Rest!vars, RestInv, RestTyped
<1>5. QED
  BY <1>1, <1>2, <1>3, <1>4 DEF Rest!Next

(* NoDoublePost: no retry shows a chunk of a text twice or leaves a gap, a   *)
(* text that raised stands as its first chunks, and a call that returned did *)
(* what it was for.                                                          *)
THEOREM NoDoublePost ==
    ASSUME Chunks \in Nat \ {0} PROVE Rest!Spec => []Rest!OncePerChunk
<1>1. RestInv => Rest!OncePerChunk
  <2> SUFFICES ASSUME RestInv, NEW t \in Callers
               PROVE  LET posted == call[t].chunk - 1
                      IN  /\ call[t].route = "POST" =>
                               CASE call[t].result = "ok"     -> shown[t] = Chunks
                                 [] call[t].result = "raised" -> shown[t] = posted
                                 [] OTHER -> shown[t] \in {posted, posted + 1}
                          /\ call[t].route = "PATCH" /\ call[t].result = "ok" => painted[t] > 0
    BY DEF Rest!OncePerChunk
  <2>1. CallOK(call[t], shown[t], painted[t])
    BY DEF RestInv
  <2>2. shown[t] \in Nat
    BY DEF RestInv, RestTyped
  <2>3. QED
    BY <2>1, <2>2 DEF CallOK
<1>2. QED
  BY <1>1, RestInit, RestStep, PTL DEF Rest!Spec

-----------------------------------------------------------------------------
(* The HOST panel: what stays shut out of it.                               *)

\* A tap in hand is a record of these fields.
IsTap(a) ==
    /\ a = [step |-> a.step, act |-> a.act, user |-> a.user, row |-> a.row,
            listed |-> a.listed, stale |-> a.stale, kept |-> a.kept,
            stranger |-> a.stranger, blind |-> a.blind]
    /\ a.act \in Desk!Acts \cup {"none"}

DeskTyped ==
    /\ press = [t \in Desk!Threads |-> press[t]]
    /\ \A t \in Desk!Threads : IsTap(press[t])

\* Each step has its acts, and an Off still has to clear what it listed, or could not.
OffClears(a) ==
    /\ a.step \in {"seed", "insert", "gate", "roles", "halt"} => a.act # "off"
    /\ a.step = "roles" => a.act # "pair"
    /\ a.act = "off" /\ a.step = "revoke" => a.stale \subseteq a.listed \cup a.kept
    /\ a.act = "off" /\ a.step \in {"paint", "card"} => a.stale \subseteq a.kept

\* A stranger stays one and is not past the check, unless it was blind.
StaysOut(a) ==
    /\ a.step \in {"seed", "insert", "check"} => ~a.blind
    /\ a.stranger =>
         /\ operators # {}
         /\ \/ a.blind /\ ~Require
            \/ /\ ~Desk!IsOperator(a.user)
               /\ \/ a.step \in {"idle", "seed", "check"}
                  \/ a.act = "pair" /\ a.step \in {"paint", "card"}

\* Before the Pair nobody dispatches, nor is about to.
Unpaired ==
    Require /\ operators = {} =>
       /\ asks = 0 /\ cooks = 0
       /\ \A t \in Desk!Threads : press[t].step \notin {"ask", "continue"}

DeskInv ==
    /\ DeskTyped
    /\ \A t \in Desk!Threads : OffClears(press[t]) /\ StaysOut(press[t])
    /\ Unpaired

(* DeskInit: the desk starts with nobody in it.                             *)
LEMMA DeskInit == Desk!Init => DeskInv
<1> SUFFICES ASSUME Desk!Init PROVE DeskInv
  OBVIOUS
<1>1. DeskTyped
  BY DEF Desk!Init, Desk!Idle, DeskTyped, IsTap, Desk!Acts
<1>2. \A t \in Desk!Threads : OffClears(press[t]) /\ StaysOut(press[t])
  BY DEF Desk!Init, Desk!Idle, OffClears, StaysOut
<1>3. Unpaired
  BY DEF Desk!Init, Desk!Idle, Unpaired
<1>4. QED
  BY <1>1, <1>2, <1>3 DEF DeskInv

\* Only the tap of t moves on.
OnlyTap(t) ==
    /\ press' = [u \in Desk!Threads |-> press'[u]]
    /\ \A u \in Desk!Threads \ {t} : press'[u] = press[u]
    /\ IsTap(press'[t])

(* DeskMoves: a step of one tap that leaves the operators alone is judged   *)
(* by that tap.                                                             *)
LEMMA DeskMoves ==
    ASSUME DeskInv, NEW t \in Desk!Threads, OnlyTap(t), OffClears(press'[t]),
        StaysOut(press'[t]),
           UNCHANGED <<operators, roleOn>>, Unpaired'
    PROVE  DeskInv'
<1>1. DeskTyped'
  BY DEF DeskInv, DeskTyped, OnlyTap
<1>2. ASSUME NEW u \in Desk!Threads PROVE OffClears(press'[u]) /\ StaysOut(press'[u])
  <2>1. CASE u = t
    BY <2>1
  <2>2. CASE u # t
    BY <2>2 DEF OnlyTap, DeskInv
  <2>3. QED
    BY <2>1, <2>2
<1>3. ASSUME NEW u \in Desk!Threads PROVE (OffClears(press[u]) /\ StaysOut(press[u]))'
  BY <1>2 DEF StaysOut, OffClears, Desk!IsOperator
<1>4. QED
  BY <1>1, <1>3 DEF DeskInv

(* DeskQuiet: so is one that asks for nothing.                              *)
LEMMA DeskQuiet ==
    ASSUME DeskInv, NEW t \in Desk!Threads, OnlyTap(t), OffClears(press'[t]),
        StaysOut(press'[t]),
           UNCHANGED <<operators, roleOn, asks, cooks>>, press'[t].step \notin {"ask",
               "continue"}
    PROVE  DeskInv'
<1>1. Unpaired'
  BY DEF DeskInv, Unpaired, OnlyTap
<1>2. QED
  BY <1>1, DeskMoves

(* DeskFewer: where taps end or lose a grant they had to clear, and the     *)
(* rest stands still, nothing is let in.                                    *)
LEMMA DeskFewer ==
    ASSUME DeskInv, press' = [u \in Desk!Threads |-> press'[u]], NEW g,
           \A u \in Desk!Threads :
              press'[u] = Desk!Idle \/ press'[u] = [press[u] EXCEPT !.stale = @ \ {g}],
           UNCHANGED <<operators, roleOn, asks, cooks>>
    PROVE  DeskInv'
<1>1. ASSUME NEW u \in Desk!Threads
      PROVE  /\ IsTap(press'[u]) /\ (OffClears(press[u]) /\ StaysOut(press[u]))'
             /\ press'[u].step \in {press[u].step, "idle"}
  <2>1. IsTap(press[u]) /\ OffClears(press[u]) /\ StaysOut(press[u])
    BY DEF DeskInv, DeskTyped
  <2>2. CASE press'[u] = Desk!Idle
    BY <2>2 DEF Desk!Idle, IsTap, OffClears, StaysOut
  <2>3. CASE press'[u] = [press[u] EXCEPT !.stale = @ \ {g}]
    BY <2>1, <2>3 DEF IsTap, OffClears, StaysOut, Desk!IsOperator
  <2>4. QED
    BY <2>2, <2>3
<1>2. DeskTyped'
  BY <1>1 DEF DeskTyped
<1>3. Unpaired'
  BY <1>1 DEF Unpaired, DeskInv
<1>4. QED
  BY <1>1, <1>2, <1>3 DEF DeskInv

(* DeskChecked: a check lets nobody through but an operator, or on a desk   *)
(* that seems open.                                                         *)
LEMMA DeskChecked ==
    ASSUME DeskInv, NEW t \in Desk!Threads, NEW may \in BOOLEAN, NEW blind \in BOOLEAN,
           press[t].step = "check", Desk!Checked(t, may, blind),
           may => ~(Require /\ operators = {}),
           may /\ press[t].stranger => blind /\ ~Require
    PROVE  DeskInv'
<1> USE DEF Desk!acl, Desk!prefs, Desk!queue
<1> DEFINE next == CASE press[t].act \in {"on", "off"} -> "read"
                     [] press[t].act = "paint"         -> "paint"
                     [] OTHER                          -> press[t].act
<1>1. /\ roleOn' = roleOn /\ asks' = asks /\ cooks' = cooks
      /\ press' = [press EXCEPT ![t] = IF ~may THEN Desk!Idle
                                       ELSE [@ EXCEPT !.blind = blind, !.step = next]]
      /\ operators' = IF may /\ press[t].act = "ask" /\ operators = {}
                      THEN {press[t].user} ELSE operators
  BY DEF Desk!Checked
<1>2. /\ IsTap(press[t]) /\ OffClears(press[t]) /\ StaysOut(press[t])
      /\ press = [u \in Desk!Threads |-> press[u]]
  BY DEF DeskInv, DeskTyped
<1>3. CASE ~may
  <2>1. press'[t] = Desk!Idle /\ operators' = operators
    BY <1>1, <1>2, <1>3
  <2>2. OnlyTap(t)
    BY <1>1, <1>2, <2>1 DEF OnlyTap, IsTap, Desk!Idle
  <2>3. OffClears(press'[t]) /\ StaysOut(press'[t]) /\ press'[t].step \notin {"ask", "continue"}
    BY <2>1 DEF OffClears, StaysOut, Desk!Idle
  <2>4. QED
    BY <1>1, <2>1, <2>2, <2>3, DeskQuiet
<1>4. CASE may
  <2> HIDE DEF next
  <2>1. press'[t] = [press[t] EXCEPT !.blind = blind, !.step = next]
    BY <1>1, <1>2, <1>4
  <2>2. /\ press'[t].act = press[t].act /\ press'[t].step = next /\ press'[t].blind = blind
        /\ press'[t].stranger = press[t].stranger /\ IsTap(press'[t])
    BY <1>2, <2>1 DEF IsTap
  <2>3. OnlyTap(t)
    BY <1>1, <1>2, <2>1, <2>2 DEF OnlyTap
  <2>4. /\ next \notin {"seed", "insert", "check", "revoke", "card"}
        /\ next \in {"gate", "roles", "halt", "paint"} => next = press[t].act
    BY <1>2 DEF next, IsTap, Desk!Acts
  <2>5. OffClears(press'[t])
    BY <2>2, <2>4 DEF OffClears
  <2>6. press'[t].stranger => operators # {} /\ press'[t].blind /\ ~Require
    BY <1>2, <1>4, <2>2 DEF StaysOut
  <2>7. ~(Require /\ operators = {})
    BY <1>4
  <2>8. Unpaired'
    BY <1>1, <2>7 DEF Unpaired
  <2>9. CASE operators' = operators
    <3>1. StaysOut(press'[t])
      BY <2>2, <2>4, <2>6 DEF StaysOut
    <3>2. QED
      BY <1>1, <2>3, <2>5, <2>8, <2>9, <3>1, DeskMoves
  <2>10. CASE operators' # operators
    <3>1. operators = {}
      BY <1>1, <2>10
    <3>2. ASSUME NEW u \in Desk!Threads PROVE (OffClears(press[u]) /\ StaysOut(press[u]))'
      <4>1. CASE u = t
        BY <2>2, <2>4, <2>5, <2>6, <3>1, <4>1 DEF StaysOut, OffClears
      <4>2. CASE u # t
        BY <2>3, <3>1, <4>2 DEF OnlyTap, StaysOut, OffClears, DeskInv
      <4>3. QED
        BY <4>1, <4>2
    <3>3. DeskTyped'
      BY <2>3 DEF DeskInv, DeskTyped, OnlyTap
    <3>4. QED
      BY <2>8, <3>2, <3>3 DEF DeskInv
  <2>11. QED
    BY <2>9, <2>10
<1>5. QED
  BY <1>3, <1>4

(* DeskStep: no step lets a stranger in, forgets an Always that stood when  *)
(* an Off began, or dispatches before the Pair.                             *)
LEMMA DeskStep == DeskInv /\ [Desk!Next]_(Desk!vars) => DeskInv'
<1> SUFFICES ASSUME DeskInv, [Desk!Next]_(Desk!vars) PROVE DeskInv'
  OBVIOUS
<1> USE DEF Desk!acl, Desk!prefs, Desk!queue
<1>1. ASSUME NEW t \in Desk!Threads, Desk!Tap(t) \/ Desk!ThreadStep(t) \/ Desk!FaultStep(t)
      PROVE  DeskInv'
  <2>1. /\ IsTap(press[t]) /\ OffClears(press[t]) /\ StaysOut(press[t])
        /\ press = [u \in Desk!Threads |-> press[u]]
    BY DEF DeskInv, DeskTyped
  <2>2. CASE Desk!Tap(t)
    <3>1. PICK u \in Users, a \in IF t = "loop" THEN Desk!LoopActs ELSE Desk!Acts :
             press' = [press EXCEPT ![t] =
                      [Desk!Idle EXCEPT !.act = a, !.user = u,
                            !.stranger = operators # {} /\ ~Desk!IsOperator(u),
                            !.step = IF a \in {"on", "pair"} THEN "seed" ELSE "check"]]
      BY <2>2 DEF Desk!Tap
    <3>0. a \in Desk!Acts
      BY DEF Desk!LoopActs, Desk!Acts
    <3>2. press'[t] = [step |-> IF a \in {"on", "pair"} THEN "seed" ELSE "check", act |-> a,
                    user |-> u, row |-> FALSE, listed |-> {}, stale |-> {}, kept |-> {},
                    stranger |-> operators # {} /\ ~Desk!IsOperator(u), blind |-> FALSE]
      BY <2>1, <3>1 DEF Desk!Idle
    <3>3. OnlyTap(t)
      <4>1. IsTap(press'[t])
        BY <3>0, <3>2 DEF IsTap
      <4>2. QED
        BY <2>1, <3>1, <4>1 DEF OnlyTap
    <3>4. OffClears(press'[t]) /\ StaysOut(press'[t]) /\ press'[t].step \notin {"ask",
            "continue"}
      <4>1. press'[t].act = a /\ press'[t].user = u /\ press'[t].step \in {"seed", "check"}
            /\ (press'[t].step = "seed" => a \in {"on", "pair"})
            /\ ~press'[t].blind
        BY <3>2
      <4>2. press'[t].stranger = (operators # {} /\ ~Desk!IsOperator(u))
        BY <3>2
      <4>3. press'[t].stranger => operators # {} /\ ~Desk!IsOperator(u)
        BY <4>2
      <4>4. QED
        BY <4>1, <4>3 DEF OffClears, StaysOut
    <3>5. QED
      BY <3>3, <3>4, <2>2, DeskQuiet DEF Desk!Tap
  <2>3. CASE Desk!SeedReads(t)
    <3>1. press' = [press EXCEPT ![t] = press'[t]] /\ press'[t] = [press[t] EXCEPT !.step =
                 IF (Require /\ press[t].act # "pair") \/ operators # {}
                 THEN IF press[t].act = "pair" THEN "paint" ELSE "check" ELSE "insert"]
      BY <2>3, <2>1 DEF Desk!SeedReads, Desk!Goto, IsTap
    <3>2. OnlyTap(t)
      BY <2>1, <3>1 DEF OnlyTap, IsTap, Desk!Idle
    <3>3. OffClears(press'[t]) /\ StaysOut(press'[t]) /\ press'[t].step \notin {"ask",
            "continue"}
      BY <2>3, <2>1, <3>1 DEF OffClears, StaysOut, IsTap, Desk!SeedReads, Desk!Idle
    <3>4. QED
      BY <3>2, <3>3, <2>3, DeskQuiet DEF Desk!SeedReads
  <2>4. CASE Desk!SeedInserts(t)
    <3>1. ASSUME NEW u \in Desk!Threads PROVE IsTap(press'[u]) /\ (OffClears(press[u])
            /\ StaysOut(press[u]))'
      <4>1. IsTap(press[u]) /\ OffClears(press[u]) /\ StaysOut(press[u])
        BY DEF DeskInv, DeskTyped
      <4>2. CASE u = t
        <5>1. press'[u] = [press[t] EXCEPT !.step = IF press[t].act = "pair" THEN "paint"
                ELSE "check"]
          BY <2>4, <4>2 DEF Desk!SeedInserts
        <5>2. ~press[t].stranger
          BY <2>4, <2>1 DEF StaysOut, Desk!SeedInserts
        <5>3. QED
          BY <2>4, <2>1, <4>2, <5>1, <5>2 DEF Desk!SeedInserts, OffClears, StaysOut, IsTap
      <4>3. CASE u # t /\ press[u].user = press[t].user
        <5>1. press'[u] = [press[u] EXCEPT !.stranger = FALSE]
          BY <2>4, <4>3 DEF Desk!SeedInserts
        <5>2. QED
          BY <4>1, <5>1 DEF OffClears, StaysOut, IsTap
      <4>4. CASE u # t /\ press[u].user # press[t].user
        <5>1. press'[u] = press[u]
          BY <2>4, <4>4 DEF Desk!SeedInserts
        <5>2. QED
          BY <2>4, <4>1, <4>4, <5>1
             DEF OffClears, StaysOut, IsTap, Desk!SeedInserts, Desk!IsOperator
      <4>5. QED
        BY <4>2, <4>3, <4>4
    <3>2. DeskTyped'
      BY <2>4, <3>1 DEF Desk!SeedInserts, DeskTyped
    <3>3. Unpaired'
      BY <2>4 DEF Desk!SeedInserts, Unpaired
    <3>4. QED
      BY <3>1, <3>2, <3>3 DEF DeskInv
  <2>5. CASE Desk!Check(t)
    <3> DEFINE may == IF press[t].act = "ask" THEN Desk!MayDispatch(press[t].user, operators # {})
                      ELSE Desk!MayOperate(press[t].user, operators # {})
    <3>1. press[t].step = "check" /\ Desk!Checked(t, may, FALSE)
      BY <2>5 DEF Desk!Check
    <3>2. may \in BOOLEAN
      <4>1. Desk!IsOperator(press[t].user) \in BOOLEAN
        BY DEF Desk!IsOperator
      <4>2. CASE operators # {}
        BY <4>1, <4>2 DEF Desk!MayDispatch, Desk!MayOperate
      <4>3. CASE operators = {}
        BY <4>3 DEF Desk!MayDispatch, Desk!MayOperate
      <4>4. QED
        BY <4>2, <4>3
    <3>3. may => ~(Require /\ operators = {})
      BY DEF Desk!MayDispatch, Desk!MayOperate
    <3>4. may => ~press[t].stranger
      BY <2>1, <3>1 DEF StaysOut, Desk!MayDispatch, Desk!MayOperate
    <3> HIDE DEF may
    <3>5. QED
      BY <3>1, <3>2, <3>3, <3>4, DeskChecked
  <2>6. CASE Desk!ReadRow(t)
    <3>1. press' = [press EXCEPT ![t] = press'[t]] /\ press'[t] = [press[t] EXCEPT !.row
            = armed, !.step = IF @ = "read" THEN "write" ELSE "card"]
      BY <2>6, <2>1 DEF Desk!ReadRow, Desk!Goto, IsTap
    <3>2. OnlyTap(t)
      BY <2>1, <3>1 DEF OnlyTap, IsTap, Desk!Idle
    <3>3. OffClears(press'[t]) /\ StaysOut(press'[t]) /\ press'[t].step \notin {"ask",
            "continue"}
      BY <2>6, <2>1, <3>1 DEF OffClears, StaysOut, IsTap, Desk!ReadRow, Desk!Idle
    <3>4. QED
      BY <3>2, <3>3, <2>6, DeskQuiet DEF Desk!ReadRow
  <2>7. CASE Desk!WritePower(t)
    <3>1. press' = [press EXCEPT ![t] = press'[t]] /\ press'[t] = [press[t] EXCEPT !.step
            = IF press[t].act = "on" THEN "paint" ELSE "list"]
      BY <2>7, <2>1 DEF Desk!WritePower, Desk!Goto, IsTap
    <3>2. OnlyTap(t)
      BY <2>1, <3>1 DEF OnlyTap, IsTap, Desk!Idle
    <3>3. OffClears(press'[t]) /\ StaysOut(press'[t]) /\ press'[t].step \notin {"ask",
            "continue"}
      BY <2>7, <2>1, <3>1 DEF OffClears, StaysOut, IsTap, Desk!WritePower, Desk!Idle
    <3>4. QED
      BY <3>2, <3>3, <2>7, DeskQuiet DEF Desk!WritePower
  <2>8. CASE Desk!WriteCard(t)
    <3>1. press' = [press EXCEPT ![t] = press'[t]] /\ press'[t] = Desk!Idle
      BY <2>8, <2>1 DEF Desk!WriteCard, Desk!Goto, IsTap
    <3>2. OnlyTap(t)
      BY <2>1, <3>1 DEF OnlyTap, IsTap, Desk!Idle
    <3>3. OffClears(press'[t]) /\ StaysOut(press'[t]) /\ press'[t].step \notin {"ask",
            "continue"}
      BY <2>8, <2>1, <3>1 DEF OffClears, StaysOut, IsTap, Desk!WriteCard, Desk!Idle
    <3>4. QED
      BY <3>2, <3>3, <2>8, DeskQuiet DEF Desk!WriteCard
  <2>9. CASE Desk!PaintOnly(t)
    <3>1. press' = [press EXCEPT ![t] = press'[t]] /\ press'[t] = Desk!Idle
      BY <2>9, <2>1 DEF Desk!PaintOnly, Desk!Goto, IsTap
    <3>2. OnlyTap(t)
      BY <2>1, <3>1 DEF OnlyTap, IsTap, Desk!Idle
    <3>3. OffClears(press'[t]) /\ StaysOut(press'[t]) /\ press'[t].step \notin {"ask",
            "continue"}
      BY <2>9, <2>1, <3>1 DEF OffClears, StaysOut, IsTap, Desk!PaintOnly, Desk!Idle
    <3>4. QED
      BY <3>2, <3>3, <2>9, DeskQuiet DEF Desk!PaintOnly
  <2>10. CASE Desk!ListGrants(t)
    <3>1. press' = [press EXCEPT ![t] = press'[t]] /\ press'[t] = [press[t] EXCEPT !.listed
            = grants, !.stale = grants, !.step = "revoke"]
      BY <2>10, <2>1 DEF Desk!ListGrants, Desk!Goto, IsTap
    <3>2. OnlyTap(t)
      BY <2>1, <3>1 DEF OnlyTap, IsTap, Desk!Idle
    <3>3. OffClears(press'[t]) /\ StaysOut(press'[t]) /\ press'[t].step \notin {"ask",
            "continue"}
      BY <2>10, <2>1, <3>1 DEF OffClears, StaysOut, IsTap, Desk!ListGrants, Desk!Idle
    <3>4. QED
      BY <3>2, <3>3, <2>10, DeskQuiet DEF Desk!ListGrants
  <2>11. CASE Desk!Revoke(t)
    <3>1. CASE press[t].listed = {} /\ Desk!Goto(t, "paint")
      <4>1. press' = [press EXCEPT ![t] = press'[t]] /\ press'[t] = [press[t] EXCEPT !.step
              = "paint"]
        BY <3>1, <2>1 DEF Desk!Goto, IsTap
      <4>2. OnlyTap(t)
        BY <2>1, <4>1 DEF OnlyTap, IsTap
      <4>3. OffClears(press'[t]) /\ StaysOut(press'[t]) /\ press'[t].step \notin {"ask",
              "continue"}
        BY <2>11, <2>1, <3>1, <4>1 DEF OffClears, StaysOut, IsTap, Desk!Revoke
      <4>4. QED
        BY <4>2, <4>3, <2>11, DeskQuiet DEF Desk!Revoke
    <3>2. ASSUME NEW g, press' = [press EXCEPT ![t].listed = @ \ {g}, ![t].stale = @ \ {g}]
          PROVE  DeskInv'
      <4>1. /\ press' = [press EXCEPT ![t] = press'[t]]
            /\ press'[t] = [press[t] EXCEPT !.listed = @ \ {g}, !.stale = @ \ {g}]
        BY <3>2, <2>1 DEF IsTap
      <4>2. OnlyTap(t)
        BY <2>1, <4>1 DEF OnlyTap, IsTap
      <4>3. OffClears(press'[t]) /\ StaysOut(press'[t]) /\ press'[t].step \notin {"ask",
              "continue"}
        BY <2>11, <2>1, <3>2, <4>1 DEF OffClears, StaysOut, IsTap, Desk!Revoke
      <4>4. QED
        BY <4>2, <4>3, <2>11, DeskQuiet DEF Desk!Revoke
    <3>3. QED
      BY <3>1, <3>2, <2>11 DEF Desk!Revoke
  <2>12. CASE Desk!Always(t)
    <3>1. PICK g \in Grants :
             press' = [u \in Desk!Threads |-> IF u = t THEN Desk!Idle
                                          ELSE [press[u] EXCEPT !.stale = @ \ {g}]]
      BY <2>12 DEF Desk!Always
    <3>2. ASSUME NEW u \in Desk!Threads PROVE press'[u] = Desk!Idle
            \/ press'[u] = [press[u] EXCEPT !.stale = @ \ {g}]
      BY <3>1
    <3>3. press' = [u \in Desk!Threads |-> press'[u]]
      BY <3>1
    <3>4. QED
      BY <2>12, <3>2, <3>3, DeskFewer DEF Desk!Always
  <2>13. CASE Desk!Gate(t)
    <3>1. press' = [press EXCEPT ![t] = press'[t]] /\ press'[t] = [press[t] EXCEPT !.step
            = "paint"]
      BY <2>13, <2>1 DEF Desk!Gate, Desk!Goto, IsTap
    <3>2. OnlyTap(t)
      BY <2>1, <3>1 DEF OnlyTap, IsTap, Desk!Idle
    <3>3. OffClears(press'[t]) /\ StaysOut(press'[t]) /\ press'[t].step \notin {"ask",
            "continue"}
      BY <2>13, <2>1, <3>1 DEF OffClears, StaysOut, IsTap, Desk!Gate, Desk!Idle
    <3>4. QED
      BY <3>2, <3>3, <2>13, DeskQuiet DEF Desk!Gate
  <2>14. CASE Desk!Roles(t)
    <3>1. PICK on \in BOOLEAN :
             /\ roleOn' = on
             /\ press' = [u \in Desk!Threads |->
                         IF u = t THEN [press[t] EXCEPT !.step = "paint"]
                         ELSE IF on /\ press[u].user \in Holders
                         THEN [press[u] EXCEPT !.stranger = FALSE] ELSE press[u]]
      BY <2>14 DEF Desk!Roles
    <3>2. ASSUME NEW u \in Desk!Threads PROVE IsTap(press'[u]) /\ (OffClears(press[u])
            /\ StaysOut(press[u]))'
      <4>1. IsTap(press[u]) /\ OffClears(press[u]) /\ StaysOut(press[u])
        BY DEF DeskInv, DeskTyped
      <4>2. CASE u = t
        <5>1. press'[u] = [press[t] EXCEPT !.step = "paint"]
          BY <3>1, <4>2
        <5>2. press[t].stranger => operators # {} /\ press[t].blind /\ ~Require
          BY <2>14, <2>1 DEF StaysOut, Desk!Roles, OffClears
        <5>3. QED
          BY <2>14, <2>1, <4>2, <5>1, <5>2 DEF Desk!Roles, OffClears, StaysOut, IsTap
      <4>3. CASE u # t /\ on /\ press[u].user \in Holders
        <5>1. press'[u] = [press[u] EXCEPT !.stranger = FALSE]
          BY <3>1, <4>3
        <5>2. QED
          BY <4>1, <5>1 DEF OffClears, StaysOut, IsTap
      <4>4. CASE u # t /\ ~(on /\ press[u].user \in Holders)
        <5>1. press'[u] = press[u]
          BY <3>1, <4>4
        <5>2. QED
          BY <2>14, <3>1, <4>1, <4>4, <5>1
             DEF OffClears, StaysOut, IsTap, Desk!Roles, Desk!IsOperator
      <4>5. QED
        BY <4>2, <4>3, <4>4
    <3>3. DeskTyped'
      BY <3>1, <3>2 DEF DeskTyped
    <3>4. Unpaired'
      <4>1. ASSUME NEW u \in Desk!Threads PROVE press'[u].step \in {press[u].step, "paint"}
        <5>1. IsTap(press[u])
          BY DEF DeskInv, DeskTyped
        <5>2. QED
          BY <2>1, <3>1, <5>1 DEF IsTap
      <4>2. QED
        BY <2>14, <4>1 DEF Desk!Roles, Unpaired, DeskInv
    <3>5. QED
      BY <3>2, <3>3, <3>4 DEF DeskInv
  <2>15. CASE Desk!HaltOrResume(t)
    <3>1. press' = [press EXCEPT ![t] = press'[t]] /\ press'[t] = [press[t] EXCEPT !.step
            = "paint"]
      BY <2>15, <2>1 DEF Desk!HaltOrResume, Desk!Goto, IsTap
    <3>2. OnlyTap(t)
      BY <2>1, <3>1 DEF OnlyTap, IsTap, Desk!Idle
    <3>3. OffClears(press'[t]) /\ StaysOut(press'[t]) /\ press'[t].step \notin {"ask",
            "continue"}
      BY <2>15, <2>1, <3>1 DEF OffClears, StaysOut, IsTap, Desk!HaltOrResume, Desk!Idle
    <3>4. QED
      BY <3>2, <3>3, <2>15, DeskQuiet DEF Desk!HaltOrResume
  <2>16. CASE Desk!Continue(t)
    <3>1. press' = [press EXCEPT ![t] = Desk!Idle] /\ press'[t] = Desk!Idle
      BY <2>16, <2>1 DEF Desk!Continue
    <3>2. OnlyTap(t)
      BY <2>1, <3>1 DEF OnlyTap, IsTap, Desk!Idle
    <3>3. OffClears(press'[t]) /\ StaysOut(press'[t])
      BY <3>1 DEF OffClears, StaysOut, Desk!Idle
    <3>4. press[t].step = "continue" /\ UNCHANGED <<operators, roleOn>>
      BY <2>16 DEF Desk!Continue
    <3>5. ~(Require /\ operators = {})
      BY <3>4 DEF Unpaired, DeskInv
    <3>6. Unpaired'
      BY <3>4, <3>5 DEF Unpaired
    <3>7. QED
      BY <3>2, <3>3, <3>4, <3>6, DeskMoves
  <2>17. CASE Desk!Ask(t)
    <3>1. press' = [press EXCEPT ![t] = Desk!Idle] /\ press'[t] = Desk!Idle
      BY <2>17, <2>1 DEF Desk!Ask, Desk!Asked
    <3>2. OnlyTap(t)
      BY <2>1, <3>1 DEF OnlyTap, IsTap, Desk!Idle
    <3>3. OffClears(press'[t]) /\ StaysOut(press'[t])
      BY <3>1 DEF OffClears, StaysOut, Desk!Idle
    <3>4. press[t].step = "ask" /\ UNCHANGED <<operators, roleOn>>
      BY <2>17 DEF Desk!Ask, Desk!Asked
    <3>5. ~(Require /\ operators = {})
      BY <3>4 DEF Unpaired, DeskInv
    <3>6. Unpaired'
      BY <3>4, <3>5 DEF Unpaired
    <3>7. QED
      BY <3>2, <3>3, <3>4, <3>6, DeskMoves
  <2>18. CASE Desk!SeedFails(t)
    <3>1. press' = [press EXCEPT ![t] = press'[t]] /\ press'[t] = [press[t] EXCEPT !.step =
                 IF press[t].act = "pair" THEN "paint" ELSE "check"]
      BY <2>18, <2>1 DEF Desk!SeedFails, Desk!Goto, IsTap
    <3>2. OnlyTap(t)
      BY <2>1, <3>1 DEF OnlyTap, IsTap, Desk!Idle
    <3>3. OffClears(press'[t]) /\ StaysOut(press'[t]) /\ press'[t].step \notin {"ask",
            "continue"}
      BY <2>18, <2>1, <3>1 DEF OffClears, StaysOut, IsTap, Desk!SeedFails, Desk!Idle
    <3>4. QED
      BY <3>2, <3>3, <2>18, DeskQuiet DEF Desk!SeedFails
  <2>19. CASE Desk!CheckBlind(t)
    <3> DEFINE may == IF press[t].act = "ask" THEN Desk!MayDispatch(press[t].user, FALSE)
                      ELSE Desk!MayOperate(press[t].user, FALSE)
    <3>1. press[t].step = "check" /\ Desk!Checked(t, may, TRUE)
      BY <2>19 DEF Desk!CheckBlind
    <3>2. may \in BOOLEAN /\ (may => ~Require)
      BY DEF Desk!MayDispatch, Desk!MayOperate, Desk!IsOperator
    <3> HIDE DEF may
    <3>3. QED
      BY <3>1, <3>2, DeskChecked
  <2>20. CASE Desk!CheckFails(t)
    <3>1. press[t].step = "check" /\ Desk!Checked(t, FALSE, FALSE)
      BY <2>20 DEF Desk!CheckFails
    <3>2. QED
      BY <3>1, DeskChecked
  <2>21. CASE Desk!ListFails(t)
    <3>1. press' = [press EXCEPT ![t] = press'[t]] /\ press'[t] = [press[t] EXCEPT !.stale = grants,
                 !.kept = grants, !.step = "revoke"]
      BY <2>21, <2>1 DEF Desk!ListFails, Desk!Goto, IsTap
    <3>2. OnlyTap(t)
      BY <2>1, <3>1 DEF OnlyTap, IsTap, Desk!Idle
    <3>3. OffClears(press'[t]) /\ StaysOut(press'[t]) /\ press'[t].step \notin {"ask",
            "continue"}
      BY <2>21, <2>1, <3>1 DEF OffClears, StaysOut, IsTap, Desk!ListFails, Desk!Idle
    <3>4. QED
      BY <3>2, <3>3, <2>21, DeskQuiet DEF Desk!ListFails
  <2>22. CASE Desk!RevokeFails(t)
    <3>1. PICK g \in press[t].listed :
             press' = [press EXCEPT ![t].listed = @ \ {g}, ![t].kept = @ \cup {g}]
      BY <2>22 DEF Desk!RevokeFails
    <3>2. /\ press' = [press EXCEPT ![t] = press'[t]]
          /\ press'[t] = [press[t] EXCEPT !.listed = @ \ {g}, !.kept = @ \cup {g}]
      BY <3>1, <2>1 DEF IsTap
    <3>3. OnlyTap(t)
      BY <2>1, <3>2 DEF OnlyTap, IsTap
    <3>4. OffClears(press'[t]) /\ StaysOut(press'[t]) /\ press'[t].step \notin {"ask",
            "continue"}
      <4>1. press[t].step = "revoke" /\ operators' = operators /\ roleOn' = roleOn
        BY <2>22 DEF Desk!RevokeFails, Desk!acl
      <4>2. /\ press'[t].step = "revoke" /\ press'[t].act = press[t].act
            /\ press'[t].stale = press[t].stale
            /\ press'[t].listed = press[t].listed \ {g}
            /\ press'[t].kept = press[t].kept \cup {g}
            /\ press'[t].stranger = press[t].stranger
            /\ press'[t].blind = press[t].blind /\ press'[t].user = press[t].user
        BY <3>2, <2>1, <4>1 DEF IsTap
      <4>3. OffClears(press'[t])
        BY <4>1, <4>2, <2>1 DEF OffClears
      <4>4. StaysOut(press'[t])
        BY <4>1, <4>2, <2>1 DEF StaysOut
      <4>5. QED
        BY <4>2, <4>3, <4>4
    <3>5. QED
      BY <3>3, <3>4, <2>22, DeskQuiet DEF Desk!RevokeFails
  <2>23. CASE Desk!AskStaysAimed(t)
    <3>1. press' = [press EXCEPT ![t] = Desk!Idle] /\ press'[t] = Desk!Idle
      BY <2>23, <2>1 DEF Desk!AskStaysAimed, Desk!Asked
    <3>2. OnlyTap(t)
      BY <2>1, <3>1 DEF OnlyTap, IsTap, Desk!Idle
    <3>3. OffClears(press'[t]) /\ StaysOut(press'[t])
      BY <3>1 DEF OffClears, StaysOut, Desk!Idle
    <3>4. press[t].step = "ask" /\ UNCHANGED <<operators, roleOn>>
      BY <2>23 DEF Desk!AskStaysAimed, Desk!Asked
    <3>5. ~(Require /\ operators = {})
      BY <3>4 DEF Unpaired, DeskInv
    <3>6. Unpaired'
      BY <3>4, <3>5 DEF Unpaired
    <3>7. QED
      BY <3>2, <3>3, <3>4, <3>6, DeskMoves
  <2>24. QED
    BY <1>1, <2>2, <2>3, <2>4, <2>5, <2>6, <2>7, <2>8, <2>9, <2>10, <2>11, <2>12, <2>13,
        <2>14, <2>15, <2>16, <2>17, <2>18, <2>19, <2>20, <2>21, <2>22, <2>23
       DEF Desk!ThreadStep, Desk!FaultStep
<1>2. CASE Desk!GrantEnds
  <2>1. PICK g \in grants : press' = [t \in Desk!Threads |-> [press[t] EXCEPT !.stale
          = @ \ {g}]]
    BY <1>2 DEF Desk!GrantEnds
  <2>2. /\ press' = [u \in Desk!Threads |-> press'[u]]
        /\ \A u \in Desk!Threads : press'[u] = [press[u] EXCEPT !.stale = @ \ {g}]
    BY <2>1
  <2>3. QED
    BY <1>2, <2>2, DeskFewer DEF Desk!GrantEnds
<1>3. CASE Desk!Drain
  <2>1. asks > 0 /\ UNCHANGED <<operators, roleOn, press>>
    BY <1>3 DEF Desk!Drain
  <2>2. ~(Require /\ operators = {})
    BY <2>1 DEF DeskInv, Unpaired
  <2>3. DeskTyped' /\ Unpaired'
    BY <2>1, <2>2 DEF DeskInv, DeskTyped, Unpaired
  <2>4. ASSUME NEW t \in Desk!Threads PROVE (OffClears(press[t]) /\ StaysOut(press[t]))'
    BY <2>1 DEF DeskInv, OffClears, StaysOut, Desk!IsOperator
  <2>5. QED
    BY <2>3, <2>4 DEF DeskInv
<1>4. CASE Desk!HostDies
  <2>1. /\ press' = [t \in Desk!Threads |-> Desk!Idle] /\ asks' = 0 /\ cooks' = cooks
        /\ operators' = operators
    BY <1>4 DEF Desk!HostDies
  <2>2. DeskTyped'
    BY <2>1 DEF Desk!Idle, DeskTyped, IsTap
  <2>3. \A t \in Desk!Threads : (OffClears(press[t]) /\ StaysOut(press[t]))'
    BY <2>1 DEF Desk!Idle, OffClears, StaysOut
  <2>4. Unpaired'
    BY <2>1 DEF Desk!Idle, Unpaired, DeskInv
  <2>5. QED
    BY <2>2, <2>3, <2>4 DEF DeskInv
<1>5. CASE UNCHANGED Desk!vars
  <2>1. UNCHANGED <<operators, roleOn, press, asks, cooks>>
    BY <1>5 DEF Desk!vars
  <2>2. DeskTyped' /\ Unpaired'
    BY <2>1 DEF DeskInv, DeskTyped, Unpaired
  <2>3. ASSUME NEW t \in Desk!Threads PROVE (OffClears(press[t]) /\ StaysOut(press[t]))'
    BY <2>1 DEF DeskInv, OffClears, StaysOut, Desk!IsOperator
  <2>4. QED
    BY <2>2, <2>3 DEF DeskInv
<1>6. QED
  BY <1>1, <1>2, <1>3, <1>4, <1>5 DEF Desk!Next

(* DeskShut: on every host Desk!DeskHolds holds: whoever is no operator     *)
(* when he taps a desk that has one does not get past the check, unless he  *)
(* was made one meanwhile or the operators could not be listed and are not  *)
(* required; with operators required nobody dispatches before the Pair;     *)
(* and of the Always that stood when an Off began it leaves only those      *)
(* whose listing or clearing raised.                                        *)
THEOREM DeskShut == Desk!Spec => []Desk!DeskHolds
<1>1. DeskInv => Desk!DeskHolds
  BY DEF DeskInv, OffClears, StaysOut, Unpaired, Desk!DeskHolds
<1>2. QED
  BY DeskInit, DeskStep, <1>1, PTL DEF Desk!Spec

-----------------------------------------------------------------------------
(* The schedules: no storm of jobs, one card a day, no slot untold.         *)

(* DivMono: a later time is in no earlier period.                           *)
LEMMA DivMono ==
    ASSUME NEW d \in Nat \ {0}, NEW x \in Nat, NEW y \in Nat, x <= y
    PROVE  x \div d \in Nat /\ x \div d <= y \div d
<1> DEFINE p == x \div d
           q == y \div d
<1>1. p \in Int /\ q \in Int /\ d * p <= x /\ y < d * (q + 1) /\ p >= 0
  OBVIOUS
<1>2. ASSUME q + 1 <= p PROVE FALSE
  <2> HIDE DEF p, q
  <2>1. d * (q + 1) <= d * p
    BY <1>1, <1>2
  <2>2. QED
    BY <1>1, <2>1
<1>3. QED
  BY <1>1, <1>2

\* The clock, the row and the poll are of their kinds.
SchedTyped ==
    /\ now \in Nat /\ nextMs \in Nat /\ sweep.now \in Nat /\ sweep.now <= now
    /\ sweep = [step |-> sweep.step, now |-> sweep.now, todo |-> sweep.todo, kind
         |-> sweep.kind]
    /\ sweep.step \in {"idle", "fire", "bump", "skip", "brief", "report", "mark", "post"}
    /\ sweep.todo \subseteq Schedules!Kinds
    /\ sweep.step \in {"mark", "post"} => sweep.kind \in Schedules!Kinds
    /\ mark \in [Schedules!Kinds -> Nat]
    /\ briefs = [k \in Schedules!Kinds |-> briefs[k]]
    /\ \A k \in Schedules!Kinds : briefs[k] = [period |-> briefs[k].period, count
         |-> briefs[k].count]

\* The row is an interval past the last job, but for the poll that made it.
Spaced ==
    /\ sweep.step \in {"fire", "skip"} => nextMs <= sweep.now
    /\ \/ "bump" \in excused
       \/ /\ fired.gap \in Nat /\ fired.gap >= Every
          /\ fired.last # None =>
               /\ fired.last \in Nat
               /\ IF sweep.step = "bump" THEN fired.last <= sweep.now
                  ELSE fired.last + Every <= nextMs

\* A kind is marked for no period to come, and its newest card is of a marked one.
CardMarked(k) ==
    /\ mark[k] <= Schedules!Period(k, now) + 1
    /\ sweep.step # "idle" => mark[k] <= Schedules!Period(k, sweep.now) + 1
    /\ \/ k \in excused
       \/ /\ briefs[k].count \in {0, 1}
          /\ briefs[k].count = 1 => briefs[k].period \in Nat /\ briefs[k].period + 1 <= mark[k]
          /\ sweep.step = "mark" /\ sweep.kind = k => mark[k] # Schedules!Period(k,
               sweep.now) + 1
          /\ sweep.step = "post" /\ sweep.kind = k =>
               /\ mark[k] = Schedules!Period(k, sweep.now) + 1
               /\ briefs[k].count = 1 => briefs[k].period < Schedules!Period(k, sweep.now)

SchedInv ==
    /\ SchedTyped
    /\ Spaced
    /\ \A k \in Schedules!Kinds : CardMarked(k)
    /\ Schedules!SkipsTold

\* The schedule has an interval, a day ticks and a week days.
SchedBounds ==
    /\ Every \in Nat /\ MaxTime \in Nat /\ Every <= MaxTime
    /\ Day \in Nat \ {0} /\ Week \in Nat \ {0}

(* PeriodGrows: neither is a date or a week.                                *)
LEMMA PeriodGrows ==
    ASSUME SchedBounds, NEW k, NEW x \in Nat, NEW y \in Nat, x <= y
    PROVE  /\ Schedules!Period(k, x) \in Nat /\ Schedules!Period(k, y) \in Nat
           /\ Schedules!Period(k, x) <= Schedules!Period(k, y)
<1>1. Day * Week \in Nat \ {0}
  <2> DEFINE p == Day * Week
  <2>1. Day >= 1 /\ Week >= 1 /\ Day \in Nat /\ Week \in Nat
    BY DEF SchedBounds
  <2>2. p \in Nat /\ p >= 1
    BY <2>1
  <2>3. QED
    BY <2>2
<1>2. /\ x \div Day \in Nat /\ x \div Day <= y \div Day
      /\ y \div Day \in Nat
  BY DivMono DEF SchedBounds
<1>3. /\ x \div (Day * Week) \in Nat /\ x \div (Day * Week) <= y \div (Day * Week)
      /\ y \div (Day * Week) \in Nat
  <2> DEFINE p == Day * Week
  <2>1. p \in Nat \ {0}
    BY <1>1
  <2> HIDE DEF p
  <2>2. x \div p \in Nat /\ x \div p <= y \div p /\ y \div p \in Nat
    BY <2>1, DivMono
  <2>3. QED
    BY <2>2 DEF p
<1>4. QED
  BY <1>2, <1>3 DEF Schedules!Period

(* SchedInit: the clock starts an interval before the first slot.           *)
LEMMA SchedInit == SchedBounds /\ Schedules!Init => SchedInv
<1> SUFFICES ASSUME SchedBounds, Schedules!Init PROVE SchedInv
  OBVIOUS
<1>1. SchedTyped
  BY DEF SchedBounds, Schedules!Init, Schedules!Idle, Schedules!Kinds, SchedTyped
<1>2. Spaced /\ Schedules!SkipsTold
  BY DEF SchedBounds, Schedules!Init, Schedules!Idle, Spaced, Schedules!SkipsTold
<1>3. ASSUME NEW k \in Schedules!Kinds PROVE CardMarked(k)
  <2>1. Schedules!Period(k, now) \in Nat
    BY <1>1, PeriodGrows DEF SchedTyped
  <2>2. mark[k] = 0 /\ briefs[k].count = 0 /\ sweep.step = "idle"
    BY DEF Schedules!Init, Schedules!Idle
  <2>3. QED
    BY <2>1, <2>2 DEF CardMarked
<1>4. QED
  BY <1>1, <1>2, <1>3 DEF SchedInv

(* CardsStand: a step that neither marks nor posts leaves the cards right.  *)
LEMMA CardsStand ==
    ASSUME SchedBounds, SchedInv, UNCHANGED <<mark, briefs>>, now' \in Nat, now <= now',
           excused \subseteq excused',
           \/ sweep'.step = "idle"
           \/ sweep'.step = sweep.step /\ sweep'.now = sweep.now /\ sweep'.kind = sweep.kind
           \/ sweep'.step \notin {"mark", "post"} /\ sweep.step # "idle"
                /\ sweep'.now = sweep.now
           \/ sweep'.step \notin {"mark", "post"} /\ sweep'.now = now
    PROVE  \A k \in Schedules!Kinds : CardMarked(k)'
<1> SUFFICES ASSUME NEW k \in Schedules!Kinds PROVE CardMarked(k)'
  OBVIOUS
<1>1. now \in Nat /\ sweep.now \in Nat /\ mark[k] \in Nat /\ CardMarked(k)
  BY DEF SchedInv, SchedTyped
<1>2. /\ Schedules!Period(k, now) \in Nat /\ Schedules!Period(k, now') \in Nat
      /\ Schedules!Period(k, sweep.now) \in Nat
      /\ Schedules!Period(k, now) <= Schedules!Period(k, now')
  BY <1>1, PeriodGrows
<1>3. mark'[k] = mark[k] /\ briefs'[k] = briefs[k]
  OBVIOUS
<1>4. mark'[k] <= Schedules!Period(k, now') + 1
  BY <1>1, <1>2, <1>3 DEF CardMarked
<1>5. /\ sweep'.step # "idle" => mark'[k] <= Schedules!Period(k, sweep'.now) + 1
      /\ \/ k \in excused'
         \/ /\ briefs'[k].count \in {0, 1}
            /\ briefs'[k].count = 1 => briefs'[k].period \in Nat
                 /\ briefs'[k].period + 1 <= mark'[k]
            /\ sweep'.step = "mark" /\ sweep'.kind = k => mark'[k] # Schedules!Period(k,
                 sweep'.now) + 1
            /\ sweep'.step = "post" /\ sweep'.kind = k =>
                 /\ mark'[k] = Schedules!Period(k, sweep'.now) + 1
                 /\ briefs'[k].count = 1 => briefs'[k].period < Schedules!Period(k, sweep'.now)
  <2>1. CASE sweep'.step = "idle"
    BY <1>1, <1>3, <2>1 DEF CardMarked
  <2>2. CASE sweep'.step = sweep.step /\ sweep'.now = sweep.now /\ sweep'.kind = sweep.kind
    BY <1>1, <1>3, <2>2 DEF CardMarked
  <2>3. CASE sweep'.step \notin {"mark", "post"} /\ sweep.step # "idle"
          /\ sweep'.now = sweep.now
    BY <1>1, <1>3, <2>3 DEF CardMarked
  <2>4. CASE sweep'.step \notin {"mark", "post"} /\ sweep'.now = now
    BY <1>1, <1>3, <2>4 DEF CardMarked
  <2>5. QED
    BY <2>1, <2>2, <2>3, <2>4
<1>6. QED
  BY <1>4, <1>5 DEF CardMarked

(* SchedStep: no step brings the next job closer than an interval, posts a  *)
(* second card or forgets a slot.                                           *)
LEMMA SchedStep ==
    ASSUME SchedBounds PROVE SchedInv /\ [Schedules!Next]_(Schedules!vars) => SchedInv'
<1> SUFFICES ASSUME SchedInv, [Schedules!Next]_(Schedules!vars) PROVE SchedInv'
  OBVIOUS
<1> USE DEF Schedules!hostVars, Schedules!rowVars, Schedules!cardVars
<1>0. SchedTyped /\ Spaced /\ Schedules!SkipsTold /\ Every \in Nat
  BY DEF SchedInv, SchedBounds
<1>1. CASE Schedules!Time
  <2>1. SchedTyped'
    BY <1>0, <1>1 DEF SchedTyped, Schedules!Time
  <2>2. Spaced'
    BY <1>0, <1>1 DEF SchedTyped, Spaced, Schedules!Time
  <2>3. Schedules!SkipsTold'
    BY <1>0, <1>1 DEF SchedTyped, Schedules!SkipsTold, Schedules!Time
  <2>4. \A k \in Schedules!Kinds : CardMarked(k)'
    BY <1>0, <1>1, CardsStand DEF SchedTyped, Schedules!Time
  <2>5. QED
    BY <2>1, <2>2, <2>3, <2>4 DEF SchedInv
<1>2. CASE Schedules!TapOnOff
  <2>1. SchedTyped'
    BY <1>0, <1>2 DEF SchedTyped, Schedules!TapOnOff
  <2>2. Spaced'
    BY <1>0, <1>2 DEF SchedTyped, Spaced, Schedules!TapOnOff
  <2>3. Schedules!SkipsTold'
    BY <1>0, <1>2 DEF SchedTyped, Schedules!SkipsTold, Schedules!TapOnOff
  <2>4. \A k \in Schedules!Kinds : CardMarked(k)'
    BY <1>0, <1>2, CardsStand DEF SchedTyped, Schedules!TapOnOff
  <2>5. QED
    BY <2>1, <2>2, <2>3, <2>4 DEF SchedInv
<1>3. CASE Schedules!TapHalt
  <2>1. SchedTyped'
    BY <1>0, <1>3 DEF SchedTyped, Schedules!TapHalt
  <2>2. Spaced'
    BY <1>0, <1>3 DEF SchedTyped, Spaced, Schedules!TapHalt
  <2>3. Schedules!SkipsTold'
    BY <1>0, <1>3 DEF SchedTyped, Schedules!SkipsTold, Schedules!TapHalt
  <2>4. \A k \in Schedules!Kinds : CardMarked(k)'
    BY <1>0, <1>3, CardsStand DEF SchedTyped, Schedules!TapHalt
  <2>5. QED
    BY <2>1, <2>2, <2>3, <2>4 DEF SchedInv
<1>4. CASE Schedules!Poll
  <2>1. SchedTyped'
    <3>1. /\ sweep'.step \in {"report", "skip", "fire"} /\ sweep'.now = now
          /\ sweep'.todo = Schedules!Kinds
          /\ sweep' = [step |-> sweep'.step, now |-> sweep'.now, todo |-> sweep'.todo, kind
               |-> sweep'.kind]
          /\ UNCHANGED <<now, nextMs, mark, briefs>>
      BY <1>4 DEF Schedules!Poll, Schedules!Idle
    <3>2. QED
      BY <1>0, <3>1 DEF SchedTyped
  <2>2. Spaced'
    BY <1>0, <1>4 DEF SchedTyped, Spaced, Schedules!Poll, Schedules!Idle, Schedules!Kinds
  <2>3. Schedules!SkipsTold'
    BY <1>0, <1>4 DEF SchedTyped, Schedules!SkipsTold, Schedules!Poll, Schedules!Idle,
        Schedules!Kinds
  <2>4. \A k \in Schedules!Kinds : CardMarked(k)'
    BY <1>0, <1>4, CardsStand DEF SchedTyped, Schedules!Poll, Schedules!Idle, Schedules!Kinds
  <2>5. QED
    BY <2>1, <2>2, <2>3, <2>4 DEF SchedInv
<1>5. CASE Schedules!Fire
  <2>1. SchedTyped'
    BY <1>0, <1>5 DEF SchedTyped, Schedules!Fire, Schedules!Goto
  <2>2. Spaced'
    <3>1. /\ sweep.step = "fire" /\ sweep' = [sweep EXCEPT !.step = "bump"] /\ nextMs' = nextMs
          /\ excused' = excused /\ nextMs <= sweep.now /\ sweep'.step = "bump"
               /\ sweep'.now = sweep.now
          /\ nextMs \in Nat /\ sweep.now \in Nat
      BY <1>0, <1>5 DEF SchedTyped, Spaced, Schedules!Fire, Schedules!Goto
    <3>2. CASE "bump" \in excused
      BY <3>1, <3>2 DEF Spaced
    <3>3. CASE "bump" \notin excused
      <4>1. fired.gap \in Nat /\ fired.gap >= Every
        BY <1>0, <3>3 DEF Spaced
      <4>2. fired'.last = sweep.now
        BY <1>5 DEF Schedules!Fire
      <4>3. fired'.gap \in Nat /\ fired'.gap >= Every
        <5>1. CASE fired.last = None
          <6>1. fired'.gap = MaxTime
            BY <1>5, <5>1 DEF Schedules!Fire
          <6>2. QED
            BY <6>1 DEF SchedBounds
        <5>2. CASE fired.last # None
          <6> DEFINE d == sweep.now - fired.last
          <6>1. fired.last \in Nat /\ fired.last + Every <= nextMs
            BY <1>0, <3>1, <3>3, <5>2 DEF Spaced
          <6>2. d \in Nat /\ d >= Every
            BY <1>0, <3>1, <6>1
          <6>3. fired'.gap = CHOOSE g \in {fired.gap, d} : g <= fired.gap /\ g <= d
            BY <1>5, <5>2 DEF Schedules!Fire
          <6> HIDE DEF d
          <6>4. \E g \in {fired.gap, d} : g <= fired.gap /\ g <= d
            BY <4>1, <6>2
          <6>5. fired'.gap \in {fired.gap, d}
            BY <6>3, <6>4
          <6>6. QED
            BY <4>1, <6>2, <6>5
        <5>3. QED
          BY <5>1, <5>2
      <4>4. QED
        BY <3>1, <4>2, <4>3 DEF Spaced
    <3>4. QED
      BY <3>2, <3>3
  <2>3. Schedules!SkipsTold'
    BY <1>0, <1>5 DEF SchedTyped, Schedules!SkipsTold, Schedules!Fire, Schedules!Goto
  <2>4. \A k \in Schedules!Kinds : CardMarked(k)'
    BY <1>0, <1>5, CardsStand DEF SchedTyped, Schedules!Fire, Schedules!Goto
  <2>5. QED
    BY <2>1, <2>2, <2>3, <2>4 DEF SchedInv
<1>6. CASE Schedules!FireFails
  <2>1. SchedTyped'
    BY <1>0, <1>6 DEF SchedTyped, Schedules!FireFails, Schedules!Goto, Schedules!Fault
  <2>2. Spaced'
    BY <1>0, <1>6 DEF SchedTyped, Spaced, Schedules!FireFails, Schedules!Goto, Schedules!Fault
  <2>3. Schedules!SkipsTold'
    BY <1>0, <1>6 DEF SchedTyped, Schedules!SkipsTold, Schedules!FireFails, Schedules!Goto,
        Schedules!Fault
  <2>4. \A k \in Schedules!Kinds : CardMarked(k)'
    BY <1>0, <1>6, CardsStand DEF SchedTyped, Schedules!FireFails, Schedules!Goto,
        Schedules!Fault
  <2>5. QED
    BY <2>1, <2>2, <2>3, <2>4 DEF SchedInv
<1>7. CASE Schedules!Bump
  <2>1. SchedTyped'
    BY <1>0, <1>7 DEF SchedTyped, Schedules!Bump, Schedules!Goto
  <2>2. Spaced'
    BY <1>0, <1>7 DEF SchedTyped, Spaced, Schedules!Bump, Schedules!Goto
  <2>3. Schedules!SkipsTold'
    BY <1>0, <1>7 DEF SchedTyped, Schedules!SkipsTold, Schedules!Bump, Schedules!Goto
  <2>4. \A k \in Schedules!Kinds : CardMarked(k)'
    BY <1>0, <1>7, CardsStand DEF SchedTyped, Schedules!Bump, Schedules!Goto
  <2>5. QED
    BY <2>1, <2>2, <2>3, <2>4 DEF SchedInv
<1>8. CASE Schedules!BumpFails
  <2>1. SchedTyped'
    BY <1>0, <1>8 DEF SchedTyped, Schedules!BumpFails, Schedules!Goto, Schedules!Fault,
        Schedules!Lapse
  <2>2. Spaced'
    BY <1>0, <1>8 DEF SchedTyped, Spaced, Schedules!BumpFails, Schedules!Goto,
        Schedules!Fault, Schedules!Lapse
  <2>3. Schedules!SkipsTold'
    BY <1>0, <1>8 DEF SchedTyped, Schedules!SkipsTold, Schedules!BumpFails, Schedules!Goto,
        Schedules!Fault, Schedules!Lapse
  <2>4. \A k \in Schedules!Kinds : CardMarked(k)'
    BY <1>0, <1>8, CardsStand DEF SchedTyped, Schedules!BumpFails, Schedules!Goto,
        Schedules!Fault, Schedules!Lapse
  <2>5. QED
    BY <2>1, <2>2, <2>3, <2>4 DEF SchedInv
<1>9. CASE Schedules!Skip
  <2>1. SchedTyped'
    BY <1>0, <1>9 DEF SchedTyped, Schedules!Skip, Schedules!Goto
  <2>2. Spaced'
    BY <1>0, <1>9 DEF SchedTyped, Spaced, Schedules!Skip, Schedules!Goto
  <2>3. Schedules!SkipsTold'
    BY <1>0, <1>9 DEF SchedTyped, Schedules!SkipsTold, Schedules!Skip, Schedules!Goto
  <2>4. \A k \in Schedules!Kinds : CardMarked(k)'
    BY <1>0, <1>9, CardsStand DEF SchedTyped, Schedules!Skip, Schedules!Goto
  <2>5. QED
    BY <2>1, <2>2, <2>3, <2>4 DEF SchedInv
<1>10. CASE Schedules!SkipFails
  <2>1. SchedTyped'
    BY <1>0, <1>10 DEF SchedTyped, Schedules!SkipFails, Schedules!Goto, Schedules!Fault,
        Schedules!Lapse
  <2>2. Spaced'
    BY <1>0, <1>10 DEF SchedTyped, Spaced, Schedules!SkipFails, Schedules!Goto,
        Schedules!Fault, Schedules!Lapse
  <2>3. Schedules!SkipsTold'
    BY <1>0, <1>10 DEF SchedTyped, Schedules!SkipsTold, Schedules!SkipFails, Schedules!Goto,
        Schedules!Fault, Schedules!Lapse
  <2>4. \A k \in Schedules!Kinds : CardMarked(k)'
    BY <1>0, <1>10, CardsStand DEF SchedTyped, Schedules!SkipFails, Schedules!Goto,
        Schedules!Fault, Schedules!Lapse
  <2>5. QED
    BY <2>1, <2>2, <2>3, <2>4 DEF SchedInv
<1>11. CASE Schedules!Brief
  <2>1. SchedTyped'
    BY <1>0, <1>11 DEF SchedTyped, Schedules!Brief, Schedules!Goto
  <2>2. Spaced'
    BY <1>0, <1>11 DEF SchedTyped, Spaced, Schedules!Brief, Schedules!Goto
  <2>3. Schedules!SkipsTold'
    BY <1>0, <1>11 DEF SchedTyped, Schedules!SkipsTold, Schedules!Brief, Schedules!Goto
  <2>4. \A k \in Schedules!Kinds : CardMarked(k)'
    BY <1>0, <1>11, CardsStand DEF SchedTyped, Schedules!Brief, Schedules!Goto
  <2>5. QED
    BY <2>1, <2>2, <2>3, <2>4 DEF SchedInv
<1>12. CASE Schedules!BriefFails
  <2>1. SchedTyped'
    BY <1>0, <1>12 DEF SchedTyped, Schedules!BriefFails, Schedules!Goto, Schedules!Fault,
        Schedules!Lapse
  <2>2. Spaced'
    BY <1>0, <1>12 DEF SchedTyped, Spaced, Schedules!BriefFails, Schedules!Goto,
        Schedules!Fault, Schedules!Lapse
  <2>3. Schedules!SkipsTold'
    BY <1>0, <1>12 DEF SchedTyped, Schedules!SkipsTold, Schedules!BriefFails, Schedules!Goto,
        Schedules!Fault, Schedules!Lapse
  <2>4. \A k \in Schedules!Kinds : CardMarked(k)'
    BY <1>0, <1>12, CardsStand DEF SchedTyped, Schedules!BriefFails, Schedules!Goto,
        Schedules!Fault, Schedules!Lapse
  <2>5. QED
    BY <2>1, <2>2, <2>3, <2>4 DEF SchedInv
<1>13. CASE Schedules!Report
  <2>1. PICK k \in sweep.todo :
           sweep' = [sweep EXCEPT !.todo = @ \ {k}, !.kind = k,
                            !.step = IF (k = "morning" => running)
                                        /\ Schedules!CardDue(k, mark[k])
                                     THEN "mark" ELSE "report"]
    BY <1>13 DEF Schedules!Report
  <2>2. /\ sweep'.step \in {"mark", "report"} /\ sweep'.now = sweep.now /\ sweep'.kind = k
        /\ sweep.step = "report" /\ sweep'.todo = sweep.todo \ {k}
        /\ sweep' = [step |-> sweep'.step, now |-> sweep'.now, todo |-> sweep'.todo, kind
             |-> sweep'.kind]
        /\ (sweep'.step = "mark" => Schedules!CardDue(k, mark[k]))
        /\ UNCHANGED <<now, nextMs, fired, untold, mark, briefs, excused>>
    BY <1>0, <2>1, <1>13 DEF SchedTyped, Schedules!Report
  <2>3. SchedTyped'
    BY <1>0, <2>2 DEF SchedTyped
  <2>4. Spaced' /\ Schedules!SkipsTold'
    BY <1>0, <2>2 DEF Spaced, Schedules!SkipsTold
  <2>5. ASSUME NEW j \in Schedules!Kinds PROVE CardMarked(j)'
    <3>1. CardMarked(j)
      BY DEF SchedInv
    <3>2. sweep'.step = "mark" /\ sweep'.kind = j => mark[j] # Schedules!Period(j,
            sweep.now) + 1
      BY <2>2 DEF Schedules!CardDue
    <3>3. QED
      BY <2>2, <3>1, <3>2 DEF CardMarked, Schedules!Period
  <2>6. QED
    BY <2>3, <2>4, <2>5 DEF SchedInv
<1>14. CASE Schedules!Mark
  <2>1. /\ sweep.step = "mark" /\ sweep.kind \in Schedules!Kinds
        /\ mark' = [mark EXCEPT ![sweep.kind] = Schedules!Period(sweep.kind, sweep.now) + 1]
        /\ sweep'.step \in {"post", "report"} /\ sweep'.now = sweep.now
             /\ sweep'.kind = sweep.kind
        /\ sweep'.todo = sweep.todo
        /\ sweep' = [step |-> sweep'.step, now |-> sweep'.now, todo |-> sweep'.todo, kind
             |-> sweep'.kind]
        /\ UNCHANGED <<now, nextMs, fired, untold, briefs, excused>>
    BY <1>0, <1>14 DEF SchedTyped, Schedules!Mark, Schedules!Goto
  <2>2. /\ Schedules!Period(sweep.kind, sweep.now) \in Nat /\ Schedules!Period(sweep.kind,
             now) \in Nat
        /\ Schedules!Period(sweep.kind, sweep.now) <= Schedules!Period(sweep.kind, now)
    BY <1>0, PeriodGrows DEF SchedTyped
  <2>3. SchedTyped'
    BY <1>0, <2>1, <2>2 DEF SchedTyped
  <2>4. Spaced' /\ Schedules!SkipsTold'
    BY <1>0, <2>1 DEF Spaced, Schedules!SkipsTold
  <2>5. ASSUME NEW j \in Schedules!Kinds PROVE CardMarked(j)'
    <3>1. CardMarked(j) /\ mark \in [Schedules!Kinds -> Nat]
      BY <1>0 DEF SchedInv, SchedTyped
    <3>2. Schedules!Period(j, now)' = Schedules!Period(j, now)
          /\ Schedules!Period(j, sweep.now)' = Schedules!Period(j, sweep.now)
      BY <2>1 DEF Schedules!Period
    <3>3. CASE j = sweep.kind
      <4>1. mark'[j] = Schedules!Period(j, sweep.now) + 1
        BY <2>1, <3>1, <3>3
      <4>2. \/ mark[j] <= Schedules!Period(j, sweep.now) /\ mark[j] \in Nat
            \/ j \in excused
        BY <2>1, <2>2, <3>1, <3>3 DEF CardMarked
      <4>3. CASE j \in excused
        BY <2>1, <2>2, <3>2, <3>3, <4>1, <4>3 DEF CardMarked
      <4>4. CASE j \notin excused
        BY <2>1, <2>2, <3>1, <3>2, <3>3, <4>1, <4>2, <4>4 DEF CardMarked
      <4>5. QED
        BY <4>3, <4>4
    <3>4. CASE j # sweep.kind
      <4>1. mark'[j] = mark[j]
        BY <2>1, <3>1, <3>4
      <4>2. QED
        BY <2>1, <3>1, <3>2, <3>4, <4>1 DEF CardMarked
    <3>5. QED
      BY <3>3, <3>4
  <2>6. QED
    BY <2>3, <2>4, <2>5 DEF SchedInv
<1>15. CASE Schedules!MarkFails
  <2>1. /\ sweep.step = "mark" /\ sweep.kind \in Schedules!Kinds
        /\ sweep'.step \in {"post", "report"} /\ sweep'.now = sweep.now
             /\ sweep'.kind = sweep.kind
        /\ sweep'.todo = sweep.todo /\ excused' = excused \cup {sweep.kind}
        /\ sweep' = [step |-> sweep'.step, now |-> sweep'.now, todo |-> sweep'.todo, kind
             |-> sweep'.kind]
        /\ UNCHANGED <<now, nextMs, fired, untold, mark, briefs>>
    BY <1>0, <1>15 DEF SchedTyped, Schedules!MarkFails, Schedules!Goto, Schedules!Lapse
  <2>2. SchedTyped'
    BY <1>0, <2>1 DEF SchedTyped
  <2>3. Spaced' /\ Schedules!SkipsTold'
    BY <1>0, <2>1 DEF Spaced, Schedules!SkipsTold
  <2>4. ASSUME NEW j \in Schedules!Kinds PROVE CardMarked(j)'
    <3>1. CardMarked(j)
      BY DEF SchedInv
    <3>2. QED
      BY <2>1, <3>1 DEF CardMarked, Schedules!Period
  <2>5. QED
    BY <2>2, <2>3, <2>4 DEF SchedInv
<1>16. CASE Schedules!Post
  <2> DEFINE p == Schedules!Period(sweep.kind, sweep.now)
  <2>1. /\ sweep.step = "post" /\ sweep.kind \in Schedules!Kinds
        /\ sweep'.step = "report" /\ sweep'.now = sweep.now /\ sweep'.kind = sweep.kind
             /\ sweep'.todo = sweep.todo
        /\ sweep' = [step |-> sweep'.step, now |-> sweep'.now, todo |-> sweep'.todo, kind
             |-> sweep'.kind]
        /\ UNCHANGED <<now, nextMs, fired, untold, mark, excused>>
    BY <1>0, <1>16 DEF SchedTyped, Schedules!Post, Schedules!Goto
  <2>2. briefs' = [briefs EXCEPT ![sweep.kind] =
                    [period |-> p, count |-> IF @.period = p THEN @.count + 1 ELSE 1]]
    BY <1>16 DEF Schedules!Post
  <2>3. p \in Nat
    BY <1>0, PeriodGrows DEF SchedTyped
  <2> HIDE DEF p
  <2>4. /\ briefs' = [k \in Schedules!Kinds |-> briefs'[k]]
        /\ \A k \in Schedules!Kinds \ {sweep.kind} : briefs'[k] = briefs[k]
        /\ briefs'[sweep.kind] = [period |-> p, count |-> IF briefs[sweep.kind].period = p
                                                     THEN briefs[sweep.kind].count + 1 ELSE 1]
    BY <1>0, <2>1, <2>2 DEF SchedTyped
  <2>5. SchedTyped'
    BY <1>0, <2>1, <2>4 DEF SchedTyped
  <2>6. Spaced' /\ Schedules!SkipsTold'
    BY <1>0, <2>1 DEF Spaced, Schedules!SkipsTold
  <2>7. ASSUME NEW j \in Schedules!Kinds PROVE CardMarked(j)'
    <3>1. CardMarked(j)
      BY DEF SchedInv
    <3>2. Schedules!Period(j, now)' = Schedules!Period(j, now)
          /\ Schedules!Period(j, sweep.now)' = Schedules!Period(j, sweep.now)
      BY <2>1 DEF Schedules!Period
    <3>3. CASE j = sweep.kind
      <4>1. p = Schedules!Period(j, sweep.now)
        BY <3>3 DEF p
      <4>2. QED
        BY <2>1, <2>3, <2>4, <3>1, <3>2, <3>3, <4>1 DEF CardMarked
    <3>4. CASE j # sweep.kind
      BY <2>1, <2>4, <3>1, <3>2, <3>4 DEF CardMarked
    <3>5. QED
      BY <3>3, <3>4
  <2>8. QED
    BY <2>5, <2>6, <2>7 DEF SchedInv
<1>17. CASE Schedules!PostFails
  <2>1. SchedTyped'
    BY <1>0, <1>17 DEF SchedTyped, Schedules!PostFails, Schedules!Goto, Schedules!Fault
  <2>2. Spaced'
    BY <1>0, <1>17 DEF SchedTyped, Spaced, Schedules!PostFails, Schedules!Goto, Schedules!Fault
  <2>3. Schedules!SkipsTold'
    BY <1>0, <1>17 DEF SchedTyped, Schedules!SkipsTold, Schedules!PostFails, Schedules!Goto,
        Schedules!Fault
  <2>4. \A k \in Schedules!Kinds : CardMarked(k)'
    BY <1>0, <1>17, CardsStand DEF SchedTyped, Schedules!PostFails, Schedules!Goto,
        Schedules!Fault
  <2>5. QED
    BY <2>1, <2>2, <2>3, <2>4 DEF SchedInv
<1>18. CASE Schedules!PollEnds
  <2>1. SchedTyped'
    BY <1>0, <1>18 DEF SchedTyped, Schedules!PollEnds, Schedules!Idle, Schedules!Kinds
  <2>2. Spaced'
    BY <1>0, <1>18 DEF SchedTyped, Spaced, Schedules!PollEnds, Schedules!Idle, Schedules!Kinds
  <2>3. Schedules!SkipsTold'
    BY <1>0, <1>18 DEF SchedTyped, Schedules!SkipsTold, Schedules!PollEnds, Schedules!Idle,
        Schedules!Kinds
  <2>4. \A k \in Schedules!Kinds : CardMarked(k)'
    BY <1>0, <1>18, CardsStand DEF SchedTyped, Schedules!PollEnds, Schedules!Idle,
        Schedules!Kinds
  <2>5. QED
    BY <2>1, <2>2, <2>3, <2>4 DEF SchedInv
<1>19. CASE Schedules!HostDies
  <2>1. /\ sweep' = Schedules!Idle /\ UNCHANGED <<now, nextMs, fired, untold, mark, briefs>>
        /\ excused \subseteq excused'
        /\ sweep.step = "bump" => "bump" \in excused'
        /\ sweep.step = "brief" => "brief" \in excused'
    BY <1>19 DEF Schedules!HostDies, Schedules!Lapse
  <2>2. SchedTyped'
    BY <1>0, <2>1 DEF SchedTyped, Schedules!Idle
  <2>3. Spaced' /\ Schedules!SkipsTold'
    BY <1>0, <2>1 DEF Spaced, Schedules!Idle, Schedules!SkipsTold
  <2>4. \A k \in Schedules!Kinds : CardMarked(k)'
    BY <1>0, <2>1, CardsStand DEF SchedTyped, Schedules!Idle
  <2>5. QED
    BY <2>2, <2>3, <2>4 DEF SchedInv
<1>20. CASE UNCHANGED Schedules!vars
  <2>1. UNCHANGED <<now, nextMs, fired, untold, mark, briefs, sweep, excused>>
    BY <1>20 DEF Schedules!vars
  <2>2. SchedTyped' /\ Spaced' /\ Schedules!SkipsTold'
    BY <1>0, <2>1 DEF SchedTyped, Spaced, Schedules!SkipsTold
  <2>3. \A k \in Schedules!Kinds : CardMarked(k)'
    BY <1>0, <2>1, CardsStand DEF SchedTyped
  <2>4. QED
    BY <2>2, <2>3 DEF SchedInv
<1>21. CASE Schedules!ReportBlind
  <2>1. PICK k \in sweep.todo :
          sweep' = [sweep EXCEPT !.step = "mark", !.todo = @ \ {k}, !.kind = k]
            /\ excused' = excused \cup {k}
    BY <1>21 DEF Schedules!ReportBlind, Schedules!Lapse
  <2>2. /\ sweep.step = "report" /\ k \in Schedules!Kinds /\ k \in excused'
        /\ sweep'.step = "mark" /\ sweep'.now = sweep.now /\ sweep'.kind = k
        /\ sweep'.todo = sweep.todo \ {k} /\ excused \subseteq excused'
        /\ sweep' = [step |-> sweep'.step, now |-> sweep'.now, todo |-> sweep'.todo, kind
             |-> sweep'.kind]
        /\ "bump" \in excused' <=> "bump" \in excused
        /\ "brief" \in excused' <=> "brief" \in excused
        /\ UNCHANGED <<now, nextMs, fired, untold, mark, briefs>>
    BY <1>0, <1>21, <2>1 DEF SchedTyped, Schedules!ReportBlind, Schedules!Kinds
  <2>3. SchedTyped'
    BY <1>0, <2>2 DEF SchedTyped
  <2>4. Spaced' /\ Schedules!SkipsTold'
    BY <1>0, <2>2 DEF Spaced, Schedules!SkipsTold
  <2>5. ASSUME NEW j \in Schedules!Kinds PROVE CardMarked(j)'
    <3>1. CardMarked(j)
      BY DEF SchedInv
    <3>2. QED
      BY <2>2, <3>1 DEF CardMarked, Schedules!Period
  <2>6. QED
    BY <2>3, <2>4, <2>5 DEF SchedInv
<1>22. QED
  BY <1>1, <1>2, <1>3, <1>4, <1>5, <1>6, <1>7, <1>8, <1>9, <1>10, <1>11, <1>12, <1>13,
     <1>14, <1>15, <1>16, <1>17, <1>18, <1>19, <1>20, <1>21 DEF Schedules!Next,
     Schedules!HostStep

(* SlotsAreKept: whatever the clock, On, Off, Halt and restarts do, two     *)
(* jobs of one schedule are an interval apart, a day has one morning card   *)
(* and a week one digest as long as the watermark of that card could be     *)
(* read and written, and a slot that was skipped is in a briefing, but for  *)
(* the failures Schedules!NoStorm and Schedules!SkipsTold name.             *)
THEOREM SlotsAreKept ==
    ASSUME SchedBounds PROVE Schedules!Spec => [](Schedules!NoStorm /\ Schedules!SkipsTold)
<1>1. SchedInv => Schedules!NoStorm /\ Schedules!SkipsTold
  BY DEF SchedInv, Spaced, CardMarked, Schedules!NoStorm
<1>2. Schedules!Init => SchedInv
  BY SchedInit
<1>3. SchedInv /\ [Schedules!Next]_(Schedules!vars) => SchedInv'
  BY SchedStep
<1>4. QED
  BY <1>1, <1>2, <1>3, PTL DEF Schedules!Spec

-----------------------------------------------------------------------------
(* The hold of a worker inside the host: no yes and no option out of thin   *)
(* air.                                                                     *)

Replied(r) == r \in Ask!Replies \cup {None}

IsOp(o) ==
    o = [step |-> o.step, said |-> o.said, live |-> o.live, req |-> o.req, of |-> o.of,
         chosen |-> o.chosen]

\* What a thread is in the middle of, the next step of that, and nothing.
OpOf(step, reply, live, req, of, chosen) ==
    [step |-> step, said |-> reply, live |-> live, req |-> req, of |-> of, chosen |-> chosen]
Stepped(step, o) == OpOf(step, o.said, o.live, o.req, o.of, o.chosen)
NoOp == OpOf("idle", None, FALSE, 0, 0, {})

\* The hold, what was said of it, the metadata and the card are of their kinds.
AskHoldTyped ==
    /\ ask = [n |-> ask.n, kind |-> ask.kind, step |-> ask.step, age |-> ask.age]
    /\ ask.n \in 0..MaxHolds /\ (ask.step # "off" => ask.n \in Ask!Holds)
    /\ ask.step \in {"off", "raise", "paint", "wait", "expire"}
    /\ heard = [n \in Ask!Holds |-> heard[n]] /\ file = [n \in Ask!Holds |-> file[n]]
    /\ \A n \in Ask!Holds : Replied(heard[n]) /\ Replied(file[n])

AskGateTyped ==
    /\ gate = [awaiting |-> gate.awaiting, approval |-> gate.approval, kind |-> gate.kind,
               of |-> gate.of, req |-> gate.req, live |-> gate.live,
               selected |-> gate.selected, result |-> gate.result, aged |-> gate.aged]
    /\ gate.awaiting \in BOOLEAN /\ (gate.awaiting => gate.of # 0)
    /\ gate.of \in 0..ask.n /\ gate.req \in 0..ask.n
    /\ gate.selected \subseteq Ask!Options /\ Replied(gate.result)
    /\ card.of \in 0..gate.of

AskOpTyped ==
    /\ op = [a \in Ask!Actors |-> op[a]]
    /\ \A a \in Ask!Actors :
         /\ IsOp(op[a]) /\ op[a].of \in 0..gate.of /\ op[a].req \in 0..ask.n
         /\ op[a].chosen \subseteq Ask!Options
         /\ op[a].step \in {"merge", "file", "run"} => op[a].said \in Ask!Replies

HistoryTyped ==
    /\ past = [yes |-> past.yes, picked |-> past.picked, crossed |-> past.crossed]
    /\ past.yes \subseteq 1..ask.n /\ past.crossed \in BOOLEAN
    /\ past.picked = [n \in Ask!Holds |-> past.picked[n]]

AskTyped == AskHoldTyped /\ AskGateTyped /\ AskOpTyped /\ HistoryTyped

\* By the history h one of the first n holds was answered so.
Backed(h, r, n) ==
    /\ Ask!Yes(r.decision) => \E m \in 1..n : m \in h.yes
    /\ r.answer # {} /\ ~h.crossed => \E m \in 1..n : r.answer = h.picked[m]

\* Whatever a reply has reached, it is backed.
RepliesBacked ==
    /\ \A n \in Ask!Holds :
         /\ heard[n] # None => n <= ask.n /\ Backed(past, heard[n], n)
         /\ file[n] # None => Backed(past, file[n], ask.n)
    /\ gate.result # None => Backed(past, gate.result, ask.n)
    /\ \A a \in Ask!Actors :
         op[a].step \in {"merge", "file", "run"} => Backed(past, op[a].said, ask.n)

\* A hold is parked and its card is not painted yet: nobody ticked anything.
Untouched ==
    /\ card.of # gate.of
    /\ gate.kind = "multi" => gate.selected = {}
    /\ op["phone"].step \in {"toggle", "show"} => op["phone"].of # gate.of

\* What is ticked on the card of the parked hold is what the metadata says.
Ticked ==
    /\ gate.of # 0 /\ gate.kind = "multi" /\ card.of = gate.of /\ op["phone"].step # "show"
          => card.selected = gate.selected
    /\ op["phone"].step = "show" /\ op["phone"].of = gate.of
          => gate.selected = op["phone"].chosen

\* Each hold is parked once and answered once.
ParkedOnce ==
    /\ \A m \in Ask!Holds : past.picked[m] # {} => m <= gate.of
    /\ gate.awaiting /\ past.picked[gate.of] # {} => op["phone"].step = "merge"
    /\ gate.of # 0 => gate.awaiting \/ gate.result # None
    /\ ask.step \in {"paint", "wait"} /\ op["loop"].step = "park" => op["loop"].of # ask.n

\* Unless two threads raised one card or a tap met the next hold's.
CardTrue ==
    /\ ask.step \in {"paint", "wait"} => gate.of = ask.n
    /\ ~past.crossed =>
         /\ ParkedOnce /\ Ticked
         /\ ask.step = "paint" => Untouched
         /\ gate.of # 0 /\ op["loop"].step = "park" /\ op["loop"].of = gate.of => Untouched

AskInv == AskTyped /\ RepliesBacked /\ CardTrue

\* No reply is a missing one, and the worker asks so many times.
AskBounds == None \notin Ask!Replies /\ MaxHolds \in Nat

(* AskInit: nothing is asked yet.                                           *)
LEMMA AskInit == AskBounds /\ Ask!Init => AskInv
<1> SUFFICES ASSUME AskBounds, Ask!Init PROVE AskInv
  OBVIOUS
<1> USE DEF Ask!Init, Ask!NoGate, Ask!NoCard, Ask!IdleOp
<1>1. AskHoldTyped
  BY DEF AskBounds, AskHoldTyped, Replied
<1>2. AskGateTyped
  BY DEF AskGateTyped, Replied
<1>3. AskOpTyped
  <2>1. gate.of = 0 /\ ask.n = 0
    OBVIOUS
  <2>2. ASSUME NEW a \in Ask!Actors PROVE op[a] = Ask!IdleOp
    OBVIOUS
  <2>3. op = [a \in Ask!Actors |-> op[a]]
    OBVIOUS
  <2>4. ASSUME NEW a \in Ask!Actors
        PROVE  /\ IsOp(op[a]) /\ op[a].of = 0 /\ op[a].req = 0 /\ op[a].chosen = {}
               /\ op[a].step = "idle"
    BY <2>2 DEF IsOp
  <2> HIDE DEF Ask!Init, Ask!NoGate, Ask!NoCard, Ask!IdleOp
  <2>5. QED
    BY <2>1, <2>3, <2>4 DEF AskOpTyped
<1>4. HistoryTyped
  BY DEF HistoryTyped
<1>5. RepliesBacked
  BY DEF RepliesBacked
<1>6. CardTrue
  BY DEF CardTrue, ParkedOnce, Ticked, Ask!Actors
<1>7. QED
  BY <1>1, <1>2, <1>3, <1>4, <1>5, <1>6 DEF AskInv, AskTyped

\* From h to g yeses are added, and picks only where there was none.
Grows(h, g) ==
    /\ h.yes \subseteq g.yes /\ (h.crossed => g.crossed)
    /\ ~g.crossed =>
         \A m \in Ask!Holds : h.picked[m] # {} => g.picked[m] = h.picked[m]

(* BackedGrows: what was answered stays answered.                           *)
LEMMA BackedGrows ==
    ASSUME MaxHolds \in Nat, NEW h, NEW g, Grows(h, g), NEW r, NEW n \in 0..MaxHolds,
           NEW k \in 0..MaxHolds, n <= k, Backed(h, r, n)
    PROVE  Backed(g, r, k)
<1>1. Ask!Yes(r.decision) => \E m \in 1..k : m \in g.yes
  BY DEF Grows, Backed
<1>2. ASSUME r.answer # {}, ~g.crossed PROVE \E m \in 1..k : r.answer = g.picked[m]
  <2>1. PICK m \in 1..n : r.answer = h.picked[m]
    BY <1>2 DEF Grows, Backed
  <2>2. m \in Ask!Holds /\ m \in 1..k
    BY DEF Ask!Holds
  <2>3. g.picked[m] = h.picked[m]
    BY <1>2, <2>1, <2>2 DEF Grows
  <2>4. QED
    BY <2>1, <2>2, <2>3
<1>3. QED
  BY <1>1, <1>2 DEF Backed

\* What a step writes is what was there, nothing, or backed.
HeardHeld ==
    \A n \in Ask!Holds : heard'[n] \in {heard[n], None}
        \/ (n <= ask'.n /\ Backed(past', heard'[n], n))

FileHeld ==
    \A n \in Ask!Holds : file'[n] \in {file[n], None} \/ Backed(past', file'[n], ask'.n)

ResultHeld ==
    gate'.result \in {gate.result, None} \/ Backed(past', gate'.result, ask'.n)

OpsHeld ==
    \A a \in Ask!Actors : op'[a].step \in {"merge", "file", "run"} =>
        \/ op[a].step \in {"merge", "file", "run"} /\ op'[a].said = op[a].said
        \/ Backed(past', op'[a].said, ask'.n)

(* HeardAt: what a worker hears of one hold is what is backed.              *)
LEMMA HeardAt ==
    ASSUME AskHoldTyped, NEW k \in Nat, NEW r, heard' = [heard EXCEPT ![k] = r],
           k <= ask'.n, Backed(past', r, k)
    PROVE  HeardHeld
<1> SUFFICES ASSUME NEW n \in Ask!Holds
             PROVE  heard'[n] \in {heard[n], None}
                       \/ (n <= ask'.n /\ Backed(past', heard'[n], n))
  BY DEF HeardHeld
<1>1. heard'[n] = IF n = k THEN r ELSE heard[n]
  BY DEF AskHoldTyped
<1>2. QED
  BY <1>1

(* FileAt: and so is what is filed for it.                                  *)
LEMMA FileAt ==
    ASSUME AskHoldTyped, NEW k \in Nat, NEW r, file' = [file EXCEPT ![k] = r],
           Backed(past', r, ask'.n)
    PROVE  FileHeld
<1> SUFFICES ASSUME NEW n \in Ask!Holds
             PROVE  file'[n] \in {file[n], None} \/ Backed(past', file'[n], ask'.n)
  BY DEF FileHeld
<1>1. file'[n] = IF n = k THEN r ELSE file[n]
  BY DEF AskHoldTyped
<1>2. QED
  BY <1>1

(* HoldMoves: the worker moves on, and what is heard or filed is a reply.   *)
LEMMA HoldMoves ==
    ASSUME AskHoldTyped, NEW k \in Nat, NEW r \in Ask!Replies,
           heard' = heard \/ heard' = [heard EXCEPT ![k] = r],
           file' = file \/ file' = [file EXCEPT ![k] = r],
           ask' = [n |-> ask'.n, kind |-> ask'.kind, step |-> ask'.step, age |-> ask'.age],
           ask'.n \in 0..MaxHolds, ask'.step # "off" => ask'.n \in Ask!Holds,
           ask'.step \in {"off", "raise", "paint", "wait", "expire"}
    PROVE  AskHoldTyped'
<1>1. heard' = [n \in Ask!Holds |-> heard'[n]] /\ file' = [n \in Ask!Holds |-> file'[n]]
  BY DEF AskHoldTyped
<1>2. ASSUME NEW n \in Ask!Holds PROVE Replied(heard'[n]) /\ Replied(file'[n])
  <2>1. Replied(heard[n]) /\ Replied(file[n])
    BY DEF AskHoldTyped
  <2>2. heard'[n] \in {heard[n], r} /\ file'[n] \in {file[n], r}
    BY DEF AskHoldTyped
  <2>3. QED
    BY <2>1, <2>2 DEF Replied
<1>3. QED
  BY <1>1, <1>2 DEF AskHoldTyped

(* RepliesGrow: a step keeps the replies backed when those it makes are.    *)
LEMMA RepliesGrow ==
    ASSUME AskBounds, AskInv, Grows(past, past'), ask'.n \in 0..MaxHolds,
           ask.n <= ask'.n, HeardHeld, FileHeld, ResultHeld, OpsHeld
    PROVE  RepliesBacked'
<1>0. ask.n \in 0..MaxHolds /\ MaxHolds \in Nat /\ RepliesBacked
  BY DEF AskInv, AskTyped, AskHoldTyped, AskBounds
<1>1. ASSUME NEW n \in Ask!Holds
      PROVE  /\ heard'[n] # None => n <= ask'.n /\ Backed(past', heard'[n], n)
             /\ file'[n] # None => Backed(past', file'[n], ask'.n)
  <2>1. n \in 0..MaxHolds
    BY <1>0 DEF Ask!Holds
  <2>3. heard'[n] # None => n <= ask'.n /\ Backed(past', heard'[n], n)
    <3>1. CASE heard'[n] = heard[n]
      <4>1. heard[n] # None => n <= ask.n /\ Backed(past, heard[n], n)
        BY <1>0 DEF RepliesBacked
      <4>2. heard[n] # None => Backed(past', heard[n], n)
        BY <1>0, <2>1, <4>1, BackedGrows
      <4>3. QED
        BY <1>0, <2>1, <3>1, <4>1, <4>2
    <3>2. QED
      BY <3>1 DEF HeardHeld
  <2>4. file'[n] # None => Backed(past', file'[n], ask'.n)
    <3>1. CASE file'[n] = file[n]
      <4>1. file[n] # None => Backed(past, file[n], ask.n)
        BY <1>0 DEF RepliesBacked
      <4>2. QED
        BY <1>0, <3>1, <4>1, BackedGrows
    <3>2. QED
      BY <3>1 DEF FileHeld
  <2>5. QED
    BY <2>3, <2>4
<1>2. gate'.result # None => Backed(past', gate'.result, ask'.n)
  <2>1. CASE gate'.result = gate.result
    <3>1. gate.result # None => Backed(past, gate.result, ask.n)
      BY <1>0 DEF RepliesBacked
    <3>2. QED
      BY <1>0, <2>1, <3>1, BackedGrows
  <2>2. QED
    BY <2>1 DEF ResultHeld
<1>3. ASSUME NEW a \in Ask!Actors, op'[a].step \in {"merge", "file", "run"}
      PROVE  Backed(past', op'[a].said, ask'.n)
  <2>1. CASE op[a].step \in {"merge", "file", "run"} /\ op'[a].said = op[a].said
    <3>1. Backed(past, op[a].said, ask.n)
      BY <1>0, <2>1 DEF RepliesBacked
    <3>2. QED
      BY <1>0, <2>1, <3>1, BackedGrows
  <2>2. QED
    BY <1>3, <2>1 DEF OpsHeld
<1>4. QED
  BY <1>1, <1>2, <1>3 DEF RepliesBacked

(* SaidIsReply: what is said is a reply.                                    *)
LEMMA SaidIsReply ==
    ASSUME NEW d \in {"allow", "always", "deny"}, NEW c \in SUBSET Ask!Options
    PROVE  /\ Ask!Said(d, c) \in Ask!Replies
           /\ Ask!Said(d, c).decision = d /\ Ask!Said(d, c).answer = c
  BY DEF Ask!Said, Ask!Replies

(* RaisedGate: what parking writes.                                         *)
LEMMA RaisedGate ==
    ASSUME AskGateTyped, NEW g, g = Ask!Raised
    PROVE  /\ g = [awaiting |-> g.awaiting, approval |-> g.approval, kind |-> g.kind,
                   of |-> g.of, req |-> g.req, live |-> g.live,
                   selected |-> g.selected, result |-> g.result, aged |-> g.aged]
           /\ g.awaiting = TRUE /\ g.of = ask.n /\ g.kind = ask.kind /\ g.result = None
           /\ g.req \in {gate.req, ask.n} /\ g.selected \in {gate.selected, {}}
           /\ g.kind # "plan" => g.selected = {}
<1>1. CASE ask.kind = "plan"
  <2>1. g = [gate EXCEPT !.awaiting = TRUE, !.approval = TRUE, !.aged = FALSE,
                         !.kind = ask.kind, !.of = ask.n, !.result = None]
    BY <1>1 DEF Ask!Raised, Ask!Parked
  <2>2. QED
    BY <1>1, <2>1 DEF AskGateTyped
<1>2. CASE ask.kind # "plan"
  <2>1. g = [[gate EXCEPT !.awaiting = TRUE, !.approval = TRUE, !.aged = FALSE,
                          !.kind = ask.kind, !.of = ask.n, !.result = None]
                EXCEPT !.req = ask.n, !.live = TRUE, !.selected = {}]
    BY <1>2 DEF Ask!Raised, Ask!Parked, Ask!ParkedLive
  <2>2. g = [awaiting |-> TRUE, approval |-> TRUE, kind |-> ask.kind, of |-> ask.n,
             req |-> ask.n, live |-> TRUE, selected |-> {}, result |-> None, aged |-> FALSE]
    BY <2>1 DEF AskGateTyped
  <2>3. QED
    BY <2>2
<1>3. QED
  BY <1>1, <1>2

(* OpMoves: one thread moves on in what it does.                            *)
LEMMA OpMoves ==
    ASSUME AskOpTyped, NEW a \in Ask!Actors, NEW o, op' = [op EXCEPT ![a] = o],
           IsOp(o), gate.of \in Nat, gate'.of \in Nat, gate.of <= gate'.of,
           ask.n \in Nat, ask'.n \in Nat, ask.n <= ask'.n,
           o.of \in 0..gate'.of, o.req \in 0..ask'.n, o.chosen \subseteq Ask!Options,
           o.step \in {"merge", "file", "run"} => o.said \in Ask!Replies
    PROVE  /\ AskOpTyped'
           /\ op'[a] = o /\ \A b \in Ask!Actors \ {a} : op'[b] = op[b]
<1>1. op'[a] = o /\ \A b \in Ask!Actors \ {a} : op'[b] = op[b]
  BY DEF AskOpTyped
<1>2. op' = [b \in Ask!Actors |-> op'[b]]
  BY DEF AskOpTyped
<1>3. ASSUME NEW b \in Ask!Actors
      PROVE  /\ IsOp(op'[b]) /\ op'[b].of \in 0..gate'.of /\ op'[b].req \in 0..ask'.n
             /\ op'[b].chosen \subseteq Ask!Options
             /\ op'[b].step \in {"merge", "file", "run"} => op'[b].said \in Ask!Replies
  <2>1. CASE b = a
    BY <1>1, <2>1
  <2>2. CASE b # a
    <3>1. op'[b] = op[b]
      BY <1>1, <2>2
    <3>2. /\ IsOp(op[b]) /\ op[b].of \in 0..gate.of /\ op[b].req \in 0..ask.n
          /\ op[b].chosen \subseteq Ask!Options
          /\ op[b].step \in {"merge", "file", "run"} => op[b].said \in Ask!Replies
      BY DEF AskOpTyped
    <3>3. op[b].of \in 0..gate'.of /\ op[b].req \in 0..ask'.n
      BY <3>2
    <3>4. QED
      BY <3>1, <3>2, <3>3
  <2>3. QED
    BY <2>1, <2>2
<1>4. QED
  BY <1>1, <1>2, <1>3 DEF AskOpTyped

(* Toggling: what the phone is in the middle of when it ticks options.      *)
LEMMA Toggling ==
    ASSUME NEW k, NEW c, NEW o,
           o = [Ask!IdleOp EXCEPT !.step = "toggle", !.of = k, !.chosen = c]
    PROVE  o = OpOf("toggle", None, FALSE, 0, k, c)
<1> USE DEF OpOf, Stepped, NoOp
<1>1. /\ o.step = "toggle" /\ o.said = None /\ o.live = FALSE /\ o.req = 0 /\ o.of = k
      /\ o.chosen = c
  BY DEF Ask!IdleOp
<1>2. IsOp(o)
  BY DEF Ask!IdleOp, IsOp
<1>3. QED
  BY <1>1, <1>2 DEF IsOp

(* Parking: and the loop when it parks a run for a hold.                    *)
LEMMA Parking ==
    ASSUME NEW k, NEW c, NEW o,
           o = [Ask!IdleOp EXCEPT !.step = "park", !.of = k, !.said = c]
    PROVE  o = OpOf("park", c, FALSE, 0, k, {})
<1> USE DEF OpOf, Stepped, NoOp
<1>1. /\ o.step = "park" /\ o.said = c /\ o.live = FALSE /\ o.req = 0 /\ o.of = k
      /\ o.chosen = {}
  BY DEF Ask!IdleOp
<1>2. IsOp(o)
  BY DEF Ask!IdleOp, IsOp
<1>3. QED
  BY <1>1, <1>2 DEF IsOp

(* GrowsNot: a step that leaves the history alone adds nothing to it.       *)
LEMMA GrowsNot == UNCHANGED past => Grows(past, past')
  BY DEF Grows

(* AskStep: no step makes a reply nobody gave.                              *)
LEMMA AskStep ==
    ASSUME AskBounds PROVE AskInv /\ [Ask!Next]_(Ask!vars) => AskInv'
<1> USE DEF OpOf, Stepped, NoOp
<1> SUFFICES ASSUME AskInv, [Ask!Next]_(Ask!vars) PROVE AskInv'
  OBVIOUS
<1>0. /\ AskHoldTyped /\ AskGateTyped /\ AskOpTyped /\ HistoryTyped /\ RepliesBacked /\ CardTrue
      /\ MaxHolds \in Nat /\ None \notin Ask!Replies
  BY DEF AskInv, AskTyped, AskBounds
<1>1. ASSUME NEW k \in Kinds, Ask!Call(k)
      PROVE  AskInv'
  <2>1. /\ ask.step = "off" /\ ask.n < MaxHolds
        /\ ask' = [n |-> ask.n + 1, kind |-> k, step |-> "raise", age |-> "fresh"]
        /\ UNCHANGED <<heard, file, gate, card, op, past>>
    BY <1>0, <1>1 DEF Ask!Call
  <2>10. AskHoldTyped'
    BY <1>0, <2>1 DEF AskHoldTyped, Ask!Holds
  <2>11. AskGateTyped'
    BY <1>0, <2>1 DEF AskHoldTyped, AskGateTyped, AskOpTyped, Replied, CardTrue
  <2>12. AskOpTyped'
    BY <1>0, <2>1 DEF AskHoldTyped, AskGateTyped, AskOpTyped, IsOp
  <2>13. HistoryTyped'
    BY <1>0, <2>1 DEF AskHoldTyped, AskGateTyped, HistoryTyped, Ask!Holds
  <2>14. Grows(past, past')
    BY <2>1, GrowsNot
  <2>15. RepliesBacked'
    <3>1. HeardHeld /\ FileHeld /\ ResultHeld /\ OpsHeld
      BY <2>1 DEF HeardHeld, FileHeld, ResultHeld, OpsHeld
    <3>2. ask'.n \in 0..MaxHolds /\ ask.n <= ask'.n
      BY <1>0, <2>1 DEF AskHoldTyped
    <3>3. QED
      BY <2>14, <3>1, <3>2, RepliesGrow
  <2>16. CardTrue'
    BY <1>0, <2>1 DEF AskHoldTyped, AskGateTyped, AskOpTyped, HistoryTyped, CardTrue,
        ParkedOnce, Ticked, Untouched, Ask!Actors, Ask!Holds
  <2>17. QED
    BY <2>10, <2>11, <2>12, <2>13, <2>15, <2>16 DEF AskInv, AskTyped
<1>2. ASSUME NEW d \in {"allow", "deny"}, Ask!CallDecided(d)
      PROVE  AskInv'
  <2>0. Ask!Said(d, {}) \in Ask!Replies /\ Ask!Said(d, {}).decision = d
        /\ Ask!Said(d, {}).answer = {}
    BY SaidIsReply
  <2>1. /\ ask.step = "off" /\ ask.n < MaxHolds
        /\ ask' = [n |-> ask.n + 1, kind |-> None, step |-> "off", age |-> "fresh"]
        /\ heard' = [heard EXCEPT ![ask.n + 1] = Ask!Said(d, {})]
        /\ past' = [past EXCEPT !.yes = IF Ask!Yes(d) THEN @ \cup {ask.n + 1} ELSE @]
        /\ UNCHANGED <<file, gate, card, op>>
    BY <1>0, <1>2 DEF Ask!CallDecided, HistoryTyped
  <2>2. /\ past' = [yes |-> past'.yes, picked |-> past.picked, crossed |-> past.crossed]
        /\ past'.yes = IF Ask!Yes(d) THEN past.yes \cup {ask.n + 1} ELSE past.yes
    BY <1>0, <2>1 DEF HistoryTyped
  <2>10. AskHoldTyped'
    <3>1. /\ ask'.n \in 0..MaxHolds /\ (ask'.step # "off" => ask'.n \in Ask!Holds)
          /\ ask'.step \in {"off", "raise", "paint", "wait", "expire"}
      BY <1>0, <2>1 DEF AskHoldTyped, Ask!Holds
    <3>2. ask.n + 1 \in Nat
      BY <1>0, <2>1 DEF AskHoldTyped, AskOpTyped
    <3>3. QED
      BY <1>0, <2>1, <2>0, <3>1, <3>2, HoldMoves
  <2>11. AskGateTyped'
    BY <1>0, <2>1, <2>0 DEF AskHoldTyped, AskGateTyped, AskOpTyped, Replied, CardTrue
  <2>12. AskOpTyped'
    BY <1>0, <2>1, <2>0 DEF AskHoldTyped, AskGateTyped, AskOpTyped, IsOp
  <2>13. HistoryTyped'
    <3>1. past'.yes \subseteq 1..ask'.n
      BY <1>0, <2>1, <2>2 DEF HistoryTyped, AskHoldTyped
    <3>2. QED
      BY <1>0, <2>2, <3>1 DEF HistoryTyped
  <2>14. Grows(past, past')
    BY <1>0, <2>1, <2>0 DEF HistoryTyped, Grows
  <2>15. RepliesBacked'
    <3>1. HeardHeld
      <4>1. Backed(past', Ask!Said(d, {}), ask.n + 1)
          <5>1. Ask!Yes(d) => ask.n + 1 \in 1..(ask.n + 1) /\ ask.n + 1 \in past'.yes
            BY <1>0, <2>2 DEF AskHoldTyped
          <5>2. QED
            BY <2>0, <5>1 DEF Backed
      <4>2. ask.n + 1 \in Nat /\ ask.n + 1 <= ask'.n /\ ask'.n = ask.n + 1
        BY <1>0, <2>1 DEF AskHoldTyped
      <4>3. QED
        BY <1>0, <2>1, <4>1, <4>2, HeardAt
    <3>2. FileHeld /\ ResultHeld /\ OpsHeld
      BY <2>1 DEF FileHeld, ResultHeld, OpsHeld
    <3>3. ask'.n \in 0..MaxHolds /\ ask.n <= ask'.n
      BY <1>0, <2>1 DEF AskHoldTyped
    <3>4. QED
      BY <2>14, <3>1, <3>2, <3>3, RepliesGrow
  <2>16. CardTrue'
    BY <1>0, <2>1, <2>0 DEF AskHoldTyped, AskGateTyped, AskOpTyped, HistoryTyped, CardTrue,
        ParkedOnce, Ticked, Untouched, Ask!Actors, Ask!Holds
  <2>17. QED
    BY <2>10, <2>11, <2>12, <2>13, <2>15, <2>16 DEF AskInv, AskTyped
<1>3. CASE Ask!Raise
  <2>1. /\ ask.step = "raise"
        /\ gate' = Ask!Raised
        /\ ask' = [n |-> ask.n, kind |-> ask.kind, step |-> "paint", age |-> ask.age]
        /\ past' = [past EXCEPT !.crossed = @ \/ gate.of = ask.n]
        /\ UNCHANGED <<heard, file, card, op>>
    BY <1>0, <1>3 DEF Ask!Raise, AskHoldTyped
  <2>2. gate' = [awaiting |-> gate'.awaiting, approval |-> gate'.approval, kind
          |-> gate'.kind, of |-> gate'.of, req |-> gate'.req, live |-> gate'.live, selected
          |-> gate'.selected, result |-> gate'.result, aged |-> gate'.aged]
    BY <1>0, <2>1, RaisedGate
  <2>3. /\ gate'.awaiting = TRUE /\ gate'.of = ask.n /\ gate'.kind = ask.kind
             /\ gate'.result = None
        /\ gate'.req \in {gate.req, ask.n} /\ gate'.selected \in {gate.selected, {}}
        /\ gate'.kind # "plan" => gate'.selected = {}
    BY <1>0, <2>1, RaisedGate
  <2>10. AskHoldTyped'
    BY <1>0, <2>1 DEF AskHoldTyped, Ask!Holds
  <2>11. AskGateTyped'
    <3>1. ask'.n = ask.n /\ ask.n \in Nat /\ card' = card
      BY <1>0, <2>1 DEF AskHoldTyped
    <3>0. ask.n # 0 /\ ask.n \in 0..ask.n
      BY <1>0, <2>1 DEF AskHoldTyped, Ask!Holds
    <3>2. /\ gate'.awaiting \in BOOLEAN /\ gate'.of # 0
          /\ gate'.of \in 0..ask.n /\ gate'.req \in 0..ask.n
      BY <1>0, <2>3, <3>0 DEF AskGateTyped
    <3>5. gate'.selected \subseteq Ask!Options /\ Replied(gate'.result)
      BY <1>0, <2>3 DEF AskGateTyped, Replied
    <3>3. card.of \in 0..gate'.of
      BY <1>0, <2>3, <3>1 DEF AskGateTyped
    <3>4. QED
      BY <2>2, <3>1, <3>2, <3>3, <3>5 DEF AskGateTyped
  <2>12. AskOpTyped'
    BY <1>0, <2>1, <2>3 DEF AskHoldTyped, AskGateTyped, AskOpTyped, IsOp
  <2>13. HistoryTyped'
    BY <1>0, <2>1, <2>3 DEF AskHoldTyped, AskGateTyped, HistoryTyped, Ask!Holds
  <2>14. Grows(past, past')
    BY <1>0, <2>1, <2>3 DEF HistoryTyped, Grows
  <2>15. RepliesBacked'
    <3>1. ResultHeld
      BY <2>3 DEF ResultHeld
    <3>2. HeardHeld /\ FileHeld /\ OpsHeld
      BY <2>1 DEF HeardHeld, FileHeld, OpsHeld
    <3>3. ask'.n \in 0..MaxHolds /\ ask.n <= ask'.n
      BY <1>0, <2>1 DEF AskHoldTyped
    <3>4. QED
      BY <2>14, <3>1, <3>2, <3>3, RepliesGrow
  <2>16. CardTrue'
    <3>1. past'.picked = past.picked /\ (~past'.crossed => ~past.crossed /\ gate.of # ask.n)
      BY <1>0, <2>1 DEF HistoryTyped
    <3>2. ASSUME ~past'.crossed PROVE gate.of < ask.n
      BY <1>0, <3>1, <3>2 DEF AskHoldTyped, AskGateTyped
    <3>3. ASSUME ~past'.crossed PROVE Untouched' /\ Ticked'
      <4>1. card.of < ask.n /\ op["phone"].of < ask.n
        BY <1>0, <3>2, <3>3 DEF AskHoldTyped, AskGateTyped, AskOpTyped, Ask!Actors
      <4>2. QED
        BY <1>0, <2>1, <2>3, <4>1 DEF Untouched, Ticked, AskHoldTyped
    <3>4. ASSUME ~past'.crossed PROVE ParkedOnce'
      <4>1. op["loop"].of # ask.n /\ ask'.n = ask.n
        BY <2>1, <1>0, <3>2, <3>4 DEF AskHoldTyped, AskGateTyped, AskOpTyped, Ask!Actors
      <4>2. \A m \in Ask!Holds : past.picked[m] # {} => m <= gate.of
        BY <1>0, <3>1, <3>4 DEF CardTrue, ParkedOnce
      <4>3. ask.n \in Ask!Holds /\ past.picked[ask.n] = {}
        BY <1>0, <2>1, <3>2, <3>4, <4>2 DEF AskHoldTyped, AskGateTyped
      <4>4. \A m \in Ask!Holds : past.picked[m] # {} => m <= ask.n
        BY <1>0, <3>2, <3>4, <4>2 DEF AskHoldTyped, AskGateTyped, Ask!Holds
      <4>5. QED
        BY <2>1, <2>3, <3>1, <4>1, <4>3, <4>4 DEF ParkedOnce
    <3>5. QED
      BY <2>1, <2>3, <3>3, <3>4 DEF CardTrue
  <2>17. QED
    BY <2>10, <2>11, <2>12, <2>13, <2>15, <2>16 DEF AskInv, AskTyped
<1>4. CASE Ask!RaiseRefused
  <2>0. Ask!Said("deny", {}) \in Ask!Replies /\ Ask!Said("deny", {}).decision = "deny"
        /\ Ask!Said("deny", {}).answer = {}
    BY SaidIsReply
  <2>1. /\ ask.step = "raise"
        /\ file' = [file EXCEPT ![ask.n] = Ask!Said("deny", {})]
        /\ heard' = [heard EXCEPT ![ask.n] = Ask!Said("deny", {})]
        /\ ask' = [n |-> ask.n, kind |-> ask.kind, step |-> "off", age |-> ask.age]
        /\ UNCHANGED <<gate, card, op, past>>
    BY <1>0, <1>4 DEF Ask!RaiseRefused, Ask!Hears, AskHoldTyped
  <2>10. AskHoldTyped'
    <3>1. /\ ask'.n \in 0..MaxHolds /\ (ask'.step # "off" => ask'.n \in Ask!Holds)
          /\ ask'.step \in {"off", "raise", "paint", "wait", "expire"}
      BY <1>0, <2>1 DEF AskHoldTyped, Ask!Holds
    <3>2. ask.n \in Nat
      BY <1>0, <2>1 DEF AskHoldTyped, AskOpTyped
    <3>3. QED
      BY <1>0, <2>1, <2>0, <3>1, <3>2, HoldMoves
  <2>11. AskGateTyped'
    BY <1>0, <2>1, <2>0 DEF AskHoldTyped, AskGateTyped, AskOpTyped, Replied, CardTrue
  <2>12. AskOpTyped'
    BY <1>0, <2>1, <2>0 DEF AskHoldTyped, AskGateTyped, AskOpTyped, IsOp
  <2>13. HistoryTyped'
    BY <1>0, <2>1, <2>0 DEF AskHoldTyped, AskGateTyped, HistoryTyped, Ask!Holds
  <2>14. Grows(past, past')
    BY <2>1, GrowsNot
  <2>15. RepliesBacked'
    <3>1. HeardHeld
      <4>1. Backed(past', Ask!Said("deny", {}), ask.n)
        BY <2>0 DEF Backed, Ask!Yes
      <4>2. ask.n \in Nat /\ ask.n <= ask'.n /\ ask'.n = ask.n
        BY <1>0, <2>1 DEF AskHoldTyped
      <4>3. QED
        BY <1>0, <2>1, <4>1, <4>2, HeardAt
    <3>2. FileHeld
      <4>1. Backed(past', Ask!Said("deny", {}), ask.n)
        BY <2>0 DEF Backed, Ask!Yes
      <4>2. ask.n \in Nat /\ ask.n <= ask'.n /\ ask'.n = ask.n
        BY <1>0, <2>1 DEF AskHoldTyped
      <4>3. QED
        BY <1>0, <2>1, <4>1, <4>2, FileAt
    <3>3. ResultHeld /\ OpsHeld
      BY <2>1 DEF ResultHeld, OpsHeld
    <3>4. ask'.n \in 0..MaxHolds /\ ask.n <= ask'.n
      BY <1>0, <2>1 DEF AskHoldTyped
    <3>5. QED
      BY <2>14, <3>1, <3>2, <3>3, <3>4, RepliesGrow
  <2>16. CardTrue'
    BY <1>0, <2>1, <2>0 DEF AskHoldTyped, AskGateTyped, AskOpTyped, HistoryTyped, CardTrue,
        ParkedOnce, Ticked, Untouched, Ask!Actors, Ask!Holds
  <2>17. QED
    BY <2>10, <2>11, <2>12, <2>13, <2>15, <2>16 DEF AskInv, AskTyped
<1>5. CASE Ask!Paint
  <2>1. /\ ask.step = "paint"
        /\ card' = Ask!Fresh
        /\ ask' = [n |-> ask.n, kind |-> ask.kind, step |-> "wait", age |-> ask.age]
        /\ UNCHANGED <<heard, file, gate, op, past>>
    BY <1>0, <1>5 DEF Ask!Paint, AskHoldTyped
  <2>10. AskHoldTyped'
    BY <1>0, <2>1 DEF AskHoldTyped, Ask!Holds
  <2>11. AskGateTyped'
    BY <1>0, <2>1 DEF AskHoldTyped, AskGateTyped, AskOpTyped, Replied, CardTrue, Ask!Fresh
  <2>12. AskOpTyped'
    BY <1>0, <2>1 DEF AskHoldTyped, AskGateTyped, AskOpTyped, IsOp, Ask!Fresh
  <2>13. HistoryTyped'
    BY <1>0, <2>1 DEF AskHoldTyped, AskGateTyped, HistoryTyped, Ask!Holds, Ask!Fresh
  <2>14. Grows(past, past')
    BY <2>1, GrowsNot
  <2>15. RepliesBacked'
    <3>1. HeardHeld /\ FileHeld /\ ResultHeld /\ OpsHeld
      BY <2>1 DEF HeardHeld, FileHeld, ResultHeld, OpsHeld
    <3>2. ask'.n \in 0..MaxHolds /\ ask.n <= ask'.n
      BY <1>0, <2>1 DEF AskHoldTyped
    <3>3. QED
      BY <2>14, <3>1, <3>2, RepliesGrow
  <2>16. CardTrue'
    BY <1>0, <2>1 DEF AskHoldTyped, AskGateTyped, AskOpTyped, HistoryTyped, CardTrue,
        ParkedOnce, Ticked, Untouched, Ask!Actors, Ask!Holds, Ask!Fresh
  <2>17. QED
    BY <2>10, <2>11, <2>12, <2>13, <2>15, <2>16 DEF AskInv, AskTyped
<1>6. CASE Ask!Hear
  <2>1. /\ ask.step = "wait" /\ file[ask.n] # None
        /\ heard' = [heard EXCEPT ![ask.n] = file[ask.n]]
        /\ ask' = [n |-> ask.n, kind |-> ask.kind, step |-> "off", age |-> ask.age]
        /\ UNCHANGED <<file, gate, card, op, past>>
    BY <1>0, <1>6 DEF Ask!Hear, Ask!Hears, AskHoldTyped
  <2>2. file[ask.n] \in Ask!Replies
    BY <1>0, <2>1 DEF AskHoldTyped, Replied
  <2>10. AskHoldTyped'
    <3>1. /\ ask'.n \in 0..MaxHolds /\ (ask'.step # "off" => ask'.n \in Ask!Holds)
          /\ ask'.step \in {"off", "raise", "paint", "wait", "expire"}
      BY <1>0, <2>1 DEF AskHoldTyped, Ask!Holds
    <3>2. ask.n \in Nat
      BY <1>0, <2>1 DEF AskHoldTyped, AskOpTyped
    <3>3. QED
      BY <1>0, <2>1, <2>2, <3>1, <3>2, HoldMoves
  <2>11. AskGateTyped'
    BY <1>0, <2>1 DEF AskHoldTyped, AskGateTyped, AskOpTyped, Replied, CardTrue
  <2>12. AskOpTyped'
    BY <1>0, <2>1 DEF AskHoldTyped, AskGateTyped, AskOpTyped, IsOp
  <2>13. HistoryTyped'
    BY <1>0, <2>1 DEF AskHoldTyped, AskGateTyped, HistoryTyped, Ask!Holds
  <2>14. Grows(past, past')
    BY <2>1, GrowsNot
  <2>15. RepliesBacked'
    <3>1. HeardHeld
      <4>1. Backed(past', file[ask.n], ask.n)
        BY <1>0, <2>1 DEF RepliesBacked, AskHoldTyped
      <4>2. ask.n \in Nat /\ ask.n <= ask'.n /\ ask'.n = ask.n
        BY <1>0, <2>1 DEF AskHoldTyped
      <4>3. QED
        BY <1>0, <2>1, <4>1, <4>2, HeardAt
    <3>2. FileHeld /\ ResultHeld /\ OpsHeld
      BY <2>1 DEF FileHeld, ResultHeld, OpsHeld
    <3>3. ask'.n \in 0..MaxHolds /\ ask.n <= ask'.n
      BY <1>0, <2>1 DEF AskHoldTyped
    <3>4. QED
      BY <2>14, <3>1, <3>2, <3>3, RepliesGrow
  <2>16. CardTrue'
    BY <1>0, <2>1 DEF AskHoldTyped, AskGateTyped, AskOpTyped, HistoryTyped, CardTrue,
        ParkedOnce, Ticked, Untouched, Ask!Actors, Ask!Holds
  <2>17. QED
    BY <2>10, <2>11, <2>12, <2>13, <2>15, <2>16 DEF AskInv, AskTyped
<1>7. CASE Ask!Poll
  <2> DEFINE heeded == IF ask.kind = "plan" /\ gate.result.decision = "always"
                    THEN [gate.result EXCEPT !.decision = "allow"] ELSE gate.result
  <2>2. gate.result # None
    BY <1>7 DEF Ask!Poll
  <2>3. gate.result \in Ask!Replies /\ Backed(past, gate.result, ask.n)
    BY <1>0, <2>2 DEF AskGateTyped, Replied, RepliesBacked
  <2>4. heeded \in Ask!Replies
    BY <2>3 DEF Ask!Replies
  <2>5. Backed(past, heeded, ask.n)
    <3>1. heeded.answer = gate.result.answer
          /\ (Ask!Yes(heeded.decision) => Ask!Yes(gate.result.decision))
      BY <2>3 DEF Ask!Replies, Ask!Yes
    <3>2. QED
      BY <2>3, <3>1 DEF Backed
  <2> HIDE DEF heeded
  <2>1. /\ ask.step = "wait" /\ file[ask.n] = None /\ gate.result # None
        /\ file' = [file EXCEPT ![ask.n] = heeded] /\ heard' = [heard EXCEPT ![ask.n] = heeded]
        /\ ask' = [n |-> ask.n, kind |-> ask.kind, step |-> "off", age |-> ask.age]
        /\ UNCHANGED <<gate, card, op, past>>
    BY <1>0, <1>7 DEF heeded, Ask!Poll, Ask!Hears, AskHoldTyped
  <2>10. AskHoldTyped'
    <3>1. /\ ask'.n \in 0..MaxHolds /\ (ask'.step # "off" => ask'.n \in Ask!Holds)
          /\ ask'.step \in {"off", "raise", "paint", "wait", "expire"}
      BY <1>0, <2>1 DEF AskHoldTyped, Ask!Holds
    <3>2. ask.n \in Nat
      BY <1>0, <2>1 DEF AskHoldTyped, AskOpTyped
    <3>3. QED
      BY <1>0, <2>1, <2>4, <3>1, <3>2, HoldMoves
  <2>11. AskGateTyped'
    BY <1>0, <2>1, <2>4 DEF AskHoldTyped, AskGateTyped, AskOpTyped, Replied, CardTrue
  <2>12. AskOpTyped'
    BY <1>0, <2>1, <2>4 DEF AskHoldTyped, AskGateTyped, AskOpTyped, IsOp
  <2>13. HistoryTyped'
    BY <1>0, <2>1, <2>4 DEF AskHoldTyped, AskGateTyped, HistoryTyped, Ask!Holds
  <2>14. Grows(past, past')
    BY <2>1, GrowsNot
  <2>15. RepliesBacked'
    <3>1. HeardHeld
      <4>1. Backed(past', heeded, ask.n)
        BY <2>1, <2>5
      <4>2. ask.n \in Nat /\ ask.n <= ask'.n /\ ask'.n = ask.n
        BY <1>0, <2>1 DEF AskHoldTyped
      <4>3. QED
        BY <1>0, <2>1, <4>1, <4>2, HeardAt
    <3>2. FileHeld
      <4>1. Backed(past', heeded, ask.n)
        BY <2>1, <2>5
      <4>2. ask.n \in Nat /\ ask.n <= ask'.n /\ ask'.n = ask.n
        BY <1>0, <2>1 DEF AskHoldTyped
      <4>3. QED
        BY <1>0, <2>1, <4>1, <4>2, FileAt
    <3>3. ResultHeld /\ OpsHeld
      BY <2>1 DEF ResultHeld, OpsHeld
    <3>4. ask'.n \in 0..MaxHolds /\ ask.n <= ask'.n
      BY <1>0, <2>1 DEF AskHoldTyped
    <3>5. QED
      BY <2>14, <3>1, <3>2, <3>3, <3>4, RepliesGrow
  <2>16. CardTrue'
    BY <1>0, <2>1, <2>4 DEF AskHoldTyped, AskGateTyped, AskOpTyped, HistoryTyped, CardTrue,
        ParkedOnce, Ticked, Untouched, Ask!Actors, Ask!Holds
  <2>17. QED
    BY <2>10, <2>11, <2>12, <2>13, <2>15, <2>16 DEF AskInv, AskTyped
<1>8. CASE Ask!Timeout /\ gate.awaiting
  <2>0. Ask!Said("deny", {}) \in Ask!Replies /\ Ask!Said("deny", {}).decision = "deny"
        /\ Ask!Said("deny", {}).answer = {}
    BY SaidIsReply
  <2>1. /\ ask.step = "wait"
        /\ file' = [file EXCEPT ![ask.n] = Ask!Said("deny", {})]
        /\ ask' = [n |-> ask.n, kind |-> ask.kind, step |-> "expire", age |-> ask.age]
        /\ op' = [op EXCEPT !["worker"] = Stepped("expire", op["worker"])]
        /\ UNCHANGED <<heard, gate, card, past>>
    <3>1. op["worker"] = Stepped(op["worker"].step, op["worker"]) /\ "worker" \in Ask!Actors
      BY <1>0 DEF AskOpTyped, IsOp, Ask!Actors
    <3>2. ask.step = "wait"
      BY <1>0, <3>1, <1>8 DEF Ask!Timeout
    <3>3. file' = [file EXCEPT ![ask.n] = Ask!Said("deny", {})]
      BY <1>0, <3>1, <1>8 DEF Ask!Timeout
    <3>4. ask' = [n |-> ask.n, kind |-> ask.kind, step |-> "expire", age |-> ask.age]
      BY <1>0, <3>1, <1>8 DEF Ask!Timeout, AskHoldTyped
    <3>5. op' = [op EXCEPT !["worker"] = Stepped("expire", op["worker"])]
      BY <1>0, <3>1, <1>8 DEF Ask!Timeout
    <3>6. UNCHANGED <<heard, gate, card, past>>
      BY <1>0, <3>1, <1>8 DEF Ask!Timeout
    <3>7. QED
      BY <3>2, <3>3, <3>4, <3>5, <3>6
  <2>3. AskOpTyped' /\ op'["worker"] = Stepped("expire", op["worker"])
        /\ \A b \in Ask!Actors \ {"worker"} : op'[b] = op[b]
    <3> DEFINE o == Stepped("expire", op["worker"])
    <3>1. IsOp(o)
      BY DEF IsOp
    <3>2. /\ o.of \in 0..gate'.of /\ o.req \in 0..ask'.n /\ o.chosen \subseteq Ask!Options
          /\ o.step \in {"merge", "file", "run"} => o.said \in Ask!Replies
      BY <1>0, <2>1 DEF AskHoldTyped, AskGateTyped, AskOpTyped, Ask!Actors
    <3>3. /\ gate.of \in Nat /\ gate'.of \in Nat /\ gate.of <= gate'.of
          /\ ask.n \in Nat /\ ask'.n \in Nat /\ ask.n <= ask'.n /\ "worker" \in Ask!Actors
      BY <1>0, <2>1 DEF AskHoldTyped, AskGateTyped, Ask!Actors
    <3>4. op' = [op EXCEPT !["worker"] = o]
      BY <2>1
    <3> HIDE DEF o
    <3>5. QED
      BY <1>0, <3>1, <3>2, <3>3, <3>4, OpMoves DEF o
  <2>10. AskHoldTyped'
    <3>1. /\ ask'.n \in 0..MaxHolds /\ (ask'.step # "off" => ask'.n \in Ask!Holds)
          /\ ask'.step \in {"off", "raise", "paint", "wait", "expire"}
      BY <1>0, <2>1 DEF AskHoldTyped, Ask!Holds
    <3>2. ask.n \in Nat
      BY <1>0, <2>1 DEF AskHoldTyped, AskOpTyped
    <3>3. QED
      BY <1>0, <2>1, <2>0, <3>1, <3>2, HoldMoves
  <2>11. AskGateTyped'
    BY <1>0, <2>1, <2>0, <2>3 DEF AskHoldTyped, AskGateTyped, AskOpTyped, Replied, CardTrue
  <2>12. AskOpTyped'
    BY <2>3
  <2>13. HistoryTyped'
    BY <1>0, <2>1, <2>0, <2>3 DEF AskHoldTyped, AskGateTyped, HistoryTyped, Ask!Holds
  <2>14. Grows(past, past')
    BY <2>1, GrowsNot
  <2>15. RepliesBacked'
    <3>1. FileHeld
      <4>1. Backed(past', Ask!Said("deny", {}), ask.n)
        BY <2>0 DEF Backed, Ask!Yes
      <4>2. ask.n \in Nat /\ ask.n <= ask'.n /\ ask'.n = ask.n
        BY <1>0, <2>1 DEF AskHoldTyped
      <4>3. QED
        BY <1>0, <2>1, <4>1, <4>2, FileAt
    <3>2. OpsHeld
      BY <1>0, <2>1, <2>3 DEF AskOpTyped, OpsHeld
    <3>3. HeardHeld /\ ResultHeld
      BY <2>1 DEF HeardHeld, ResultHeld
    <3>4. ask'.n \in 0..MaxHolds /\ ask.n <= ask'.n
      BY <1>0, <2>1 DEF AskHoldTyped
    <3>5. QED
      BY <2>14, <3>1, <3>2, <3>3, <3>4, RepliesGrow
  <2>16. CardTrue'
    BY <1>0, <2>1, <2>0, <2>3 DEF AskHoldTyped, AskGateTyped, AskOpTyped, HistoryTyped,
        CardTrue, ParkedOnce, Ticked, Untouched, Ask!Actors, Ask!Holds
  <2>17. QED
    BY <2>10, <2>11, <2>12, <2>13, <2>15, <2>16 DEF AskInv, AskTyped
<1>9. CASE Ask!Timeout /\ ~gate.awaiting
  <2>0. Ask!Said("deny", {}) \in Ask!Replies /\ Ask!Said("deny", {}).decision = "deny"
        /\ Ask!Said("deny", {}).answer = {}
    BY SaidIsReply
  <2>1. /\ ask.step = "wait"
        /\ file' = [file EXCEPT ![ask.n] = Ask!Said("deny", {})]
        /\ heard' = [heard EXCEPT ![ask.n] = Ask!Said("deny", {})]
        /\ ask' = [n |-> ask.n, kind |-> ask.kind, step |-> "off", age |-> ask.age]
        /\ UNCHANGED <<op, gate, card, past>>
    BY <1>0, <1>9 DEF Ask!Timeout, Ask!Hears, AskHoldTyped
  <2>10. AskHoldTyped'
    <3>1. /\ ask'.n \in 0..MaxHolds /\ (ask'.step # "off" => ask'.n \in Ask!Holds)
          /\ ask'.step \in {"off", "raise", "paint", "wait", "expire"}
      BY <1>0, <2>1 DEF AskHoldTyped, Ask!Holds
    <3>2. ask.n \in Nat
      BY <1>0, <2>1 DEF AskHoldTyped, AskOpTyped
    <3>3. QED
      BY <1>0, <2>1, <2>0, <3>1, <3>2, HoldMoves
  <2>11. AskGateTyped'
    BY <1>0, <2>1, <2>0 DEF AskHoldTyped, AskGateTyped, AskOpTyped, Replied, CardTrue
  <2>12. AskOpTyped'
    BY <1>0, <2>1, <2>0 DEF AskHoldTyped, AskGateTyped, AskOpTyped, IsOp
  <2>13. HistoryTyped'
    BY <1>0, <2>1, <2>0 DEF AskHoldTyped, AskGateTyped, HistoryTyped, Ask!Holds
  <2>14. Grows(past, past')
    BY <2>1, GrowsNot
  <2>15. RepliesBacked'
    <3>1. HeardHeld
      <4>1. Backed(past', Ask!Said("deny", {}), ask.n)
        BY <2>0 DEF Backed, Ask!Yes
      <4>2. ask.n \in Nat /\ ask.n <= ask'.n /\ ask'.n = ask.n
        BY <1>0, <2>1 DEF AskHoldTyped
      <4>3. QED
        BY <1>0, <2>1, <4>1, <4>2, HeardAt
    <3>2. FileHeld
      <4>1. Backed(past', Ask!Said("deny", {}), ask.n)
        BY <2>0 DEF Backed, Ask!Yes
      <4>2. ask.n \in Nat /\ ask.n <= ask'.n /\ ask'.n = ask.n
        BY <1>0, <2>1 DEF AskHoldTyped
      <4>3. QED
        BY <1>0, <2>1, <4>1, <4>2, FileAt
    <3>3. ResultHeld /\ OpsHeld
      BY <2>1 DEF ResultHeld, OpsHeld
    <3>4. ask'.n \in 0..MaxHolds /\ ask.n <= ask'.n
      BY <1>0, <2>1 DEF AskHoldTyped
    <3>5. QED
      BY <2>14, <3>1, <3>2, <3>3, <3>4, RepliesGrow
  <2>16. CardTrue'
    BY <1>0, <2>1, <2>0 DEF AskHoldTyped, AskGateTyped, AskOpTyped, HistoryTyped, CardTrue,
        ParkedOnce, Ticked, Untouched, Ask!Actors, Ask!Holds
  <2>17. QED
    BY <2>10, <2>11, <2>12, <2>13, <2>15, <2>16 DEF AskInv, AskTyped
<1>10. CASE Ask!Expired
  <2>0. Ask!Said("deny", {}) \in Ask!Replies /\ Ask!Said("deny", {}).decision = "deny"
        /\ Ask!Said("deny", {}).answer = {}
    BY SaidIsReply
  <2>1. /\ ask.step = "expire"
        /\ heard' = [heard EXCEPT ![ask.n] = Ask!Said("deny", {})]
        /\ ask' = [n |-> ask.n, kind |-> ask.kind, step |-> "off", age |-> ask.age]
        /\ UNCHANGED <<op, file, gate, card, past>>
    BY <1>0, <1>10 DEF Ask!Expired, Ask!Hears, AskHoldTyped
  <2>10. AskHoldTyped'
    <3>1. /\ ask'.n \in 0..MaxHolds /\ (ask'.step # "off" => ask'.n \in Ask!Holds)
          /\ ask'.step \in {"off", "raise", "paint", "wait", "expire"}
      BY <1>0, <2>1 DEF AskHoldTyped, Ask!Holds
    <3>2. ask.n \in Nat
      BY <1>0, <2>1 DEF AskHoldTyped, AskOpTyped
    <3>3. QED
      BY <1>0, <2>1, <2>0, <3>1, <3>2, HoldMoves
  <2>11. AskGateTyped'
    BY <1>0, <2>1, <2>0 DEF AskHoldTyped, AskGateTyped, AskOpTyped, Replied, CardTrue
  <2>12. AskOpTyped'
    BY <1>0, <2>1, <2>0 DEF AskHoldTyped, AskGateTyped, AskOpTyped, IsOp
  <2>13. HistoryTyped'
    BY <1>0, <2>1, <2>0 DEF AskHoldTyped, AskGateTyped, HistoryTyped, Ask!Holds
  <2>14. Grows(past, past')
    BY <2>1, GrowsNot
  <2>15. RepliesBacked'
    <3>1. HeardHeld
      <4>1. Backed(past', Ask!Said("deny", {}), ask.n)
        BY <2>0 DEF Backed, Ask!Yes
      <4>2. ask.n \in Nat /\ ask.n <= ask'.n /\ ask'.n = ask.n
        BY <1>0, <2>1 DEF AskHoldTyped
      <4>3. QED
        BY <1>0, <2>1, <4>1, <4>2, HeardAt
    <3>2. FileHeld /\ ResultHeld /\ OpsHeld
      BY <2>1 DEF FileHeld, ResultHeld, OpsHeld
    <3>3. ask'.n \in 0..MaxHolds /\ ask.n <= ask'.n
      BY <1>0, <2>1 DEF AskHoldTyped
    <3>4. QED
      BY <2>14, <3>1, <3>2, <3>3, RepliesGrow
  <2>16. CardTrue'
    BY <1>0, <2>1, <2>0 DEF AskHoldTyped, AskGateTyped, AskOpTyped, HistoryTyped, CardTrue,
        ParkedOnce, Ticked, Untouched, Ask!Actors, Ask!Holds
  <2>17. QED
    BY <2>10, <2>11, <2>12, <2>13, <2>15, <2>16 DEF AskInv, AskTyped
<1>11. CASE Ask!Age
  <2>1. /\ ask' = [n |-> ask.n, kind |-> ask.kind, step |-> ask.step, age |-> ask'.age]
        /\ UNCHANGED <<heard, file, gate, card, op, past>>
    BY <1>0, <1>11 DEF Ask!Age, AskHoldTyped
  <2>10. AskHoldTyped'
    BY <1>0, <2>1 DEF AskHoldTyped, Ask!Holds
  <2>11. AskGateTyped'
    BY <1>0, <2>1 DEF AskHoldTyped, AskGateTyped, AskOpTyped, Replied, CardTrue
  <2>12. AskOpTyped'
    BY <1>0, <2>1 DEF AskHoldTyped, AskGateTyped, AskOpTyped, IsOp
  <2>13. HistoryTyped'
    BY <1>0, <2>1 DEF AskHoldTyped, AskGateTyped, HistoryTyped, Ask!Holds
  <2>14. Grows(past, past')
    BY <2>1, GrowsNot
  <2>15. RepliesBacked'
    <3>1. HeardHeld /\ FileHeld /\ ResultHeld /\ OpsHeld
      BY <2>1 DEF HeardHeld, FileHeld, ResultHeld, OpsHeld
    <3>2. ask'.n \in 0..MaxHolds /\ ask.n <= ask'.n
      BY <1>0, <2>1 DEF AskHoldTyped
    <3>3. QED
      BY <2>14, <3>1, <3>2, RepliesGrow
  <2>16. CardTrue'
    BY <1>0, <2>1 DEF AskHoldTyped, AskGateTyped, AskOpTyped, HistoryTyped, CardTrue,
        ParkedOnce, Ticked, Untouched, Ask!Actors, Ask!Holds
  <2>17. QED
    BY <2>10, <2>11, <2>12, <2>13, <2>15, <2>16 DEF AskInv, AskTyped
<1>12. CASE Ask!AgeCard
  <2>1. /\ gate' = [awaiting |-> gate.awaiting, approval |-> gate.approval, kind
             |-> gate.kind, of |-> gate.of, req |-> gate.req, live |-> gate.live, selected
             |-> gate.selected, result |-> gate.result, aged |-> TRUE]
        /\ ask' = [n |-> ask.n, kind |-> ask.kind, step |-> ask.step, age |-> ask.age]
        /\ UNCHANGED <<heard, file, card, op, past>>
    BY <1>0, <1>12 DEF Ask!AgeCard, AskHoldTyped, AskGateTyped
  <2>10. AskHoldTyped'
    BY <1>0, <2>1 DEF AskHoldTyped, Ask!Holds
  <2>11. AskGateTyped'
    BY <1>0, <2>1 DEF AskHoldTyped, AskGateTyped, AskOpTyped, Replied, CardTrue
  <2>12. AskOpTyped'
    BY <1>0, <2>1 DEF AskHoldTyped, AskGateTyped, AskOpTyped, IsOp
  <2>13. HistoryTyped'
    BY <1>0, <2>1 DEF AskHoldTyped, AskGateTyped, HistoryTyped, Ask!Holds
  <2>14. Grows(past, past')
    BY <2>1, GrowsNot
  <2>15. RepliesBacked'
    <3>1. HeardHeld /\ FileHeld /\ ResultHeld /\ OpsHeld
      BY <2>1 DEF HeardHeld, FileHeld, ResultHeld, OpsHeld
    <3>2. ask'.n \in 0..MaxHolds /\ ask.n <= ask'.n
      BY <1>0, <2>1 DEF AskHoldTyped
    <3>3. QED
      BY <2>14, <3>1, <3>2, RepliesGrow
  <2>16. CardTrue'
    BY <1>0, <2>1 DEF AskHoldTyped, AskGateTyped, AskOpTyped, HistoryTyped, CardTrue,
        ParkedOnce, Ticked, Untouched, Ask!Actors, Ask!Holds
  <2>17. QED
    BY <2>10, <2>11, <2>12, <2>13, <2>15, <2>16 DEF AskInv, AskTyped
<1>13. ASSUME NEW a \in Ask!Actors, Ask!FinishMerge(a)
      PROVE  AskInv'
  <2>1. /\ op[a].step = "merge"
        /\ gate' = [awaiting |-> FALSE, approval |-> FALSE, kind |-> gate.kind, of
             |-> gate.of, req |-> gate.req, live |-> gate.live, selected |-> gate.selected,
             result |-> op[a].said, aged |-> gate.aged]
        /\ ask' = [n |-> ask.n, kind |-> ask.kind, step |-> ask.step, age |-> ask.age]
        /\ op' = [op EXCEPT ![a] = Stepped(IF op[a].live /\ op[a].req # 0 THEN "file"
             ELSE "run", op[a])]
        /\ UNCHANGED <<heard, file, card, past>>
    <3>1. op[a] = Stepped(op[a].step, op[a]) /\ a \in Ask!Actors
      BY <1>0 DEF AskOpTyped, IsOp, Ask!Actors
    <3>2. op[a].step = "merge"
      BY <1>0, <3>1, <1>13 DEF Ask!FinishMerge, Ask!Step
    <3>3. gate' = [awaiting |-> FALSE, approval |-> FALSE, kind |-> gate.kind, of |-> gate.of,
            req |-> gate.req, live |-> gate.live, selected |-> gate.selected, result
            |-> op[a].said, aged |-> gate.aged]
      BY <1>0, <3>1, <1>13 DEF Ask!FinishMerge, Ask!Step, AskGateTyped
    <3>4. ask' = [n |-> ask.n, kind |-> ask.kind, step |-> ask.step, age |-> ask.age]
      BY <1>0, <3>1, <1>13 DEF Ask!FinishMerge, Ask!Step, AskHoldTyped
    <3>5. op' = [op EXCEPT ![a] = Stepped(IF op[a].live /\ op[a].req # 0 THEN "file"
            ELSE "run", op[a])]
      <4>1. op' = [op EXCEPT ![a] = [op[a] EXCEPT !.step = IF op[a].live /\ op[a].req # 0
              THEN "file" ELSE "run"]]
        BY <1>0, <1>13 DEF Ask!FinishMerge, Ask!Step
      <4>2. [op[a] EXCEPT !.step = IF op[a].live /\ op[a].req # 0 THEN "file"
              ELSE "run"] = Stepped(IF op[a].live /\ op[a].req # 0 THEN "file"
              ELSE "run", op[a])
        BY <3>1
      <4>3. QED
        BY <4>1, <4>2
    <3>6. UNCHANGED <<heard, file, card, past>>
      BY <1>0, <3>1, <1>13 DEF Ask!FinishMerge, Ask!Step
    <3>7. QED
      BY <3>2, <3>3, <3>4, <3>5, <3>6
  <2>2. op[a].said \in Ask!Replies /\ Backed(past, op[a].said, ask.n)
    BY <1>0, <2>1 DEF AskOpTyped, RepliesBacked
  <2>3. AskOpTyped' /\ op'[a] = Stepped(IF op[a].live /\ op[a].req # 0 THEN "file"
          ELSE "run", op[a])
        /\ \A b \in Ask!Actors \ {a} : op'[b] = op[b]
    <3> DEFINE o == Stepped(IF op[a].live /\ op[a].req # 0 THEN "file" ELSE "run", op[a])
    <3>1. IsOp(o)
      BY DEF IsOp
    <3>2. /\ o.of \in 0..gate'.of /\ o.req \in 0..ask'.n /\ o.chosen \subseteq Ask!Options
          /\ o.step \in {"merge", "file", "run"} => o.said \in Ask!Replies
      BY <1>0, <2>1 DEF AskHoldTyped, AskGateTyped, AskOpTyped, Ask!Actors
    <3>3. /\ gate.of \in Nat /\ gate'.of \in Nat /\ gate.of <= gate'.of
          /\ ask.n \in Nat /\ ask'.n \in Nat /\ ask.n <= ask'.n /\ a \in Ask!Actors
      BY <1>0, <2>1 DEF AskHoldTyped, AskGateTyped, Ask!Actors
    <3>4. op' = [op EXCEPT ![a] = o]
      BY <2>1
    <3> HIDE DEF o
    <3>5. QED
      BY <1>0, <3>1, <3>2, <3>3, <3>4, OpMoves DEF o
  <2>10. AskHoldTyped'
    BY <1>0, <2>1 DEF AskHoldTyped, Ask!Holds
  <2>11. AskGateTyped'
    BY <1>0, <2>1, <2>2, <2>3 DEF AskHoldTyped, AskGateTyped, AskOpTyped, Replied, CardTrue
  <2>12. AskOpTyped'
    BY <2>3
  <2>13. HistoryTyped'
    BY <1>0, <2>1, <2>2, <2>3 DEF AskHoldTyped, AskGateTyped, HistoryTyped, Ask!Holds
  <2>14. Grows(past, past')
    BY <2>1, GrowsNot
  <2>15. RepliesBacked'
    <3>1. ResultHeld
      BY <2>1, <2>2 DEF ResultHeld
    <3>2. OpsHeld
      BY <1>0, <2>1, <2>3 DEF AskOpTyped, OpsHeld
    <3>3. HeardHeld /\ FileHeld
      BY <2>1 DEF HeardHeld, FileHeld
    <3>4. ask'.n \in 0..MaxHolds /\ ask.n <= ask'.n
      BY <1>0, <2>1 DEF AskHoldTyped
    <3>5. QED
      BY <2>14, <3>1, <3>2, <3>3, <3>4, RepliesGrow
  <2>16. CardTrue'
    BY <1>0, <2>1, <2>2, <2>3 DEF AskHoldTyped, AskGateTyped, AskOpTyped, HistoryTyped,
        CardTrue, ParkedOnce, Ticked, Untouched, Ask!Actors, Ask!Holds
  <2>17. QED
    BY <2>10, <2>11, <2>12, <2>13, <2>15, <2>16 DEF AskInv, AskTyped
<1>14. ASSUME NEW a \in Ask!Actors, Ask!FinishFile(a)
      PROVE  AskInv'
  <2>1. /\ op[a].step = "file"
        /\ file' = [file EXCEPT ![op[a].req] = op[a].said]
        /\ ask' = [n |-> ask.n, kind |-> ask.kind, step |-> ask.step, age |-> ask.age]
        /\ op' = [op EXCEPT ![a] = Stepped("run", op[a])]
        /\ UNCHANGED <<heard, gate, card, past>>
    <3>1. op[a] = Stepped(op[a].step, op[a]) /\ a \in Ask!Actors
      BY <1>0 DEF AskOpTyped, IsOp, Ask!Actors
    <3>2. op[a].step = "file"
      BY <1>0, <3>1, <1>14 DEF Ask!FinishFile, Ask!Step
    <3>3. file' = [file EXCEPT ![op[a].req] = op[a].said]
      BY <1>0, <3>1, <1>14 DEF Ask!FinishFile, Ask!Step
    <3>4. ask' = [n |-> ask.n, kind |-> ask.kind, step |-> ask.step, age |-> ask.age]
      BY <1>0, <3>1, <1>14 DEF Ask!FinishFile, Ask!Step, AskHoldTyped
    <3>5. op' = [op EXCEPT ![a] = Stepped("run", op[a])]
      <4>1. op' = [op EXCEPT ![a] = [op[a] EXCEPT !.step = "run"]]
        BY <1>0, <1>14 DEF Ask!FinishFile, Ask!Step
      <4>2. [op[a] EXCEPT !.step = "run"] = Stepped("run", op[a])
        BY <3>1
      <4>3. QED
        BY <4>1, <4>2
    <3>6. UNCHANGED <<heard, gate, card, past>>
      BY <1>0, <3>1, <1>14 DEF Ask!FinishFile, Ask!Step
    <3>7. QED
      BY <3>2, <3>3, <3>4, <3>5, <3>6
  <2>2. op[a].said \in Ask!Replies /\ Backed(past, op[a].said, ask.n)
    BY <1>0, <2>1 DEF AskOpTyped, RepliesBacked
  <2>3. AskOpTyped' /\ op'[a] = Stepped("run", op[a])
        /\ \A b \in Ask!Actors \ {a} : op'[b] = op[b]
    <3> DEFINE o == Stepped("run", op[a])
    <3>1. IsOp(o)
      BY DEF IsOp
    <3>2. /\ o.of \in 0..gate'.of /\ o.req \in 0..ask'.n /\ o.chosen \subseteq Ask!Options
          /\ o.step \in {"merge", "file", "run"} => o.said \in Ask!Replies
      BY <1>0, <2>1 DEF AskHoldTyped, AskGateTyped, AskOpTyped, Ask!Actors
    <3>3. /\ gate.of \in Nat /\ gate'.of \in Nat /\ gate.of <= gate'.of
          /\ ask.n \in Nat /\ ask'.n \in Nat /\ ask.n <= ask'.n /\ a \in Ask!Actors
      BY <1>0, <2>1 DEF AskHoldTyped, AskGateTyped, Ask!Actors
    <3>4. op' = [op EXCEPT ![a] = o]
      BY <2>1
    <3> HIDE DEF o
    <3>5. QED
      BY <1>0, <3>1, <3>2, <3>3, <3>4, OpMoves DEF o
  <2>10. AskHoldTyped'
    <3>1. /\ ask'.n \in 0..MaxHolds /\ (ask'.step # "off" => ask'.n \in Ask!Holds)
          /\ ask'.step \in {"off", "raise", "paint", "wait", "expire"}
      BY <1>0, <2>1 DEF AskHoldTyped, Ask!Holds
    <3>2. op[a].req \in Nat
      BY <1>0, <2>1 DEF AskHoldTyped, AskOpTyped
    <3>3. QED
      BY <1>0, <2>1, <2>2, <3>1, <3>2, HoldMoves
  <2>11. AskGateTyped'
    BY <1>0, <2>1, <2>2, <2>3 DEF AskHoldTyped, AskGateTyped, AskOpTyped, Replied, CardTrue
  <2>12. AskOpTyped'
    BY <2>3
  <2>13. HistoryTyped'
    BY <1>0, <2>1, <2>2, <2>3 DEF AskHoldTyped, AskGateTyped, HistoryTyped, Ask!Holds
  <2>14. Grows(past, past')
    BY <2>1, GrowsNot
  <2>15. RepliesBacked'
    <3>1. FileHeld
      <4>1. op[a].req \in Nat /\ ask'.n = ask.n
        BY <1>0, <2>1 DEF AskOpTyped
      <4>2. QED
        BY <1>0, <2>1, <2>2, <4>1, FileAt
    <3>2. OpsHeld
      BY <1>0, <2>1, <2>3 DEF AskOpTyped, OpsHeld
    <3>3. HeardHeld /\ ResultHeld
      BY <2>1 DEF HeardHeld, ResultHeld
    <3>4. ask'.n \in 0..MaxHolds /\ ask.n <= ask'.n
      BY <1>0, <2>1 DEF AskHoldTyped
    <3>5. QED
      BY <2>14, <3>1, <3>2, <3>3, <3>4, RepliesGrow
  <2>16. CardTrue'
    BY <1>0, <2>1, <2>2, <2>3 DEF AskHoldTyped, AskGateTyped, AskOpTyped, HistoryTyped,
        CardTrue, ParkedOnce, Ticked, Untouched, Ask!Actors, Ask!Holds
  <2>17. QED
    BY <2>10, <2>11, <2>12, <2>13, <2>15, <2>16 DEF AskInv, AskTyped
<1>15. ASSUME NEW a \in Ask!Actors, Ask!FinishRun(a)
      PROVE  AskInv'
  <2>1. /\ op[a].step = "run"
        /\ card' = [of |-> 0, kind |-> None, selected |-> {}]
        /\ ask' = [n |-> ask.n, kind |-> ask.kind, step |-> ask.step, age |-> ask.age]
        /\ op' = [op EXCEPT ![a] = NoOp]
        /\ UNCHANGED <<heard, file, gate, past>>
    <3>1. op[a] = Stepped(op[a].step, op[a]) /\ a \in Ask!Actors
      BY <1>0 DEF AskOpTyped, IsOp, Ask!Actors
    <3>2. op[a].step = "run"
      BY <1>0, <3>1, <1>15 DEF Ask!FinishRun, Ask!Step, Ask!Leave, Ask!IdleOp, Ask!NoCard
    <3>3. card' = [of |-> 0, kind |-> None, selected |-> {}]
      BY <1>0, <3>1, <1>15 DEF Ask!FinishRun, Ask!Step, Ask!Leave, Ask!IdleOp, Ask!NoCard
    <3>4. ask' = [n |-> ask.n, kind |-> ask.kind, step |-> ask.step, age |-> ask.age]
      BY <1>0, <3>1, <1>15 DEF Ask!FinishRun, Ask!Step, Ask!Leave, Ask!IdleOp, Ask!NoCard,
          AskHoldTyped
    <3>5. op' = [op EXCEPT ![a] = NoOp]
      BY <1>0, <3>1, <1>15 DEF Ask!FinishRun, Ask!Step, Ask!Leave, Ask!IdleOp, Ask!NoCard
    <3>6. UNCHANGED <<heard, file, gate, past>>
      BY <1>0, <3>1, <1>15 DEF Ask!FinishRun, Ask!Step, Ask!Leave, Ask!IdleOp, Ask!NoCard
    <3>7. QED
      BY <3>2, <3>3, <3>4, <3>5, <3>6
  <2>3. AskOpTyped' /\ op'[a] = NoOp
        /\ \A b \in Ask!Actors \ {a} : op'[b] = op[b]
    <3> DEFINE o == NoOp
    <3>1. IsOp(o)
      BY DEF IsOp
    <3>2. /\ o.of \in 0..gate'.of /\ o.req \in 0..ask'.n /\ o.chosen \subseteq Ask!Options
          /\ o.step \in {"merge", "file", "run"} => o.said \in Ask!Replies
      BY <1>0, <2>1 DEF AskHoldTyped, AskGateTyped, AskOpTyped, Ask!Actors
    <3>3. /\ gate.of \in Nat /\ gate'.of \in Nat /\ gate.of <= gate'.of
          /\ ask.n \in Nat /\ ask'.n \in Nat /\ ask.n <= ask'.n /\ a \in Ask!Actors
      BY <1>0, <2>1 DEF AskHoldTyped, AskGateTyped, Ask!Actors
    <3>4. op' = [op EXCEPT ![a] = o]
      BY <2>1
    <3> HIDE DEF o
    <3>5. QED
      BY <1>0, <3>1, <3>2, <3>3, <3>4, OpMoves DEF o
  <2>10. AskHoldTyped'
    BY <1>0, <2>1 DEF AskHoldTyped, Ask!Holds
  <2>11. AskGateTyped'
    BY <1>0, <2>1, <2>3 DEF AskHoldTyped, AskGateTyped, AskOpTyped, Replied, CardTrue
  <2>12. AskOpTyped'
    BY <2>3
  <2>13. HistoryTyped'
    BY <1>0, <2>1, <2>3 DEF AskHoldTyped, AskGateTyped, HistoryTyped, Ask!Holds
  <2>14. Grows(past, past')
    BY <2>1, GrowsNot
  <2>15. RepliesBacked'
    <3>1. OpsHeld
      BY <1>0, <2>1, <2>3 DEF AskOpTyped, OpsHeld
    <3>2. HeardHeld /\ FileHeld /\ ResultHeld
      BY <2>1 DEF HeardHeld, FileHeld, ResultHeld
    <3>3. ask'.n \in 0..MaxHolds /\ ask.n <= ask'.n
      BY <1>0, <2>1 DEF AskHoldTyped
    <3>4. QED
      BY <2>14, <3>1, <3>2, <3>3, RepliesGrow
  <2>16. CardTrue'
    BY <1>0, <2>1, <2>3 DEF AskHoldTyped, AskGateTyped, AskOpTyped, HistoryTyped, CardTrue,
        ParkedOnce, Ticked, Untouched, Ask!Actors, Ask!Holds
  <2>17. QED
    BY <2>10, <2>11, <2>12, <2>13, <2>15, <2>16 DEF AskInv, AskTyped
<1>16. ASSUME NEW a \in Ask!Actors, Ask!ExpireCard(a) /\ gate.awaiting
      PROVE  AskInv'
  <2>0. Ask!Said("deny", {}) \in Ask!Replies /\ Ask!Said("deny", {}).decision = "deny"
        /\ Ask!Said("deny", {}).answer = {}
    BY SaidIsReply
  <2>1. /\ op[a].step = "expire"
        /\ ask' = [n |-> ask.n, kind |-> ask.kind, step |-> ask.step, age |-> ask.age]
        /\ op' = [op EXCEPT ![a] = OpOf("merge", Ask!Said("deny", {}), gate.live, gate.req,
             gate.of, {})]
        /\ UNCHANGED <<heard, file, gate, card, past>>
    <3>1. op[a] = Stepped(op[a].step, op[a]) /\ a \in Ask!Actors
      BY <1>0 DEF AskOpTyped, IsOp, Ask!Actors
    <3>2. op[a].step = "expire"
      BY <1>0, <3>1, <1>16 DEF Ask!ExpireCard, Ask!Step, Ask!BeginFinish
    <3>3. ask' = [n |-> ask.n, kind |-> ask.kind, step |-> ask.step, age |-> ask.age]
      BY <1>0, <3>1, <1>16 DEF Ask!ExpireCard, Ask!Step, Ask!BeginFinish, AskHoldTyped
    <3>4. op' = [op EXCEPT ![a] = OpOf("merge", Ask!Said("deny", {}), gate.live, gate.req,
            gate.of, {})]
      BY <1>0, <3>1, <1>16 DEF Ask!ExpireCard, Ask!Step, Ask!BeginFinish
    <3>5. UNCHANGED <<heard, file, gate, card, past>>
      BY <1>0, <3>1, <1>16 DEF Ask!ExpireCard, Ask!Step, Ask!BeginFinish
    <3>6. QED
      BY <3>2, <3>3, <3>4, <3>5
  <2>3. AskOpTyped' /\ op'[a] = OpOf("merge", Ask!Said("deny", {}), gate.live, gate.req,
          gate.of, {})
        /\ \A b \in Ask!Actors \ {a} : op'[b] = op[b]
    <3> DEFINE o == OpOf("merge", Ask!Said("deny", {}), gate.live, gate.req, gate.of, {})
    <3>1. IsOp(o)
      BY DEF IsOp
    <3>2. /\ o.of \in 0..gate'.of /\ o.req \in 0..ask'.n /\ o.chosen \subseteq Ask!Options
          /\ o.step \in {"merge", "file", "run"} => o.said \in Ask!Replies
      BY <1>0, <2>1, <2>0 DEF AskHoldTyped, AskGateTyped, AskOpTyped, Ask!Actors
    <3>3. /\ gate.of \in Nat /\ gate'.of \in Nat /\ gate.of <= gate'.of
          /\ ask.n \in Nat /\ ask'.n \in Nat /\ ask.n <= ask'.n /\ a \in Ask!Actors
      BY <1>0, <2>1, <2>0 DEF AskHoldTyped, AskGateTyped, Ask!Actors
    <3>4. op' = [op EXCEPT ![a] = o]
      BY <2>1
    <3> HIDE DEF o
    <3>5. QED
      BY <1>0, <3>1, <3>2, <3>3, <3>4, OpMoves DEF o
  <2>10. AskHoldTyped'
    BY <1>0, <2>1 DEF AskHoldTyped, Ask!Holds
  <2>11. AskGateTyped'
    BY <1>0, <2>1, <2>3 DEF AskHoldTyped, AskGateTyped, AskOpTyped, Replied, CardTrue
  <2>12. AskOpTyped'
    BY <2>3
  <2>13. HistoryTyped'
    BY <1>0, <2>1, <2>3 DEF AskHoldTyped, AskGateTyped, HistoryTyped, Ask!Holds
  <2>14. Grows(past, past')
    BY <2>1, GrowsNot
  <2>15. RepliesBacked'
    <3>1. OpsHeld
      BY <1>0, <2>0, <2>1, <2>3 DEF AskOpTyped, Backed, Ask!Yes, OpsHeld
    <3>2. HeardHeld /\ FileHeld /\ ResultHeld
      BY <2>1 DEF HeardHeld, FileHeld, ResultHeld
    <3>3. ask'.n \in 0..MaxHolds /\ ask.n <= ask'.n
      BY <1>0, <2>1 DEF AskHoldTyped
    <3>4. QED
      BY <2>14, <3>1, <3>2, <3>3, RepliesGrow
  <2>16. CardTrue'
    BY <1>0, <2>1, <2>3 DEF AskHoldTyped, AskGateTyped, AskOpTyped, HistoryTyped, CardTrue,
        ParkedOnce, Ticked, Untouched, Ask!Actors, Ask!Holds
  <2>17. QED
    BY <2>10, <2>11, <2>12, <2>13, <2>15, <2>16 DEF AskInv, AskTyped
<1>17. ASSUME NEW a \in Ask!Actors, Ask!ExpireCard(a) /\ ~gate.awaiting
      PROVE  AskInv'
  <2>1. /\ op[a].step = "expire"
        /\ ask' = [n |-> ask.n, kind |-> ask.kind, step |-> ask.step, age |-> ask.age]
        /\ op' = [op EXCEPT ![a] = Stepped("failrun", op[a])]
        /\ UNCHANGED <<heard, file, gate, card, past>>
    <3>1. op[a] = Stepped(op[a].step, op[a]) /\ a \in Ask!Actors
      BY <1>0 DEF AskOpTyped, IsOp, Ask!Actors
    <3>2. op[a].step = "expire"
      BY <1>0, <3>1, <1>17 DEF Ask!ExpireCard, Ask!Step
    <3>3. ask' = [n |-> ask.n, kind |-> ask.kind, step |-> ask.step, age |-> ask.age]
      BY <1>0, <3>1, <1>17 DEF Ask!ExpireCard, Ask!Step, AskHoldTyped
    <3>4. op' = [op EXCEPT ![a] = Stepped("failrun", op[a])]
      BY <1>0, <3>1, <1>17 DEF Ask!ExpireCard, Ask!Step
    <3>5. UNCHANGED <<heard, file, gate, card, past>>
      BY <1>0, <3>1, <1>17 DEF Ask!ExpireCard, Ask!Step
    <3>6. QED
      BY <3>2, <3>3, <3>4, <3>5
  <2>3. AskOpTyped' /\ op'[a] = Stepped("failrun", op[a])
        /\ \A b \in Ask!Actors \ {a} : op'[b] = op[b]
    <3> DEFINE o == Stepped("failrun", op[a])
    <3>1. IsOp(o)
      BY DEF IsOp
    <3>2. /\ o.of \in 0..gate'.of /\ o.req \in 0..ask'.n /\ o.chosen \subseteq Ask!Options
          /\ o.step \in {"merge", "file", "run"} => o.said \in Ask!Replies
      BY <1>0, <2>1 DEF AskHoldTyped, AskGateTyped, AskOpTyped, Ask!Actors
    <3>3. /\ gate.of \in Nat /\ gate'.of \in Nat /\ gate.of <= gate'.of
          /\ ask.n \in Nat /\ ask'.n \in Nat /\ ask.n <= ask'.n /\ a \in Ask!Actors
      BY <1>0, <2>1 DEF AskHoldTyped, AskGateTyped, Ask!Actors
    <3>4. op' = [op EXCEPT ![a] = o]
      BY <2>1
    <3> HIDE DEF o
    <3>5. QED
      BY <1>0, <3>1, <3>2, <3>3, <3>4, OpMoves DEF o
  <2>10. AskHoldTyped'
    BY <1>0, <2>1 DEF AskHoldTyped, Ask!Holds
  <2>11. AskGateTyped'
    BY <1>0, <2>1, <2>3 DEF AskHoldTyped, AskGateTyped, AskOpTyped, Replied, CardTrue
  <2>12. AskOpTyped'
    BY <2>3
  <2>13. HistoryTyped'
    BY <1>0, <2>1, <2>3 DEF AskHoldTyped, AskGateTyped, HistoryTyped, Ask!Holds
  <2>14. Grows(past, past')
    BY <2>1, GrowsNot
  <2>15. RepliesBacked'
    <3>1. OpsHeld
      BY <1>0, <2>1, <2>3 DEF AskOpTyped, OpsHeld
    <3>2. HeardHeld /\ FileHeld /\ ResultHeld
      BY <2>1 DEF HeardHeld, FileHeld, ResultHeld
    <3>3. ask'.n \in 0..MaxHolds /\ ask.n <= ask'.n
      BY <1>0, <2>1 DEF AskHoldTyped
    <3>4. QED
      BY <2>14, <3>1, <3>2, <3>3, RepliesGrow
  <2>16. CardTrue'
    BY <1>0, <2>1, <2>3 DEF AskHoldTyped, AskGateTyped, AskOpTyped, HistoryTyped, CardTrue,
        ParkedOnce, Ticked, Untouched, Ask!Actors, Ask!Holds
  <2>17. QED
    BY <2>10, <2>11, <2>12, <2>13, <2>15, <2>16 DEF AskInv, AskTyped
<1>18. ASSUME NEW a \in Ask!Actors, Ask!FailRun(a)
      PROVE  AskInv'
  <2>1. /\ op[a].step = "failrun"
        /\ card' = [of |-> 0, kind |-> None, selected |-> {}]
        /\ gate' = [awaiting |-> gate.awaiting, approval |-> FALSE, kind |-> gate.kind, of
             |-> gate.of, req |-> gate.req, live |-> gate.live, selected |-> gate.selected,
             result |-> gate.result, aged |-> gate.aged]
        /\ ask' = [n |-> ask.n, kind |-> ask.kind, step |-> ask.step, age |-> ask.age]
        /\ op' = [op EXCEPT ![a] = NoOp]
        /\ UNCHANGED <<heard, file, past>>
    <3>1. op[a] = Stepped(op[a].step, op[a]) /\ a \in Ask!Actors
      BY <1>0 DEF AskOpTyped, IsOp, Ask!Actors
    <3>2. op[a].step = "failrun"
      BY <1>0, <3>1, <1>18 DEF Ask!FailRun, Ask!Step, Ask!Leave, Ask!IdleOp, Ask!NoCard
    <3>3. card' = [of |-> 0, kind |-> None, selected |-> {}]
      BY <1>0, <3>1, <1>18 DEF Ask!FailRun, Ask!Step, Ask!Leave, Ask!IdleOp, Ask!NoCard
    <3>4. gate' = [awaiting |-> gate.awaiting, approval |-> FALSE, kind |-> gate.kind, of
            |-> gate.of, req |-> gate.req, live |-> gate.live, selected |-> gate.selected,
            result |-> gate.result, aged |-> gate.aged]
      BY <1>0, <3>1, <1>18 DEF Ask!FailRun, Ask!Step, Ask!Leave, Ask!IdleOp, Ask!NoCard,
          AskGateTyped
    <3>5. ask' = [n |-> ask.n, kind |-> ask.kind, step |-> ask.step, age |-> ask.age]
      BY <1>0, <3>1, <1>18 DEF Ask!FailRun, Ask!Step, Ask!Leave, Ask!IdleOp, Ask!NoCard,
          AskHoldTyped
    <3>6. op' = [op EXCEPT ![a] = NoOp]
      BY <1>0, <3>1, <1>18 DEF Ask!FailRun, Ask!Step, Ask!Leave, Ask!IdleOp, Ask!NoCard
    <3>7. UNCHANGED <<heard, file, past>>
      BY <1>0, <3>1, <1>18 DEF Ask!FailRun, Ask!Step, Ask!Leave, Ask!IdleOp, Ask!NoCard
    <3>8. QED
      BY <3>2, <3>3, <3>4, <3>5, <3>6, <3>7
  <2>3. AskOpTyped' /\ op'[a] = NoOp
        /\ \A b \in Ask!Actors \ {a} : op'[b] = op[b]
    <3> DEFINE o == NoOp
    <3>1. IsOp(o)
      BY DEF IsOp
    <3>2. /\ o.of \in 0..gate'.of /\ o.req \in 0..ask'.n /\ o.chosen \subseteq Ask!Options
          /\ o.step \in {"merge", "file", "run"} => o.said \in Ask!Replies
      BY <1>0, <2>1 DEF AskHoldTyped, AskGateTyped, AskOpTyped, Ask!Actors
    <3>3. /\ gate.of \in Nat /\ gate'.of \in Nat /\ gate.of <= gate'.of
          /\ ask.n \in Nat /\ ask'.n \in Nat /\ ask.n <= ask'.n /\ a \in Ask!Actors
      BY <1>0, <2>1 DEF AskHoldTyped, AskGateTyped, Ask!Actors
    <3>4. op' = [op EXCEPT ![a] = o]
      BY <2>1
    <3> HIDE DEF o
    <3>5. QED
      BY <1>0, <3>1, <3>2, <3>3, <3>4, OpMoves DEF o
  <2>10. AskHoldTyped'
    BY <1>0, <2>1 DEF AskHoldTyped, Ask!Holds
  <2>11. AskGateTyped'
    BY <1>0, <2>1, <2>3 DEF AskHoldTyped, AskGateTyped, AskOpTyped, Replied, CardTrue
  <2>12. AskOpTyped'
    BY <2>3
  <2>13. HistoryTyped'
    BY <1>0, <2>1, <2>3 DEF AskHoldTyped, AskGateTyped, HistoryTyped, Ask!Holds
  <2>14. Grows(past, past')
    BY <2>1, GrowsNot
  <2>15. RepliesBacked'
    <3>1. OpsHeld
      BY <1>0, <2>1, <2>3 DEF AskOpTyped, OpsHeld
    <3>2. HeardHeld /\ FileHeld /\ ResultHeld
      BY <2>1 DEF HeardHeld, FileHeld, ResultHeld
    <3>3. ask'.n \in 0..MaxHolds /\ ask.n <= ask'.n
      BY <1>0, <2>1 DEF AskHoldTyped
    <3>4. QED
      BY <2>14, <3>1, <3>2, <3>3, RepliesGrow
  <2>16. CardTrue'
    BY <1>0, <2>1, <2>3 DEF AskHoldTyped, AskGateTyped, AskOpTyped, HistoryTyped, CardTrue,
        ParkedOnce, Ticked, Untouched, Ask!Actors, Ask!Holds
  <2>17. QED
    BY <2>10, <2>11, <2>12, <2>13, <2>15, <2>16 DEF AskInv, AskTyped
<1>19. ASSUME NEW o \in Ask!Options, Ask!TapOption(o)
      PROVE  AskInv'
  <2>0. Ask!Said("allow", {o}) \in Ask!Replies /\ Ask!Said("allow", {o}).decision = "allow"
        /\ Ask!Said("allow", {o}).answer = {o}
    BY SaidIsReply
  <2>1. /\ op["phone"].step = "idle" /\ gate.awaiting
        /\ ask' = [n |-> ask.n, kind |-> ask.kind, step |-> ask.step, age |-> ask.age]
        /\ op' = [op EXCEPT !["phone"] = OpOf("merge", Ask!Said("allow", {o}), gate.live,
             gate.req, gate.of, {})]
        /\ past' = [yes |-> past.yes \cup {gate.of}, picked |-> [past.picked EXCEPT ![gate.of]
             = {o}], crossed |-> past.crossed]
        /\ UNCHANGED <<heard, file, gate, card>>
    <3>1. op["phone"] = Stepped(op["phone"].step, op["phone"]) /\ "phone" \in Ask!Actors
      BY <1>0 DEF AskOpTyped, IsOp, Ask!Actors
    <3>2. op["phone"].step = "idle" /\ gate.awaiting
      BY <1>0, <3>1, <1>19 DEF Ask!TapOption, Ask!Step, Ask!BeginFinish, Ask!Idle
    <3>3. ask' = [n |-> ask.n, kind |-> ask.kind, step |-> ask.step, age |-> ask.age]
      BY <1>0, <3>1, <1>19 DEF Ask!TapOption, Ask!Step, Ask!BeginFinish, Ask!Idle, AskHoldTyped
    <3>4. op' = [op EXCEPT !["phone"] = OpOf("merge", Ask!Said("allow", {o}), gate.live,
            gate.req, gate.of, {})]
      BY <1>0, <3>1, <1>19 DEF Ask!TapOption, Ask!Step, Ask!BeginFinish, Ask!Idle
    <3>5. past' = [yes |-> past.yes \cup {gate.of}, picked |-> [past.picked EXCEPT ![gate.of]
            = {o}], crossed |-> past.crossed]
      BY <1>0, <3>1, <1>19 DEF Ask!TapOption, Ask!Step, Ask!BeginFinish, Ask!Idle, HistoryTyped
    <3>6. UNCHANGED <<heard, file, gate, card>>
      BY <1>0, <3>1, <1>19 DEF Ask!TapOption, Ask!Step, Ask!BeginFinish, Ask!Idle
    <3>7. QED
      BY <3>2, <3>3, <3>4, <3>5, <3>6
  <2>3. AskOpTyped' /\ op'["phone"] = OpOf("merge", Ask!Said("allow", {o}), gate.live,
          gate.req, gate.of, {})
        /\ \A b \in Ask!Actors \ {"phone"} : op'[b] = op[b]
    <3> DEFINE p == OpOf("merge", Ask!Said("allow", {o}), gate.live, gate.req, gate.of, {})
    <3>1. IsOp(p)
      BY DEF IsOp
    <3>2. /\ p.of \in 0..gate'.of /\ p.req \in 0..ask'.n /\ p.chosen \subseteq Ask!Options
          /\ p.step \in {"merge", "file", "run"} => p.said \in Ask!Replies
      BY <1>0, <2>1, <2>0 DEF AskHoldTyped, AskGateTyped, AskOpTyped, Ask!Actors
    <3>3. /\ gate.of \in Nat /\ gate'.of \in Nat /\ gate.of <= gate'.of
          /\ ask.n \in Nat /\ ask'.n \in Nat /\ ask.n <= ask'.n /\ "phone" \in Ask!Actors
      BY <1>0, <2>1, <2>0 DEF AskHoldTyped, AskGateTyped, Ask!Actors
    <3>4. op' = [op EXCEPT !["phone"] = p]
      BY <2>1
    <3> HIDE DEF p
    <3>5. QED
      BY <1>0, <3>1, <3>2, <3>3, <3>4, OpMoves DEF p
  <2>4. gate.of \in Ask!Holds /\ gate.of \in 1..ask.n
    BY <1>0, <2>1 DEF AskHoldTyped, AskGateTyped, Ask!Holds
  <2>5. ~past.crossed => past.picked[gate.of] = {}
    BY <1>0, <2>1 DEF CardTrue, ParkedOnce
  <2>10. AskHoldTyped'
    BY <1>0, <2>1 DEF AskHoldTyped, Ask!Holds
  <2>11. AskGateTyped'
    BY <1>0, <2>1, <2>3, <2>4, <2>5 DEF AskHoldTyped, AskGateTyped, AskOpTyped, Replied,
        CardTrue
  <2>12. AskOpTyped'
    BY <2>3
  <2>13. HistoryTyped'
    BY <1>0, <2>1, <2>3, <2>4, <2>5 DEF AskHoldTyped, AskGateTyped, HistoryTyped, Ask!Holds
  <2>14. Grows(past, past')
    BY <1>0, <2>1, <2>3, <2>4, <2>5 DEF HistoryTyped, Grows
  <2>15. RepliesBacked'
    <3>1. OpsHeld
      <4>1. Backed(past', Ask!Said("allow", {o}), ask.n)
        <5>1. gate.of \in past'.yes /\ past'.picked[gate.of] = {o}
          BY <1>0, <2>1, <2>4 DEF HistoryTyped
        <5>2. QED
          BY <2>0, <2>4, <5>1 DEF Backed
      <4>2. QED
        BY <1>0, <2>1, <2>3, <4>1 DEF AskOpTyped, AskHoldTyped, OpsHeld
    <3>2. HeardHeld /\ FileHeld /\ ResultHeld
      BY <2>1 DEF HeardHeld, FileHeld, ResultHeld
    <3>3. ask'.n \in 0..MaxHolds /\ ask.n <= ask'.n
      BY <1>0, <2>1 DEF AskHoldTyped
    <3>4. QED
      BY <2>14, <3>1, <3>2, <3>3, RepliesGrow
  <2>16. CardTrue'
    <3>1. /\ past'.picked[gate.of] = {o}
          /\ \A m \in Ask!Holds \ {gate.of} : past'.picked[m] = past.picked[m]
          /\ (~past'.crossed => ~past.crossed)
      BY <1>0, <2>1, <2>4 DEF HistoryTyped
    <3>2. op'["phone"].step = "merge" /\ op["phone"].step = "idle" /\ op'["loop"] = op["loop"]
      BY <2>1, <2>3 DEF Ask!Actors
    <3>3. ASSUME ~past'.crossed PROVE ParkedOnce'
      <4>1. ParkedOnce /\ gate.of \in Nat
        BY <1>0, <3>1, <3>3 DEF CardTrue, AskGateTyped
      <4>2. \A m \in Ask!Holds : past'.picked[m] # {} => m <= gate.of
        BY <3>1, <4>1 DEF ParkedOnce, Ask!Holds
      <4>3. QED
        BY <2>1, <3>2, <4>1, <4>2 DEF ParkedOnce
    <3>4. ASSUME ~past'.crossed PROVE Ticked'
      BY <1>0, <2>1, <3>1, <3>2, <3>4 DEF CardTrue, Ticked
    <3>5. ASSUME Untouched PROVE Untouched'
      BY <2>1, <3>2, <3>5 DEF Untouched
    <3>6. ask' = ask
      BY <1>0, <2>1 DEF AskHoldTyped
    <3>7. QED
      BY <1>0, <2>1, <3>1, <3>2, <3>3, <3>4, <3>5, <3>6 DEF CardTrue
  <2>17. QED
    BY <2>10, <2>11, <2>12, <2>13, <2>15, <2>16 DEF AskInv, AskTyped
<1>20. ASSUME NEW o \in Ask!Options, Ask!TapToggle(o)
      PROVE  AskInv'
  <2> DEFINE c == IF o \in gate.selected THEN gate.selected \ {o} ELSE gate.selected \cup {o}
  <2>2. c \subseteq Ask!Options
    BY <1>0 DEF AskGateTyped
  <2> HIDE DEF c
  <2>1. /\ op["phone"].step = "idle" /\ gate.awaiting /\ gate.kind = "multi"
        /\ ask' = [n |-> ask.n, kind |-> ask.kind, step |-> ask.step, age |-> ask.age]
        /\ op' = [op EXCEPT !["phone"] = OpOf("toggle", None, FALSE, 0, gate.of, c)]
        /\ past' = [yes |-> past.yes, picked |-> past.picked, crossed |-> past.crossed
             \/ card.of # gate.of]
        /\ UNCHANGED <<heard, file, gate, card>>
    <3>1. op["phone"] = Stepped(op["phone"].step, op["phone"]) /\ "phone" \in Ask!Actors
      BY <1>0 DEF AskOpTyped, IsOp, Ask!Actors
    <3>2. op["phone"].step = "idle" /\ gate.awaiting /\ gate.kind = "multi"
      BY <1>0, <3>1, <1>20 DEF Ask!TapToggle, Ask!Step, Ask!Idle
    <3>3. ask' = [n |-> ask.n, kind |-> ask.kind, step |-> ask.step, age |-> ask.age]
      BY <1>0, <3>1, <1>20 DEF Ask!TapToggle, Ask!Step, Ask!Idle, AskHoldTyped
    <3>4. op' = [op EXCEPT !["phone"] = OpOf("toggle", None, FALSE, 0, gate.of, c)]
      <4>1. op' = [op EXCEPT !["phone"] = [Ask!IdleOp EXCEPT !.step = "toggle", !.of
              = gate.of, !.chosen = c]]
        BY <1>0, <1>20 DEF Ask!TapToggle, Ask!Step, Ask!Idle, c
      <4>2. [Ask!IdleOp EXCEPT !.step = "toggle", !.of = gate.of, !.chosen = c]
              = OpOf("toggle", None, FALSE, 0, gate.of, c)
        BY Toggling
      <4>3. QED
        BY <4>1, <4>2
    <3>5. past' = [yes |-> past.yes, picked |-> past.picked, crossed |-> past.crossed
            \/ card.of # gate.of]
      BY <1>0, <3>1, <1>20 DEF Ask!TapToggle, Ask!Step, Ask!Idle, HistoryTyped
    <3>6. UNCHANGED <<heard, file, gate, card>>
      BY <1>0, <3>1, <1>20 DEF Ask!TapToggle, Ask!Step, Ask!Idle
    <3>7. QED
      BY <3>2, <3>3, <3>4, <3>5, <3>6
  <2>3. AskOpTyped' /\ op'["phone"] = OpOf("toggle", None, FALSE, 0, gate.of, c)
        /\ \A b \in Ask!Actors \ {"phone"} : op'[b] = op[b]
    <3> DEFINE p == OpOf("toggle", None, FALSE, 0, gate.of, c)
    <3>1. IsOp(p)
      BY DEF IsOp
    <3>2. /\ p.of \in 0..gate'.of /\ p.req \in 0..ask'.n /\ p.chosen \subseteq Ask!Options
          /\ p.step \in {"merge", "file", "run"} => p.said \in Ask!Replies
      BY <1>0, <2>1, <2>2 DEF AskHoldTyped, AskGateTyped, AskOpTyped, Ask!Actors
    <3>3. /\ gate.of \in Nat /\ gate'.of \in Nat /\ gate.of <= gate'.of
          /\ ask.n \in Nat /\ ask'.n \in Nat /\ ask.n <= ask'.n /\ "phone" \in Ask!Actors
      BY <1>0, <2>1, <2>2 DEF AskHoldTyped, AskGateTyped, Ask!Actors
    <3>4. op' = [op EXCEPT !["phone"] = p]
      BY <2>1
    <3> HIDE DEF p
    <3>5. QED
      BY <1>0, <3>1, <3>2, <3>3, <3>4, OpMoves DEF p
  <2>10. AskHoldTyped'
    BY <1>0, <2>1 DEF AskHoldTyped, Ask!Holds
  <2>11. AskGateTyped'
    BY <1>0, <2>1, <2>3 DEF AskHoldTyped, AskGateTyped, AskOpTyped, Replied, CardTrue
  <2>12. AskOpTyped'
    BY <2>3
  <2>13. HistoryTyped'
    BY <1>0, <2>1, <2>3 DEF AskHoldTyped, AskGateTyped, HistoryTyped, Ask!Holds
  <2>14. Grows(past, past')
    BY <1>0, <2>1, <2>3 DEF HistoryTyped, Grows
  <2>15. RepliesBacked'
    <3>1. OpsHeld
      BY <1>0, <2>1, <2>3 DEF AskOpTyped, OpsHeld
    <3>2. HeardHeld /\ FileHeld /\ ResultHeld
      BY <2>1 DEF HeardHeld, FileHeld, ResultHeld
    <3>3. ask'.n \in 0..MaxHolds /\ ask.n <= ask'.n
      BY <1>0, <2>1 DEF AskHoldTyped
    <3>4. QED
      BY <2>14, <3>1, <3>2, <3>3, RepliesGrow
  <2>16. CardTrue'
    BY <1>0, <2>1, <2>3 DEF AskHoldTyped, AskGateTyped, AskOpTyped, HistoryTyped, CardTrue,
        ParkedOnce, Ticked, Untouched, Ask!Actors, Ask!Holds
  <2>17. QED
    BY <2>10, <2>11, <2>12, <2>13, <2>15, <2>16 DEF AskInv, AskTyped
<1>21. CASE Ask!ToggleMerge
  <2>1. /\ op["phone"].step = "toggle"
        /\ gate' = [awaiting |-> gate.awaiting, approval |-> gate.approval, kind
             |-> gate.kind, of |-> gate.of, req |-> gate.req, live |-> gate.live, selected
             |-> op["phone"].chosen, result |-> gate.result, aged |-> gate.aged]
        /\ ask' = [n |-> ask.n, kind |-> ask.kind, step |-> ask.step, age |-> ask.age]
        /\ op' = [op EXCEPT !["phone"] = Stepped("show", op["phone"])]
        /\ past' = [yes |-> past.yes, picked |-> past.picked, crossed |-> past.crossed
             \/ gate.of # op["phone"].of]
        /\ UNCHANGED <<heard, file, card>>
    <3>1. op["phone"] = Stepped(op["phone"].step, op["phone"]) /\ "phone" \in Ask!Actors
      BY <1>0 DEF AskOpTyped, IsOp, Ask!Actors
    <3>2. op["phone"].step = "toggle"
      BY <1>0, <3>1, <1>21 DEF Ask!ToggleMerge, Ask!Step
    <3>3. gate' = [awaiting |-> gate.awaiting, approval |-> gate.approval, kind |-> gate.kind,
            of |-> gate.of, req |-> gate.req, live |-> gate.live, selected
            |-> op["phone"].chosen, result |-> gate.result, aged |-> gate.aged]
      BY <1>0, <3>1, <1>21 DEF Ask!ToggleMerge, Ask!Step, AskGateTyped
    <3>4. ask' = [n |-> ask.n, kind |-> ask.kind, step |-> ask.step, age |-> ask.age]
      BY <1>0, <3>1, <1>21 DEF Ask!ToggleMerge, Ask!Step, AskHoldTyped
    <3>5. op' = [op EXCEPT !["phone"] = Stepped("show", op["phone"])]
      <4>1. op' = [op EXCEPT !["phone"] = [op["phone"] EXCEPT !.step = "show"]]
        BY <1>0, <1>21 DEF Ask!ToggleMerge, Ask!Step
      <4>2. [op["phone"] EXCEPT !.step = "show"] = Stepped("show", op["phone"])
        BY <3>1
      <4>3. QED
        BY <4>1, <4>2
    <3>6. past' = [yes |-> past.yes, picked |-> past.picked, crossed |-> past.crossed
            \/ gate.of # op["phone"].of]
      BY <1>0, <3>1, <1>21 DEF Ask!ToggleMerge, Ask!Step, HistoryTyped
    <3>7. UNCHANGED <<heard, file, card>>
      BY <1>0, <3>1, <1>21 DEF Ask!ToggleMerge, Ask!Step
    <3>8. QED
      BY <3>2, <3>3, <3>4, <3>5, <3>6, <3>7
  <2>3. AskOpTyped' /\ op'["phone"] = Stepped("show", op["phone"])
        /\ \A b \in Ask!Actors \ {"phone"} : op'[b] = op[b]
    <3> DEFINE o == Stepped("show", op["phone"])
    <3>1. IsOp(o)
      BY DEF IsOp
    <3>2. /\ o.of \in 0..gate'.of /\ o.req \in 0..ask'.n /\ o.chosen \subseteq Ask!Options
          /\ o.step \in {"merge", "file", "run"} => o.said \in Ask!Replies
      BY <1>0, <2>1 DEF AskHoldTyped, AskGateTyped, AskOpTyped, Ask!Actors
    <3>3. /\ gate.of \in Nat /\ gate'.of \in Nat /\ gate.of <= gate'.of
          /\ ask.n \in Nat /\ ask'.n \in Nat /\ ask.n <= ask'.n /\ "phone" \in Ask!Actors
      BY <1>0, <2>1 DEF AskHoldTyped, AskGateTyped, Ask!Actors
    <3>4. op' = [op EXCEPT !["phone"] = o]
      BY <2>1
    <3> HIDE DEF o
    <3>5. QED
      BY <1>0, <3>1, <3>2, <3>3, <3>4, OpMoves DEF o
  <2>4. op["phone"].chosen \subseteq Ask!Options
    BY <1>0 DEF AskOpTyped, Ask!Actors
  <2>10. AskHoldTyped'
    BY <1>0, <2>1 DEF AskHoldTyped, Ask!Holds
  <2>11. AskGateTyped'
    BY <1>0, <2>1, <2>3, <2>4 DEF AskHoldTyped, AskGateTyped, AskOpTyped, Replied, CardTrue
  <2>12. AskOpTyped'
    BY <2>3
  <2>13. HistoryTyped'
    BY <1>0, <2>1, <2>3, <2>4 DEF AskHoldTyped, AskGateTyped, HistoryTyped, Ask!Holds
  <2>14. Grows(past, past')
    BY <1>0, <2>1, <2>3, <2>4 DEF HistoryTyped, Grows
  <2>15. RepliesBacked'
    <3>1. OpsHeld
      BY <1>0, <2>1, <2>3 DEF AskOpTyped, OpsHeld
    <3>2. HeardHeld /\ FileHeld /\ ResultHeld
      BY <2>1 DEF HeardHeld, FileHeld, ResultHeld
    <3>3. ask'.n \in 0..MaxHolds /\ ask.n <= ask'.n
      BY <1>0, <2>1 DEF AskHoldTyped
    <3>4. QED
      BY <2>14, <3>1, <3>2, <3>3, RepliesGrow
  <2>16. CardTrue'
    BY <1>0, <2>1, <2>3, <2>4 DEF AskHoldTyped, AskGateTyped, AskOpTyped, HistoryTyped,
        CardTrue, ParkedOnce, Ticked, Untouched, Ask!Actors, Ask!Holds
  <2>17. QED
    BY <2>10, <2>11, <2>12, <2>13, <2>15, <2>16 DEF AskInv, AskTyped
<1>22. CASE Ask!ToggleShow
  <2>1. /\ op["phone"].step = "show"
        /\ card' = [of |-> op["phone"].of, kind |-> "multi", selected |-> op["phone"].chosen]
        /\ ask' = [n |-> ask.n, kind |-> ask.kind, step |-> ask.step, age |-> ask.age]
        /\ op' = [op EXCEPT !["phone"] = NoOp]
        /\ UNCHANGED <<heard, file, gate, past>>
    <3>1. op["phone"] = Stepped(op["phone"].step, op["phone"]) /\ "phone" \in Ask!Actors
      BY <1>0 DEF AskOpTyped, IsOp, Ask!Actors
    <3>2. op["phone"].step = "show"
      BY <1>0, <3>1, <1>22 DEF Ask!ToggleShow, Ask!Step, Ask!Leave, Ask!IdleOp
    <3>3. card' = [of |-> op["phone"].of, kind |-> "multi", selected |-> op["phone"].chosen]
      BY <1>0, <3>1, <1>22 DEF Ask!ToggleShow, Ask!Step, Ask!Leave, Ask!IdleOp
    <3>4. ask' = [n |-> ask.n, kind |-> ask.kind, step |-> ask.step, age |-> ask.age]
      BY <1>0, <3>1, <1>22 DEF Ask!ToggleShow, Ask!Step, Ask!Leave, Ask!IdleOp, AskHoldTyped
    <3>5. op' = [op EXCEPT !["phone"] = NoOp]
      BY <1>0, <3>1, <1>22 DEF Ask!ToggleShow, Ask!Step, Ask!Leave, Ask!IdleOp
    <3>6. UNCHANGED <<heard, file, gate, past>>
      BY <1>0, <3>1, <1>22 DEF Ask!ToggleShow, Ask!Step, Ask!Leave, Ask!IdleOp
    <3>7. QED
      BY <3>2, <3>3, <3>4, <3>5, <3>6
  <2>3. AskOpTyped' /\ op'["phone"] = NoOp
        /\ \A b \in Ask!Actors \ {"phone"} : op'[b] = op[b]
    <3> DEFINE o == NoOp
    <3>1. IsOp(o)
      BY DEF IsOp
    <3>2. /\ o.of \in 0..gate'.of /\ o.req \in 0..ask'.n /\ o.chosen \subseteq Ask!Options
          /\ o.step \in {"merge", "file", "run"} => o.said \in Ask!Replies
      BY <1>0, <2>1 DEF AskHoldTyped, AskGateTyped, AskOpTyped, Ask!Actors
    <3>3. /\ gate.of \in Nat /\ gate'.of \in Nat /\ gate.of <= gate'.of
          /\ ask.n \in Nat /\ ask'.n \in Nat /\ ask.n <= ask'.n /\ "phone" \in Ask!Actors
      BY <1>0, <2>1 DEF AskHoldTyped, AskGateTyped, Ask!Actors
    <3>4. op' = [op EXCEPT !["phone"] = o]
      BY <2>1
    <3> HIDE DEF o
    <3>5. QED
      BY <1>0, <3>1, <3>2, <3>3, <3>4, OpMoves DEF o
  <2>4. op["phone"].of \in 0..gate.of
    BY <1>0 DEF AskOpTyped, Ask!Actors
  <2>10. AskHoldTyped'
    BY <1>0, <2>1 DEF AskHoldTyped, Ask!Holds
  <2>11. AskGateTyped'
    BY <1>0, <2>1, <2>3, <2>4 DEF AskHoldTyped, AskGateTyped, AskOpTyped, Replied, CardTrue
  <2>12. AskOpTyped'
    BY <2>3
  <2>13. HistoryTyped'
    BY <1>0, <2>1, <2>3, <2>4 DEF AskHoldTyped, AskGateTyped, HistoryTyped, Ask!Holds
  <2>14. Grows(past, past')
    BY <2>1, GrowsNot
  <2>15. RepliesBacked'
    <3>1. OpsHeld
      BY <1>0, <2>1, <2>3 DEF AskOpTyped, OpsHeld
    <3>2. HeardHeld /\ FileHeld /\ ResultHeld
      BY <2>1 DEF HeardHeld, FileHeld, ResultHeld
    <3>3. ask'.n \in 0..MaxHolds /\ ask.n <= ask'.n
      BY <1>0, <2>1 DEF AskHoldTyped
    <3>4. QED
      BY <2>14, <3>1, <3>2, <3>3, RepliesGrow
  <2>16. CardTrue'
    BY <1>0, <2>1, <2>3, <2>4 DEF AskHoldTyped, AskGateTyped, AskOpTyped, HistoryTyped,
        CardTrue, ParkedOnce, Ticked, Untouched, Ask!Actors, Ask!Holds
  <2>17. QED
    BY <2>10, <2>11, <2>12, <2>13, <2>15, <2>16 DEF AskInv, AskTyped
<1>23. CASE Ask!TapConfirm
  <2>0. /\ Ask!Said("allow", gate.selected) \in Ask!Replies
        /\ Ask!Said("allow", gate.selected).decision = "allow"
        /\ Ask!Said("allow", gate.selected).answer = gate.selected
    BY <1>0, SaidIsReply DEF AskGateTyped
  <2>1. /\ op["phone"].step = "idle" /\ gate.awaiting /\ gate.kind = "multi"
        /\ gate.selected # {}
        /\ ask' = [n |-> ask.n, kind |-> ask.kind, step |-> ask.step, age |-> ask.age]
        /\ op' = [op EXCEPT !["phone"] = OpOf("merge", Ask!Said("allow", gate.selected),
             gate.live, gate.req, gate.of, {})]
        /\ past' = [yes |-> past.yes \cup {gate.of}, picked |-> [past.picked EXCEPT ![gate.of]
             = card.selected], crossed |-> past.crossed \/ card.of # gate.of]
        /\ UNCHANGED <<heard, file, gate, card>>
    <3>1. op["phone"] = Stepped(op["phone"].step, op["phone"]) /\ "phone" \in Ask!Actors
      BY <1>0 DEF AskOpTyped, IsOp, Ask!Actors
    <3>2. op["phone"].step = "idle" /\ gate.awaiting /\ gate.kind = "multi"
      BY <1>0, <3>1, <1>23 DEF Ask!TapConfirm, Ask!Step, Ask!BeginFinish, Ask!Idle
    <3>3. gate.selected # {}
      BY <1>0, <3>1, <1>23 DEF Ask!TapConfirm, Ask!Step, Ask!BeginFinish, Ask!Idle
    <3>4. ask' = [n |-> ask.n, kind |-> ask.kind, step |-> ask.step, age |-> ask.age]
      BY <1>0, <3>1, <1>23 DEF Ask!TapConfirm, Ask!Step, Ask!BeginFinish, Ask!Idle, AskHoldTyped
    <3>5. op' = [op EXCEPT !["phone"] = OpOf("merge", Ask!Said("allow", gate.selected),
            gate.live, gate.req, gate.of, {})]
      BY <1>0, <3>1, <1>23 DEF Ask!TapConfirm, Ask!Step, Ask!BeginFinish, Ask!Idle
    <3>6. past' = [yes |-> past.yes \cup {gate.of}, picked |-> [past.picked EXCEPT ![gate.of]
            = card.selected], crossed |-> past.crossed \/ card.of # gate.of]
      BY <1>0, <3>1, <1>23 DEF Ask!TapConfirm, Ask!Step, Ask!BeginFinish, Ask!Idle, HistoryTyped
    <3>7. UNCHANGED <<heard, file, gate, card>>
      BY <1>0, <3>1, <1>23 DEF Ask!TapConfirm, Ask!Step, Ask!BeginFinish, Ask!Idle
    <3>8. QED
      BY <3>2, <3>3, <3>4, <3>5, <3>6, <3>7
  <2>3. AskOpTyped' /\ op'["phone"] = OpOf("merge", Ask!Said("allow", gate.selected),
          gate.live, gate.req, gate.of, {})
        /\ \A b \in Ask!Actors \ {"phone"} : op'[b] = op[b]
    <3> DEFINE o == OpOf("merge", Ask!Said("allow", gate.selected), gate.live, gate.req,
          gate.of, {})
    <3>1. IsOp(o)
      BY DEF IsOp
    <3>2. /\ o.of \in 0..gate'.of /\ o.req \in 0..ask'.n /\ o.chosen \subseteq Ask!Options
          /\ o.step \in {"merge", "file", "run"} => o.said \in Ask!Replies
      BY <1>0, <2>1, <2>0 DEF AskHoldTyped, AskGateTyped, AskOpTyped, Ask!Actors
    <3>3. /\ gate.of \in Nat /\ gate'.of \in Nat /\ gate.of <= gate'.of
          /\ ask.n \in Nat /\ ask'.n \in Nat /\ ask.n <= ask'.n /\ "phone" \in Ask!Actors
      BY <1>0, <2>1, <2>0 DEF AskHoldTyped, AskGateTyped, Ask!Actors
    <3>4. op' = [op EXCEPT !["phone"] = o]
      BY <2>1
    <3> HIDE DEF o
    <3>5. QED
      BY <1>0, <3>1, <3>2, <3>3, <3>4, OpMoves DEF o
  <2>4. gate.of \in Ask!Holds /\ gate.of \in 1..ask.n
    BY <1>0, <2>1 DEF AskHoldTyped, AskGateTyped, Ask!Holds
  <2>5. ~past.crossed => past.picked[gate.of] = {}
    BY <1>0, <2>1 DEF CardTrue, ParkedOnce
  <2>10. AskHoldTyped'
    BY <1>0, <2>1 DEF AskHoldTyped, Ask!Holds
  <2>11. AskGateTyped'
    BY <1>0, <2>1, <2>3, <2>4, <2>5 DEF AskHoldTyped, AskGateTyped, AskOpTyped, Replied,
        CardTrue
  <2>12. AskOpTyped'
    BY <2>3
  <2>13. HistoryTyped'
    BY <1>0, <2>1, <2>3, <2>4, <2>5 DEF AskHoldTyped, AskGateTyped, HistoryTyped, Ask!Holds
  <2>14. Grows(past, past')
    BY <1>0, <2>1, <2>3, <2>4, <2>5 DEF HistoryTyped, Grows
  <2>15. RepliesBacked'
    <3>1. OpsHeld
      <4>1. Backed(past', Ask!Said("allow", gate.selected), ask.n)
        <5>1. gate.of \in past'.yes /\ past'.picked[gate.of] = card.selected
          BY <1>0, <2>1, <2>4 DEF HistoryTyped
        <5>2. ~past'.crossed => card.selected = gate.selected
          <6>1. ~past'.crossed => ~past.crossed /\ card.of = gate.of
            BY <2>1
          <6>2. gate.of # 0
            BY <1>0, <2>1 DEF AskGateTyped
          <6>3. QED
            BY <1>0, <2>1, <6>1, <6>2 DEF CardTrue, Ticked
        <5>3. QED
          BY <2>0, <2>4, <5>1, <5>2 DEF Backed
      <4>2. QED
        BY <1>0, <2>1, <2>3, <4>1 DEF AskOpTyped, AskHoldTyped, OpsHeld
    <3>2. HeardHeld /\ FileHeld /\ ResultHeld
      BY <2>1 DEF HeardHeld, FileHeld, ResultHeld
    <3>3. ask'.n \in 0..MaxHolds /\ ask.n <= ask'.n
      BY <1>0, <2>1 DEF AskHoldTyped
    <3>4. QED
      BY <2>14, <3>1, <3>2, <3>3, RepliesGrow
  <2>16. CardTrue'
    <3>1. /\ past'.picked[gate.of] = card.selected
          /\ \A m \in Ask!Holds \ {gate.of} : past'.picked[m] = past.picked[m]
          /\ (~past'.crossed => ~past.crossed)
      BY <1>0, <2>1, <2>4 DEF HistoryTyped
    <3>2. op'["phone"].step = "merge" /\ op["phone"].step = "idle" /\ op'["loop"] = op["loop"]
      BY <2>1, <2>3 DEF Ask!Actors
    <3>3. ASSUME ~past'.crossed PROVE ParkedOnce'
      <4>1. ParkedOnce /\ gate.of \in Nat
        BY <1>0, <3>1, <3>3 DEF CardTrue, AskGateTyped
      <4>2. \A m \in Ask!Holds : past'.picked[m] # {} => m <= gate.of
        BY <3>1, <4>1 DEF ParkedOnce, Ask!Holds
      <4>3. QED
        BY <2>1, <3>2, <4>1, <4>2 DEF ParkedOnce
    <3>4. ASSUME ~past'.crossed PROVE Ticked'
      BY <1>0, <2>1, <3>1, <3>2, <3>4 DEF CardTrue, Ticked
    <3>5. ASSUME Untouched PROVE Untouched'
      BY <2>1, <3>2, <3>5 DEF Untouched
    <3>6. ask' = ask
      BY <1>0, <2>1 DEF AskHoldTyped
    <3>7. QED
      BY <1>0, <2>1, <3>1, <3>2, <3>3, <3>4, <3>5, <3>6 DEF CardTrue
  <2>17. QED
    BY <2>10, <2>11, <2>12, <2>13, <2>15, <2>16 DEF AskInv, AskTyped
<1>24. ASSUME NEW a \in Ask!Actors, NEW d \in {"allow", "always", "deny"}, Ask!Resolve(a, d)
      PROVE  AskInv'
  <2>0. Ask!Said(d, {}) \in Ask!Replies /\ Ask!Said(d, {}).decision = d
        /\ Ask!Said(d, {}).answer = {}
    BY SaidIsReply
  <2>1. /\ op[a].step = "idle" /\ gate.awaiting
        /\ ask' = [n |-> ask.n, kind |-> ask.kind, step |-> ask.step, age |-> ask.age]
        /\ op' = [op EXCEPT ![a] = OpOf("merge", Ask!Said(d, {}), gate.live, gate.req,
             gate.of, {})]
        /\ past' = [yes |-> IF Ask!Yes(d) THEN past.yes \cup {gate.of}
             ELSE past.yes, picked |-> past.picked, crossed |-> past.crossed]
        /\ UNCHANGED <<heard, file, gate, card>>
    <3>1. op[a] = Stepped(op[a].step, op[a]) /\ a \in Ask!Actors
      BY <1>0 DEF AskOpTyped, IsOp, Ask!Actors
    <3>2. op[a].step = "idle" /\ gate.awaiting
      BY <1>0, <3>1, <1>24 DEF Ask!Resolve, Ask!Step, Ask!BeginFinish, Ask!Idle,
          Ask!ResolveTool, Ask!ResolvePlan
    <3>3. ask' = [n |-> ask.n, kind |-> ask.kind, step |-> ask.step, age |-> ask.age]
      BY <1>0, <3>1, <1>24 DEF Ask!Resolve, Ask!Step, Ask!BeginFinish, Ask!Idle,
          Ask!ResolveTool, Ask!ResolvePlan, AskHoldTyped
    <3>4. op' = [op EXCEPT ![a] = OpOf("merge", Ask!Said(d, {}), gate.live, gate.req, gate.of,
            {})]
      BY <1>0, <3>1, <1>24 DEF Ask!Resolve, Ask!Step, Ask!BeginFinish, Ask!Idle,
          Ask!ResolveTool, Ask!ResolvePlan
    <3>5. past' = [yes |-> IF Ask!Yes(d) THEN past.yes \cup {gate.of}
            ELSE past.yes, picked |-> past.picked, crossed |-> past.crossed]
      BY <1>0, <3>1, <1>24 DEF Ask!Resolve, Ask!Step, Ask!BeginFinish, Ask!Idle,
          Ask!ResolveTool, Ask!ResolvePlan, HistoryTyped
    <3>6. UNCHANGED <<heard, file, gate, card>>
      BY <1>0, <3>1, <1>24 DEF Ask!Resolve, Ask!Step, Ask!BeginFinish, Ask!Idle,
          Ask!ResolveTool, Ask!ResolvePlan
    <3>7. QED
      BY <3>2, <3>3, <3>4, <3>5, <3>6
  <2>3. AskOpTyped' /\ op'[a] = OpOf("merge", Ask!Said(d, {}), gate.live, gate.req, gate.of, {})
        /\ \A b \in Ask!Actors \ {a} : op'[b] = op[b]
    <3> DEFINE o == OpOf("merge", Ask!Said(d, {}), gate.live, gate.req, gate.of, {})
    <3>1. IsOp(o)
      BY DEF IsOp
    <3>2. /\ o.of \in 0..gate'.of /\ o.req \in 0..ask'.n /\ o.chosen \subseteq Ask!Options
          /\ o.step \in {"merge", "file", "run"} => o.said \in Ask!Replies
      BY <1>0, <2>1, <2>0 DEF AskHoldTyped, AskGateTyped, AskOpTyped, Ask!Actors
    <3>3. /\ gate.of \in Nat /\ gate'.of \in Nat /\ gate.of <= gate'.of
          /\ ask.n \in Nat /\ ask'.n \in Nat /\ ask.n <= ask'.n /\ a \in Ask!Actors
      BY <1>0, <2>1, <2>0 DEF AskHoldTyped, AskGateTyped, Ask!Actors
    <3>4. op' = [op EXCEPT ![a] = o]
      BY <2>1
    <3> HIDE DEF o
    <3>5. QED
      BY <1>0, <3>1, <3>2, <3>3, <3>4, OpMoves DEF o
  <2>4. gate.of \in Ask!Holds /\ gate.of \in 1..ask.n
    BY <1>0, <2>1 DEF AskHoldTyped, AskGateTyped, Ask!Holds
  <2>10. AskHoldTyped'
    BY <1>0, <2>1 DEF AskHoldTyped, Ask!Holds
  <2>11. AskGateTyped'
    BY <1>0, <2>1, <2>3, <2>4 DEF AskHoldTyped, AskGateTyped, AskOpTyped, Replied, CardTrue
  <2>12. AskOpTyped'
    BY <2>3
  <2>13. HistoryTyped'
    BY <1>0, <2>1, <2>3, <2>4 DEF AskHoldTyped, AskGateTyped, HistoryTyped, Ask!Holds
  <2>14. Grows(past, past')
    BY <1>0, <2>1, <2>3, <2>4 DEF HistoryTyped, Grows
  <2>15. RepliesBacked'
    <3>1. OpsHeld
      <4>1. Backed(past', Ask!Said(d, {}), ask.n)
        <5>1. Ask!Yes(d) => gate.of \in past'.yes
          BY <1>0, <2>1, <2>4 DEF HistoryTyped
        <5>2. QED
          BY <2>0, <2>4, <5>1 DEF Backed
      <4>2. QED
        BY <1>0, <2>1, <2>3, <4>1 DEF AskOpTyped, AskHoldTyped, OpsHeld
    <3>2. HeardHeld /\ FileHeld /\ ResultHeld
      BY <2>1 DEF HeardHeld, FileHeld, ResultHeld
    <3>3. ask'.n \in 0..MaxHolds /\ ask.n <= ask'.n
      BY <1>0, <2>1 DEF AskHoldTyped
    <3>4. QED
      BY <2>14, <3>1, <3>2, <3>3, RepliesGrow
  <2>16. CardTrue'
    BY <1>0, <2>1, <2>3, <2>4 DEF AskHoldTyped, AskGateTyped, AskOpTyped, HistoryTyped,
        CardTrue, ParkedOnce, Ticked, Untouched, Ask!Actors, Ask!Holds
  <2>17. QED
    BY <2>10, <2>11, <2>12, <2>13, <2>15, <2>16 DEF AskInv, AskTyped
<1>25. CASE Ask!DrainResolve
  <2>1. /\ ask.step \in {"raise", "paint", "wait"} /\ gate.result # None
        /\ file' = [file EXCEPT ![ask.n] = gate.result]
        /\ ask' = [n |-> ask.n, kind |-> ask.kind, step |-> ask.step, age |-> ask.age]
        /\ UNCHANGED <<heard, gate, card, op, past>>
    BY <1>0, <1>25 DEF Ask!DrainResolve, Ask!Unanswered, AskHoldTyped
  <2>2. gate.result \in Ask!Replies /\ Backed(past, gate.result, ask.n)
    BY <1>0, <2>1 DEF AskGateTyped, Replied, RepliesBacked
  <2>10. AskHoldTyped'
    <3>1. /\ ask'.n \in 0..MaxHolds /\ (ask'.step # "off" => ask'.n \in Ask!Holds)
          /\ ask'.step \in {"off", "raise", "paint", "wait", "expire"}
      BY <1>0, <2>1 DEF AskHoldTyped, Ask!Holds
    <3>2. ask.n \in Nat
      BY <1>0, <2>1 DEF AskHoldTyped, AskOpTyped
    <3>3. QED
      BY <1>0, <2>1, <2>2, <3>1, <3>2, HoldMoves
  <2>11. AskGateTyped'
    BY <1>0, <2>1, <2>2 DEF AskHoldTyped, AskGateTyped, AskOpTyped, Replied, CardTrue
  <2>12. AskOpTyped'
    BY <1>0, <2>1, <2>2 DEF AskHoldTyped, AskGateTyped, AskOpTyped, IsOp
  <2>13. HistoryTyped'
    BY <1>0, <2>1, <2>2 DEF AskHoldTyped, AskGateTyped, HistoryTyped, Ask!Holds
  <2>14. Grows(past, past')
    BY <2>1, GrowsNot
  <2>15. RepliesBacked'
    <3>1. FileHeld
      <4>1. Backed(past', gate.result, ask.n)
        BY <2>1, <2>2
      <4>2. ask.n \in Nat /\ ask.n <= ask'.n /\ ask'.n = ask.n
        BY <1>0, <2>1 DEF AskHoldTyped
      <4>3. QED
        BY <1>0, <2>1, <4>1, <4>2, FileAt
    <3>2. HeardHeld /\ ResultHeld /\ OpsHeld
      BY <2>1 DEF HeardHeld, ResultHeld, OpsHeld
    <3>3. ask'.n \in 0..MaxHolds /\ ask.n <= ask'.n
      BY <1>0, <2>1 DEF AskHoldTyped
    <3>4. QED
      BY <2>14, <3>1, <3>2, <3>3, RepliesGrow
  <2>16. CardTrue'
    BY <1>0, <2>1, <2>2 DEF AskHoldTyped, AskGateTyped, AskOpTyped, HistoryTyped, CardTrue,
        ParkedOnce, Ticked, Untouched, Ask!Actors, Ask!Holds
  <2>17. QED
    BY <2>10, <2>11, <2>12, <2>13, <2>15, <2>16 DEF AskInv, AskTyped
<1>26. CASE Ask!DrainAged /\ gate.awaiting
  <2>0. Ask!Said("deny", {}) \in Ask!Replies /\ Ask!Said("deny", {}).decision = "deny"
        /\ Ask!Said("deny", {}).answer = {}
    BY SaidIsReply
  <2>1. /\ op["loop"].step = "idle"
        /\ ask.step \in {"raise", "paint", "wait"}
        /\ file' = [file EXCEPT ![ask.n] = Ask!Said("deny", {})]
        /\ ask' = [n |-> ask.n, kind |-> ask.kind, step |-> ask.step, age |-> ask.age]
        /\ op' = [op EXCEPT !["loop"] = Stepped("expire", op["loop"])]
        /\ UNCHANGED <<heard, gate, card, past>>
    <3>1. op["loop"] = Stepped(op["loop"].step, op["loop"]) /\ "loop" \in Ask!Actors
      BY <1>0 DEF AskOpTyped, IsOp, Ask!Actors
    <3>2. op["loop"].step = "idle"
      BY <1>0, <3>1, <1>26 DEF Ask!DrainAged, Ask!Step, Ask!Idle, Ask!Unanswered
    <3>3. ask.step \in {"raise", "paint", "wait"}
      BY <1>0, <3>1, <1>26 DEF Ask!DrainAged, Ask!Step, Ask!Idle, Ask!Unanswered
    <3>4. file' = [file EXCEPT ![ask.n] = Ask!Said("deny", {})]
      BY <1>0, <3>1, <1>26 DEF Ask!DrainAged, Ask!Step, Ask!Idle, Ask!Unanswered
    <3>5. ask' = [n |-> ask.n, kind |-> ask.kind, step |-> ask.step, age |-> ask.age]
      BY <1>0, <3>1, <1>26 DEF Ask!DrainAged, Ask!Step, Ask!Idle, Ask!Unanswered, AskHoldTyped
    <3>6. op' = [op EXCEPT !["loop"] = Stepped("expire", op["loop"])]
      <4>1. op' = [op EXCEPT !["loop"] = [op["loop"] EXCEPT !.step = "expire"]]
        BY <1>0, <1>26 DEF Ask!DrainAged, Ask!Step, Ask!Idle, Ask!Unanswered
      <4>2. [op["loop"] EXCEPT !.step = "expire"] = Stepped("expire", op["loop"])
        BY <3>1
      <4>3. QED
        BY <4>1, <4>2
    <3>7. UNCHANGED <<heard, gate, card, past>>
      BY <1>0, <3>1, <1>26 DEF Ask!DrainAged, Ask!Step, Ask!Idle, Ask!Unanswered
    <3>8. QED
      BY <3>2, <3>3, <3>4, <3>5, <3>6, <3>7
  <2>3. AskOpTyped' /\ op'["loop"] = Stepped("expire", op["loop"])
        /\ \A b \in Ask!Actors \ {"loop"} : op'[b] = op[b]
    <3> DEFINE o == Stepped("expire", op["loop"])
    <3>1. IsOp(o)
      BY DEF IsOp
    <3>2. /\ o.of \in 0..gate'.of /\ o.req \in 0..ask'.n /\ o.chosen \subseteq Ask!Options
          /\ o.step \in {"merge", "file", "run"} => o.said \in Ask!Replies
      BY <1>0, <2>1 DEF AskHoldTyped, AskGateTyped, AskOpTyped, Ask!Actors
    <3>3. /\ gate.of \in Nat /\ gate'.of \in Nat /\ gate.of <= gate'.of
          /\ ask.n \in Nat /\ ask'.n \in Nat /\ ask.n <= ask'.n /\ "loop" \in Ask!Actors
      BY <1>0, <2>1 DEF AskHoldTyped, AskGateTyped, Ask!Actors
    <3>4. op' = [op EXCEPT !["loop"] = o]
      BY <2>1
    <3> HIDE DEF o
    <3>5. QED
      BY <1>0, <3>1, <3>2, <3>3, <3>4, OpMoves DEF o
  <2>10. AskHoldTyped'
    <3>1. /\ ask'.n \in 0..MaxHolds /\ (ask'.step # "off" => ask'.n \in Ask!Holds)
          /\ ask'.step \in {"off", "raise", "paint", "wait", "expire"}
      BY <1>0, <2>1 DEF AskHoldTyped, Ask!Holds
    <3>2. ask.n \in Nat
      BY <1>0, <2>1 DEF AskHoldTyped, AskOpTyped
    <3>3. QED
      BY <1>0, <2>1, <2>0, <3>1, <3>2, HoldMoves
  <2>11. AskGateTyped'
    BY <1>0, <2>1, <2>0, <2>3 DEF AskHoldTyped, AskGateTyped, AskOpTyped, Replied, CardTrue
  <2>12. AskOpTyped'
    BY <2>3
  <2>13. HistoryTyped'
    BY <1>0, <2>1, <2>0, <2>3 DEF AskHoldTyped, AskGateTyped, HistoryTyped, Ask!Holds
  <2>14. Grows(past, past')
    BY <2>1, GrowsNot
  <2>15. RepliesBacked'
    <3>1. FileHeld
      <4>1. Backed(past', Ask!Said("deny", {}), ask.n)
        BY <2>0 DEF Backed, Ask!Yes
      <4>2. ask.n \in Nat /\ ask.n <= ask'.n /\ ask'.n = ask.n
        BY <1>0, <2>1 DEF AskHoldTyped
      <4>3. QED
        BY <1>0, <2>1, <4>1, <4>2, FileAt
    <3>2. OpsHeld
      BY <1>0, <2>1, <2>3 DEF AskOpTyped, OpsHeld
    <3>3. HeardHeld /\ ResultHeld
      BY <2>1 DEF HeardHeld, ResultHeld
    <3>4. ask'.n \in 0..MaxHolds /\ ask.n <= ask'.n
      BY <1>0, <2>1 DEF AskHoldTyped
    <3>5. QED
      BY <2>14, <3>1, <3>2, <3>3, <3>4, RepliesGrow
  <2>16. CardTrue'
    BY <1>0, <2>1, <2>0, <2>3 DEF AskHoldTyped, AskGateTyped, AskOpTyped, HistoryTyped,
        CardTrue, ParkedOnce, Ticked, Untouched, Ask!Actors, Ask!Holds
  <2>17. QED
    BY <2>10, <2>11, <2>12, <2>13, <2>15, <2>16 DEF AskInv, AskTyped
<1>27. CASE Ask!DrainAged /\ ~gate.awaiting
  <2>0. Ask!Said("deny", {}) \in Ask!Replies /\ Ask!Said("deny", {}).decision = "deny"
        /\ Ask!Said("deny", {}).answer = {}
    BY SaidIsReply
  <2>1. /\ ask.step \in {"raise", "paint", "wait"}
        /\ file' = [file EXCEPT ![ask.n] = Ask!Said("deny", {})]
        /\ ask' = [n |-> ask.n, kind |-> ask.kind, step |-> ask.step, age |-> ask.age]
        /\ UNCHANGED <<heard, op, gate, card, past>>
    BY <1>0, <1>27 DEF Ask!DrainAged, Ask!Unanswered, AskHoldTyped
  <2>10. AskHoldTyped'
    <3>1. /\ ask'.n \in 0..MaxHolds /\ (ask'.step # "off" => ask'.n \in Ask!Holds)
          /\ ask'.step \in {"off", "raise", "paint", "wait", "expire"}
      BY <1>0, <2>1 DEF AskHoldTyped, Ask!Holds
    <3>2. ask.n \in Nat
      BY <1>0, <2>1 DEF AskHoldTyped, AskOpTyped
    <3>3. QED
      BY <1>0, <2>1, <2>0, <3>1, <3>2, HoldMoves
  <2>11. AskGateTyped'
    BY <1>0, <2>1, <2>0 DEF AskHoldTyped, AskGateTyped, AskOpTyped, Replied, CardTrue
  <2>12. AskOpTyped'
    BY <1>0, <2>1, <2>0 DEF AskHoldTyped, AskGateTyped, AskOpTyped, IsOp
  <2>13. HistoryTyped'
    BY <1>0, <2>1, <2>0 DEF AskHoldTyped, AskGateTyped, HistoryTyped, Ask!Holds
  <2>14. Grows(past, past')
    BY <2>1, GrowsNot
  <2>15. RepliesBacked'
    <3>1. FileHeld
      <4>1. Backed(past', Ask!Said("deny", {}), ask.n)
        BY <2>0 DEF Backed, Ask!Yes
      <4>2. ask.n \in Nat /\ ask.n <= ask'.n /\ ask'.n = ask.n
        BY <1>0, <2>1 DEF AskHoldTyped
      <4>3. QED
        BY <1>0, <2>1, <4>1, <4>2, FileAt
    <3>2. HeardHeld /\ ResultHeld /\ OpsHeld
      BY <2>1 DEF HeardHeld, ResultHeld, OpsHeld
    <3>3. ask'.n \in 0..MaxHolds /\ ask.n <= ask'.n
      BY <1>0, <2>1 DEF AskHoldTyped
    <3>4. QED
      BY <2>14, <3>1, <3>2, <3>3, RepliesGrow
  <2>16. CardTrue'
    BY <1>0, <2>1, <2>0 DEF AskHoldTyped, AskGateTyped, AskOpTyped, HistoryTyped, CardTrue,
        ParkedOnce, Ticked, Untouched, Ask!Actors, Ask!Holds
  <2>17. QED
    BY <2>10, <2>11, <2>12, <2>13, <2>15, <2>16 DEF AskInv, AskTyped
<1>28. CASE Ask!DrainAllow
  <2>0. Ask!Said("allow", {}) \in Ask!Replies /\ Ask!Said("allow", {}).decision = "allow"
        /\ Ask!Said("allow", {}).answer = {}
    BY SaidIsReply
  <2>1. /\ ask.step \in {"raise", "paint", "wait"}
        /\ file' = [file EXCEPT ![ask.n] = Ask!Said("allow", {})]
        /\ past' = [yes |-> past.yes \cup {ask.n}, picked |-> past.picked, crossed
             |-> past.crossed]
        /\ ask' = [n |-> ask.n, kind |-> ask.kind, step |-> ask.step, age |-> ask.age]
        /\ UNCHANGED <<heard, gate, card, op>>
    BY <1>0, <1>28 DEF Ask!DrainAllow, Ask!Drainable, Ask!Unanswered, AskHoldTyped, HistoryTyped
  <2>10. AskHoldTyped'
    <3>1. /\ ask'.n \in 0..MaxHolds /\ (ask'.step # "off" => ask'.n \in Ask!Holds)
          /\ ask'.step \in {"off", "raise", "paint", "wait", "expire"}
      BY <1>0, <2>1 DEF AskHoldTyped, Ask!Holds
    <3>2. ask.n \in Nat
      BY <1>0, <2>1 DEF AskHoldTyped, AskOpTyped
    <3>3. QED
      BY <1>0, <2>1, <2>0, <3>1, <3>2, HoldMoves
  <2>11. AskGateTyped'
    BY <1>0, <2>1, <2>0 DEF AskHoldTyped, AskGateTyped, AskOpTyped, Replied, CardTrue
  <2>12. AskOpTyped'
    BY <1>0, <2>1, <2>0 DEF AskHoldTyped, AskGateTyped, AskOpTyped, IsOp
  <2>13. HistoryTyped'
    BY <1>0, <2>1, <2>0 DEF AskHoldTyped, AskGateTyped, HistoryTyped, Ask!Holds
  <2>14. Grows(past, past')
    BY <1>0, <2>1, <2>0 DEF HistoryTyped, Grows
  <2>15. RepliesBacked'
    <3>1. FileHeld
      <4>1. Backed(past', Ask!Said("allow", {}), ask.n)
        <5>1. ask.n \in 1..ask.n /\ ask.n \in past'.yes
          BY <1>0, <2>1 DEF AskHoldTyped, Ask!Holds
        <5>2. QED
          BY <2>0, <5>1 DEF Backed
      <4>2. ask.n \in Nat /\ ask.n <= ask'.n /\ ask'.n = ask.n
        BY <1>0, <2>1 DEF AskHoldTyped
      <4>3. QED
        BY <1>0, <2>1, <4>1, <4>2, FileAt
    <3>2. HeardHeld /\ ResultHeld /\ OpsHeld
      BY <2>1 DEF HeardHeld, ResultHeld, OpsHeld
    <3>3. ask'.n \in 0..MaxHolds /\ ask.n <= ask'.n
      BY <1>0, <2>1 DEF AskHoldTyped
    <3>4. QED
      BY <2>14, <3>1, <3>2, <3>3, RepliesGrow
  <2>16. CardTrue'
    BY <1>0, <2>1, <2>0 DEF AskHoldTyped, AskGateTyped, AskOpTyped, HistoryTyped, CardTrue,
        ParkedOnce, Ticked, Untouched, Ask!Actors, Ask!Holds
  <2>17. QED
    BY <2>10, <2>11, <2>12, <2>13, <2>15, <2>16 DEF AskInv, AskTyped
<1>29. CASE Ask!DrainRaise
  <2>1. /\ op["loop"].step = "idle"
        /\ ask.step \in {"raise", "paint", "wait"}
        /\ gate.result = None /\ ~gate.awaiting
        /\ gate' = Ask!Raised
        /\ ask' = [n |-> ask.n, kind |-> ask.kind, step |-> ask.step, age |-> ask.age]
        /\ op' = [op EXCEPT !["loop"] = OpOf("park", ask.kind, FALSE, 0, ask.n, {})]
        /\ UNCHANGED <<heard, file, card, past>>
    <3>1. op["loop"] = Stepped(op["loop"].step, op["loop"]) /\ "loop" \in Ask!Actors
      BY <1>0 DEF AskOpTyped, IsOp, Ask!Actors
    <3>2. op["loop"].step = "idle"
      BY <1>0, <3>1, <1>29 DEF Ask!DrainRaise, Ask!Step, Ask!Drainable, Ask!Unanswered, Ask!Idle
    <3>3. ask.step \in {"raise", "paint", "wait"}
      BY <1>0, <3>1, <1>29 DEF Ask!DrainRaise, Ask!Step, Ask!Drainable, Ask!Unanswered, Ask!Idle
    <3>4. gate.result = None /\ ~gate.awaiting
      BY <1>0, <3>1, <1>29 DEF Ask!DrainRaise, Ask!Step, Ask!Drainable, Ask!Unanswered, Ask!Idle
    <3>5. gate' = Ask!Raised
      BY <1>0, <3>1, <1>29 DEF Ask!DrainRaise, Ask!Step, Ask!Drainable, Ask!Unanswered,
          Ask!Idle, AskGateTyped
    <3>6. ask' = [n |-> ask.n, kind |-> ask.kind, step |-> ask.step, age |-> ask.age]
      BY <1>0, <3>1, <1>29 DEF Ask!DrainRaise, Ask!Step, Ask!Drainable, Ask!Unanswered,
          Ask!Idle, AskHoldTyped
    <3>7. op' = [op EXCEPT !["loop"] = OpOf("park", ask.kind, FALSE, 0, ask.n, {})]
      <4>1. op' = [op EXCEPT !["loop"] = [Ask!IdleOp EXCEPT !.step = "park", !.of = ask.n,
              !.said = ask.kind]]
        BY <1>0, <1>29 DEF Ask!DrainRaise, Ask!Step, Ask!Drainable, Ask!Unanswered, Ask!Idle
      <4>2. [Ask!IdleOp EXCEPT !.step = "park", !.of = ask.n, !.said = ask.kind]
              = OpOf("park", ask.kind, FALSE, 0, ask.n, {})
        BY Parking
      <4>3. QED
        BY <4>1, <4>2
    <3>8. UNCHANGED <<heard, file, card, past>>
      BY <1>0, <3>1, <1>29 DEF Ask!DrainRaise, Ask!Step, Ask!Drainable, Ask!Unanswered, Ask!Idle
    <3>9. QED
      BY <3>2, <3>3, <3>4, <3>5, <3>6, <3>7, <3>8
  <2>2. gate' = [awaiting |-> gate'.awaiting, approval |-> gate'.approval, kind
          |-> gate'.kind, of |-> gate'.of, req |-> gate'.req, live |-> gate'.live, selected
          |-> gate'.selected, result |-> gate'.result, aged |-> gate'.aged]
    BY <1>0, <2>1, RaisedGate
  <2>3. /\ gate'.awaiting = TRUE /\ gate'.of = ask.n /\ gate'.kind = ask.kind
             /\ gate'.result = None
        /\ gate'.req \in {gate.req, ask.n} /\ gate'.selected \in {gate.selected, {}}
        /\ gate'.kind # "plan" => gate'.selected = {}
    BY <1>0, <2>1, RaisedGate
  <2>4. AskOpTyped' /\ op'["loop"] = OpOf("park", ask.kind, FALSE, 0, ask.n, {})
        /\ \A b \in Ask!Actors \ {"loop"} : op'[b] = op[b]
    <3> DEFINE o == OpOf("park", ask.kind, FALSE, 0, ask.n, {})
    <3>1. IsOp(o)
      BY DEF IsOp
    <3>2. /\ o.of \in 0..gate'.of /\ o.req \in 0..ask'.n /\ o.chosen \subseteq Ask!Options
          /\ o.step \in {"merge", "file", "run"} => o.said \in Ask!Replies
      BY <1>0, <2>1, <2>3 DEF AskHoldTyped, AskGateTyped, AskOpTyped, Ask!Actors
    <3>3. /\ gate.of \in Nat /\ gate'.of \in Nat /\ gate.of <= gate'.of
          /\ ask.n \in Nat /\ ask'.n \in Nat /\ ask.n <= ask'.n /\ "loop" \in Ask!Actors
      BY <1>0, <2>1, <2>3 DEF AskHoldTyped, AskGateTyped, Ask!Actors
    <3>4. op' = [op EXCEPT !["loop"] = o]
      BY <2>1
    <3> HIDE DEF o
    <3>5. QED
      BY <1>0, <3>1, <3>2, <3>3, <3>4, OpMoves DEF o
  <2>10. AskHoldTyped'
    BY <1>0, <2>1 DEF AskHoldTyped, Ask!Holds
  <2>11. AskGateTyped'
    <3>1. ask'.n = ask.n /\ ask.n \in Nat /\ card' = card
      BY <1>0, <2>1 DEF AskHoldTyped
    <3>0. ask.n # 0 /\ ask.n \in 0..ask.n
      BY <1>0, <2>1 DEF AskHoldTyped, Ask!Holds
    <3>2. /\ gate'.awaiting \in BOOLEAN /\ gate'.of # 0
          /\ gate'.of \in 0..ask.n /\ gate'.req \in 0..ask.n
      BY <1>0, <2>3, <3>0 DEF AskGateTyped
    <3>5. gate'.selected \subseteq Ask!Options /\ Replied(gate'.result)
      BY <1>0, <2>3 DEF AskGateTyped, Replied
    <3>3. card.of \in 0..gate'.of
      BY <1>0, <2>3, <3>1 DEF AskGateTyped
    <3>4. QED
      BY <2>2, <3>1, <3>2, <3>3, <3>5 DEF AskGateTyped
  <2>12. AskOpTyped'
    BY <2>4
  <2>13. HistoryTyped'
    BY <1>0, <2>1, <2>3 DEF AskHoldTyped, AskGateTyped, HistoryTyped, Ask!Holds
  <2>14. Grows(past, past')
    BY <2>1, GrowsNot
  <2>15. RepliesBacked'
    <3>1. ResultHeld
      BY <2>3 DEF ResultHeld
    <3>2. OpsHeld
      BY <1>0, <2>1, <2>4 DEF AskOpTyped, OpsHeld
    <3>3. HeardHeld /\ FileHeld
      BY <2>1 DEF HeardHeld, FileHeld
    <3>4. ask'.n \in 0..MaxHolds /\ ask.n <= ask'.n
      BY <1>0, <2>1 DEF AskHoldTyped
    <3>5. QED
      BY <2>14, <3>1, <3>2, <3>3, <3>4, RepliesGrow
  <2>16. CardTrue'
    <3>1. ask.n # 0 /\ ask.n \in Ask!Holds /\ ask' = ask /\ ask.n \in Nat
      BY <1>0, <2>1 DEF AskHoldTyped, Ask!Holds
    <3>2. /\ op'["loop"].step = "park" /\ op'["loop"].of = ask.n
          /\ op'["phone"] = op["phone"]
      BY <2>4 DEF Ask!Actors
    <3>3. ASSUME ~past.crossed PROVE gate.of < ask.n /\ ask.step \notin {"paint", "wait"}
      <4>1. gate.of = 0 \/ gate.of # ask.n
        BY <1>0, <2>1, <3>3 DEF CardTrue, ParkedOnce
      <4>1a. ~(gate.of # 0)
        BY <1>0, <2>1, <3>3 DEF CardTrue, ParkedOnce
      <4>2. QED
        BY <1>0, <3>1, <4>1a DEF CardTrue, AskGateTyped
    <3>4. ASSUME ~past.crossed PROVE Untouched' /\ Ticked'
      <4>1. card.of < ask.n /\ op["phone"].of < ask.n /\ card.of # ask.n
              /\ op["phone"].of # ask.n
        BY <1>0, <3>1, <3>3, <3>4 DEF AskGateTyped, AskOpTyped, Ask!Actors
      <4>2. QED
        BY <2>1, <2>3, <3>2, <4>1 DEF Untouched, Ticked
    <3>5. ASSUME ~past.crossed PROVE ParkedOnce'
      <4>1. \A m \in Ask!Holds : past.picked[m] # {} => m <= gate.of
        BY <1>0, <3>5 DEF CardTrue, ParkedOnce
      <4>2. past.picked[ask.n] = {}
        BY <1>0, <3>1, <3>3, <3>5, <4>1 DEF AskGateTyped
      <4>3. \A m \in Ask!Holds : past.picked[m] # {} => m <= ask.n
        BY <1>0, <3>1, <3>3, <3>5, <4>1 DEF AskGateTyped, Ask!Holds
      <4>4. QED
        BY <2>1, <2>3, <3>1, <3>3, <3>5, <4>2, <4>3 DEF ParkedOnce
    <3>6. ask.step \in {"paint", "wait"} => gate.of = ask.n
      BY <1>0 DEF CardTrue
    <3>7. QED
      BY <2>1, <2>3, <3>1, <3>3, <3>4, <3>5, <3>6 DEF CardTrue
  <2>17. QED
    BY <2>10, <2>11, <2>12, <2>13, <2>15, <2>16 DEF AskInv, AskTyped
<1>30. CASE Ask!DrainPark
  <2>1. /\ op["loop"].step = "park"
        /\ card' = [of |-> op["loop"].of, kind |-> op["loop"].said, selected |-> {}]
        /\ ask' = [n |-> ask.n, kind |-> ask.kind, step |-> ask.step, age |-> ask.age]
        /\ op' = [op EXCEPT !["loop"] = NoOp]
        /\ UNCHANGED <<heard, file, gate, past>>
    <3>1. op["loop"] = Stepped(op["loop"].step, op["loop"]) /\ "loop" \in Ask!Actors
      BY <1>0 DEF AskOpTyped, IsOp, Ask!Actors
    <3>2. op["loop"].step = "park"
      BY <1>0, <3>1, <1>30 DEF Ask!DrainPark, Ask!Step, Ask!Leave, Ask!IdleOp
    <3>3. card' = [of |-> op["loop"].of, kind |-> op["loop"].said, selected |-> {}]
      BY <1>0, <3>1, <1>30 DEF Ask!DrainPark, Ask!Step, Ask!Leave, Ask!IdleOp
    <3>4. ask' = [n |-> ask.n, kind |-> ask.kind, step |-> ask.step, age |-> ask.age]
      BY <1>0, <3>1, <1>30 DEF Ask!DrainPark, Ask!Step, Ask!Leave, Ask!IdleOp, AskHoldTyped
    <3>5. op' = [op EXCEPT !["loop"] = NoOp]
      BY <1>0, <3>1, <1>30 DEF Ask!DrainPark, Ask!Step, Ask!Leave, Ask!IdleOp
    <3>6. UNCHANGED <<heard, file, gate, past>>
      BY <1>0, <3>1, <1>30 DEF Ask!DrainPark, Ask!Step, Ask!Leave, Ask!IdleOp
    <3>7. QED
      BY <3>2, <3>3, <3>4, <3>5, <3>6
  <2>3. AskOpTyped' /\ op'["loop"] = NoOp
        /\ \A b \in Ask!Actors \ {"loop"} : op'[b] = op[b]
    <3> DEFINE o == NoOp
    <3>1. IsOp(o)
      BY DEF IsOp
    <3>2. /\ o.of \in 0..gate'.of /\ o.req \in 0..ask'.n /\ o.chosen \subseteq Ask!Options
          /\ o.step \in {"merge", "file", "run"} => o.said \in Ask!Replies
      BY <1>0, <2>1 DEF AskHoldTyped, AskGateTyped, AskOpTyped, Ask!Actors
    <3>3. /\ gate.of \in Nat /\ gate'.of \in Nat /\ gate.of <= gate'.of
          /\ ask.n \in Nat /\ ask'.n \in Nat /\ ask.n <= ask'.n /\ "loop" \in Ask!Actors
      BY <1>0, <2>1 DEF AskHoldTyped, AskGateTyped, Ask!Actors
    <3>4. op' = [op EXCEPT !["loop"] = o]
      BY <2>1
    <3> HIDE DEF o
    <3>5. QED
      BY <1>0, <3>1, <3>2, <3>3, <3>4, OpMoves DEF o
  <2>4. op["loop"].of \in 0..gate.of
    BY <1>0 DEF AskOpTyped, Ask!Actors
  <2>10. AskHoldTyped'
    BY <1>0, <2>1 DEF AskHoldTyped, Ask!Holds
  <2>11. AskGateTyped'
    BY <1>0, <2>1, <2>3, <2>4 DEF AskHoldTyped, AskGateTyped, AskOpTyped, Replied, CardTrue
  <2>12. AskOpTyped'
    BY <2>3
  <2>13. HistoryTyped'
    BY <1>0, <2>1, <2>3, <2>4 DEF AskHoldTyped, AskGateTyped, HistoryTyped, Ask!Holds
  <2>14. Grows(past, past')
    BY <2>1, GrowsNot
  <2>15. RepliesBacked'
    <3>1. OpsHeld
      BY <1>0, <2>1, <2>3 DEF AskOpTyped, OpsHeld
    <3>2. HeardHeld /\ FileHeld /\ ResultHeld
      BY <2>1 DEF HeardHeld, FileHeld, ResultHeld
    <3>3. ask'.n \in 0..MaxHolds /\ ask.n <= ask'.n
      BY <1>0, <2>1 DEF AskHoldTyped
    <3>4. QED
      BY <2>14, <3>1, <3>2, <3>3, RepliesGrow
  <2>16. CardTrue'
    BY <1>0, <2>1, <2>3, <2>4 DEF AskHoldTyped, AskGateTyped, AskOpTyped, HistoryTyped,
        CardTrue, ParkedOnce, Ticked, Untouched, Ask!Actors, Ask!Holds
  <2>17. QED
    BY <2>10, <2>11, <2>12, <2>13, <2>15, <2>16 DEF AskInv, AskTyped
<1>31. CASE Ask!ExpireParked
  <2>1. /\ op["loop"].step = "idle"
        /\ ask' = [n |-> ask.n, kind |-> ask.kind, step |-> ask.step, age |-> ask.age]
        /\ op' = [op EXCEPT !["loop"] = Stepped("expire", op["loop"])]
        /\ UNCHANGED <<heard, file, gate, card, past>>
    <3>1. op["loop"] = Stepped(op["loop"].step, op["loop"]) /\ "loop" \in Ask!Actors
      BY <1>0 DEF AskOpTyped, IsOp, Ask!Actors
    <3>2. op["loop"].step = "idle"
      BY <1>0, <3>1, <1>31 DEF Ask!ExpireParked, Ask!Step, Ask!Idle
    <3>3. ask' = [n |-> ask.n, kind |-> ask.kind, step |-> ask.step, age |-> ask.age]
      BY <1>0, <3>1, <1>31 DEF Ask!ExpireParked, Ask!Step, Ask!Idle, AskHoldTyped
    <3>4. op' = [op EXCEPT !["loop"] = Stepped("expire", op["loop"])]
      <4>1. op' = [op EXCEPT !["loop"] = [op["loop"] EXCEPT !.step = "expire"]]
        BY <1>0, <1>31 DEF Ask!ExpireParked, Ask!Step, Ask!Idle
      <4>2. [op["loop"] EXCEPT !.step = "expire"] = Stepped("expire", op["loop"])
        BY <3>1
      <4>3. QED
        BY <4>1, <4>2
    <3>5. UNCHANGED <<heard, file, gate, card, past>>
      BY <1>0, <3>1, <1>31 DEF Ask!ExpireParked, Ask!Step, Ask!Idle
    <3>6. QED
      BY <3>2, <3>3, <3>4, <3>5
  <2>3. AskOpTyped' /\ op'["loop"] = Stepped("expire", op["loop"])
        /\ \A b \in Ask!Actors \ {"loop"} : op'[b] = op[b]
    <3> DEFINE o == Stepped("expire", op["loop"])
    <3>1. IsOp(o)
      BY DEF IsOp
    <3>2. /\ o.of \in 0..gate'.of /\ o.req \in 0..ask'.n /\ o.chosen \subseteq Ask!Options
          /\ o.step \in {"merge", "file", "run"} => o.said \in Ask!Replies
      BY <1>0, <2>1 DEF AskHoldTyped, AskGateTyped, AskOpTyped, Ask!Actors
    <3>3. /\ gate.of \in Nat /\ gate'.of \in Nat /\ gate.of <= gate'.of
          /\ ask.n \in Nat /\ ask'.n \in Nat /\ ask.n <= ask'.n /\ "loop" \in Ask!Actors
      BY <1>0, <2>1 DEF AskHoldTyped, AskGateTyped, Ask!Actors
    <3>4. op' = [op EXCEPT !["loop"] = o]
      BY <2>1
    <3> HIDE DEF o
    <3>5. QED
      BY <1>0, <3>1, <3>2, <3>3, <3>4, OpMoves DEF o
  <2>10. AskHoldTyped'
    BY <1>0, <2>1 DEF AskHoldTyped, Ask!Holds
  <2>11. AskGateTyped'
    BY <1>0, <2>1, <2>3 DEF AskHoldTyped, AskGateTyped, AskOpTyped, Replied, CardTrue
  <2>12. AskOpTyped'
    BY <2>3
  <2>13. HistoryTyped'
    BY <1>0, <2>1, <2>3 DEF AskHoldTyped, AskGateTyped, HistoryTyped, Ask!Holds
  <2>14. Grows(past, past')
    BY <2>1, GrowsNot
  <2>15. RepliesBacked'
    <3>1. OpsHeld
      BY <1>0, <2>1, <2>3 DEF AskOpTyped, OpsHeld
    <3>2. HeardHeld /\ FileHeld /\ ResultHeld
      BY <2>1 DEF HeardHeld, FileHeld, ResultHeld
    <3>3. ask'.n \in 0..MaxHolds /\ ask.n <= ask'.n
      BY <1>0, <2>1 DEF AskHoldTyped
    <3>4. QED
      BY <2>14, <3>1, <3>2, <3>3, RepliesGrow
  <2>16. CardTrue'
    BY <1>0, <2>1, <2>3 DEF AskHoldTyped, AskGateTyped, AskOpTyped, HistoryTyped, CardTrue,
        ParkedOnce, Ticked, Untouched, Ask!Actors, Ask!Holds
  <2>17. QED
    BY <2>10, <2>11, <2>12, <2>13, <2>15, <2>16 DEF AskInv, AskTyped
<1>32. CASE UNCHANGED Ask!vars
  <2>1. /\ ask' = [n |-> ask.n, kind |-> ask.kind, step |-> ask.step, age |-> ask.age]
        /\ UNCHANGED <<heard, file, gate, card, op, past>>
    BY <1>0, <1>32 DEF Ask!vars, AskHoldTyped
  <2>10. AskHoldTyped'
    BY <1>0, <2>1 DEF AskHoldTyped, Ask!Holds
  <2>11. AskGateTyped'
    BY <1>0, <2>1 DEF AskHoldTyped, AskGateTyped, AskOpTyped, Replied, CardTrue
  <2>12. AskOpTyped'
    BY <1>0, <2>1 DEF AskHoldTyped, AskGateTyped, AskOpTyped, IsOp
  <2>13. HistoryTyped'
    BY <1>0, <2>1 DEF AskHoldTyped, AskGateTyped, HistoryTyped, Ask!Holds
  <2>14. Grows(past, past')
    BY <2>1, GrowsNot
  <2>15. RepliesBacked'
    <3>1. HeardHeld /\ FileHeld /\ ResultHeld /\ OpsHeld
      BY <2>1 DEF HeardHeld, FileHeld, ResultHeld, OpsHeld
    <3>2. ask'.n \in 0..MaxHolds /\ ask.n <= ask'.n
      BY <1>0, <2>1 DEF AskHoldTyped
    <3>3. QED
      BY <2>14, <3>1, <3>2, RepliesGrow
  <2>16. CardTrue'
    BY <1>0, <2>1 DEF AskHoldTyped, AskGateTyped, AskOpTyped, HistoryTyped, CardTrue,
        ParkedOnce, Ticked, Untouched, Ask!Actors, Ask!Holds
  <2>17. QED
    BY <2>10, <2>11, <2>12, <2>13, <2>15, <2>16 DEF AskInv, AskTyped
<1>33. QED
  BY <1>1, <1>2, <1>3, <1>4, <1>5, <1>6, <1>7, <1>8, <1>9, <1>10, <1>11, <1>12, <1>13,
     <1>14, <1>15, <1>16, <1>17, <1>18, <1>19, <1>20, <1>21, <1>22, <1>23, <1>24, <1>25,
     <1>26, <1>27, <1>28, <1>29, <1>30, <1>31, <1>32 DEF Ask!Next, Ask!WorkerStep,
     Ask!ActorStep, Ask!TapVerb, Ask!SpokenVerb, Ask!Actors

(* AnswersStand: over every interleaving of taps, spoken verbs, drain,      *)
(* deadlines and expiry, a worker goes on with a yes only when a rule or    *)
(* somebody said yes by then (AskHold!YesWasSaid), and the options it is    *)
(* told are those a card of its run showed ticked when it was answered      *)
(* (AskHold!PickedHeard).                                                   *)
THEOREM AnswersStand ==
    ASSUME AskBounds PROVE Ask!Spec => [](Ask!YesWasSaid /\ Ask!PickedHeard)
<1>1. AskInv => Ask!YesWasSaid /\ Ask!PickedHeard
  BY DEF AskInv, RepliesBacked, Backed, Ask!YesWasSaid, Ask!PickedHeard
<1>2. Ask!Init => AskInv
  BY AskInit
<1>3. AskInv /\ [Ask!Next]_(Ask!vars) => AskInv'
  BY AskStep
<1>4. QED
  BY <1>1, <1>2, <1>3, PTL DEF Ask!Spec

-----------------------------------------------------------------------------
(* The gateway: each tap of a session reaches on_dispatch once, in order.   *)

Numbered == {"ready", "tap", "resumed"}
Closing == {"invalid", "invalid for good", "move", "reidentify", "fatal"}
Messages == [op : Numbered \cup Closing \cup {"hello"}, n : Nat]

\* The numbers of a session that have reached on_dispatch.
Heard(id) == {got[j][2] : j \in {k \in DOMAIN got : got[k][1] = id}}

\* The client has a session, of which everything up to its number was heard.
SessionTrue ==
    /\ session.id \in 0..discord.id /\ session.seq \in Nat /\ discord.last \in Nat
    /\ session.id # 0 => session.seq > 0 /\ Heard(session.id) = 2..session.seq
    /\ session.id = 0 => session.seq = 0
    /\ session.id = discord.id => session.seq <= discord.last
    /\ \A i \in DOMAIN got : got[i][1] \in 1..discord.id

\* The session that the numbers on the wire belong to is the client's.
Current == session.id = discord.id /\ session.id # 0

\* The number a message finds at the client: what the one before it brought.
Previous(i) == IF i = 1 THEN session.seq ELSE wire[i - 1].n
Follows(i)  == i = 1 \/ wire[i - 1].op \in Numbered

\* READY is of a session nobody has heard of.
NewSession == discord.id # 0 /\ discord.id # session.id /\ Heard(discord.id) = {}

\* The numbers on the wire follow on from the client's and from each other; a
\* message that closes the socket may stand in between.
InOrder(i) ==
    /\ wire[i].op = "hello" => i = 1
    /\ wire[i].op = "ready" =>
         wire[i].n = 1 /\ NewSession /\ \A j \in 1..(i - 1) : wire[j].op \in Closing
    /\ wire[i].op \in {"tap", "resumed"} /\ i = 1 => Current
    /\ wire[i].op = "tap" /\ Follows(i) => wire[i].n = Previous(i) + 1
    /\ wire[i].op = "resumed" /\ Follows(i) => wire[i].n = Previous(i)
    /\ wire[i].op \in Numbered => wire[i].n <= discord.last

WireInOrder == \A i \in DOMAIN wire : InOrder(i)

\* What Discord has sent, or has still to say, on this socket.
LinkTrue ==
    /\ phase # "open" => wire = <<>> /\ owes = "none" /\ ~attached
    /\ attached /\ wire = <<>> => Current /\ session.seq = discord.last
    /\ attached /\ wire # <<>> =>
         wire[Len(wire)].op \in Numbered /\ wire[Len(wire)].n = discord.last
    /\ attached => owes = "none" /\ discord.id # 0
    /\ owes # "none" => \A i \in DOMAIN wire : wire[i].op \in Closing
    /\ owes = "resume" => session.id # 0
    /\ wire # <<>> /\ wire[1].op = "hello" =>
         /\ owes = "none" /\ ~attached /\ (resuming => session.id # 0)
         /\ \A i \in 2..Len(wire) : wire[i].op \in Closing

GatewayTyped ==
    /\ wire \in Seq(Messages) /\ got \in Seq(Nat \X Nat)
    /\ session = [id |-> session.id, seq |-> session.seq, url |-> session.url]
    /\ discord = [id |-> discord.id, valid |-> discord.valid, last |-> discord.last]
    /\ discord.id \in Nat

\* The invariant.
GatewayInv ==
    GatewayTyped /\ SessionTrue /\ WireInOrder /\ LinkTrue /\ Gateway!OnceInOrder

(* GatewayInit: no socket and no session to begin with.                     *)
LEMMA GatewayInit == Gateway!Init => GatewayInv
<1> SUFFICES ASSUME Gateway!Init PROVE GatewayInv
  OBVIOUS
<1> USE DEF Gateway!Init, Gateway!NoSession
<1>1. GatewayTyped /\ SessionTrue
  BY DEF GatewayTyped, SessionTrue, Heard
<1>2. WireInOrder /\ LinkTrue /\ Gateway!OnceInOrder
  BY DEF WireInOrder, LinkTrue, Gateway!OnceInOrder
<1>3. QED
  BY <1>1, <1>2 DEF GatewayInv

(* HeardSame: what was heard stays heard while no tap comes.                *)
LEMMA HeardSame == ASSUME UNCHANGED got PROVE \A id : Heard(id)' = Heard(id)
  BY DEF Heard

(* OrderSame: nor does it become disordered.                                *)
LEMMA OrderSame == ASSUME UNCHANGED got, Gateway!OnceInOrder PROVE Gateway!OnceInOrder'
  BY DEF Gateway!OnceInOrder, Gateway!Before

\* Nothing that the invariant speaks of changes, but that Discord may let go of
\* the socket.
StaysQuiet ==
    /\ UNCHANGED <<session, wire, owes, got, resuming>> /\ discord'.id = discord.id
    /\ discord'.last = discord.last /\ (attached' => attached)
    /\ discord' = [id |-> discord'.id, valid |-> discord'.valid, last |-> discord'.last]
    /\ (phase' = "open" \/ (wire = <<>> /\ owes = "none" /\ ~attached))

(* GatewayQuiet: then it still holds.                                       *)
LEMMA GatewayQuiet == ASSUME GatewayInv, StaysQuiet PROVE GatewayInv'
<1> USE DEF GatewayInv, StaysQuiet
<1>1. GatewayTyped' /\ SessionTrue'
  BY DEF GatewayTyped, SessionTrue, Heard
<1>2. WireInOrder'
  <2> SUFFICES ASSUME NEW i \in DOMAIN wire PROVE InOrder(i)'
    BY DEF WireInOrder
  <2>1. InOrder(i)
    BY DEF WireInOrder
  <2>2. /\ Previous(i)' = Previous(i) /\ (Follows(i)' <=> Follows(i))
        /\ (NewSession' <=> NewSession) /\ (Current' <=> Current)
    BY HeardSame DEF Previous, Follows, NewSession, Current
  <2>3. QED
    BY <2>1, <2>2 DEF InOrder
<1>3. LinkTrue'
  BY DEF LinkTrue, Current
<1>4. Gateway!OnceInOrder'
  BY OrderSame
<1>5. QED
  BY <1>1, <1>2, <1>3, <1>4

(* GatewayUnlink: a socket that is closed takes its wire along; the session *)
(* is kept or given up.                                                     *)
LEMMA GatewayUnlink ==
    ASSUME GatewayInv, Gateway!Unlink, session' \in {session, Gateway!NoSession},
           UNCHANGED <<discord, got>>
    PROVE  GatewayInv'
<1> USE DEF GatewayInv, Gateway!Unlink, Gateway!NoSession
<1>1. GatewayTyped' /\ SessionTrue'
  BY DEF GatewayTyped, SessionTrue, Heard
<1>2. WireInOrder' /\ LinkTrue'
  BY DEF WireInOrder, LinkTrue
<1>3. Gateway!OnceInOrder'
  BY DEF Gateway!OnceInOrder, Gateway!Before
<1>4. QED
  BY <1>1, <1>2, <1>3

(* GatewayConnects: a new socket begins with Hello.                         *)
LEMMA GatewayConnects == ASSUME GatewayInv, Gateway!Connect PROVE GatewayInv'
<1> USE DEF GatewayInv, Gateway!Connect, Gateway!serverVars, Gateway!Message, Gateway!CanResume
<1>1. wire' = <<[op |-> "hello", n |-> 0]>> /\ ~attached' /\ owes' = "none"
      /\ UNCHANGED <<session, discord, got>> /\ (resuming' => session.id # 0)
  BY DEF LinkTrue
<1> HIDE DEF Gateway!Connect
<1>2. GatewayTyped' /\ SessionTrue'
  BY <1>1 DEF GatewayTyped, SessionTrue, Heard, Messages
<1>3. WireInOrder'
  BY <1>1 DEF WireInOrder, InOrder, Numbered
<1>4. LinkTrue'
  BY <1>1 DEF LinkTrue, Gateway!Connect
<1>5. Gateway!OnceInOrder'
  BY <1>1 DEF Gateway!OnceInOrder, Gateway!Before
<1>6. QED
  BY <1>2, <1>3, <1>4, <1>5

(* WireTail: what is on the wire when its first message is taken.           *)
LEMMA WireTail ==
    ASSUME wire \in Seq(Messages), wire # <<>>, wire' = Tail(wire)
    PROVE  /\ Len(wire) \in Nat \ {0} /\ wire[1] \in Messages /\ Head(wire) = wire[1]
           /\ wire' \in Seq(Messages) /\ Len(wire') = Len(wire) - 1
           /\ DOMAIN wire = 1..Len(wire) /\ DOMAIN wire' = 1..(Len(wire) - 1)
           /\ \A i \in 1..(Len(wire) - 1) : wire'[i] = wire[i + 1]
  OBVIOUS

(* GatewayHello: after Hello the client waits for what it asked for.        *)
LEMMA GatewayHello == ASSUME GatewayInv, Gateway!TakeHello PROVE GatewayInv'
<1> USE DEF GatewayInv
<1>1. /\ wire # <<>> /\ Head(wire).op = "hello" /\ wire' = Tail(wire) /\ phase = "open"
      /\ UNCHANGED <<phase, session, discord, got, attached>>
      /\ owes' \in {"resume", "identify"} /\ (owes' = "resume" => resuming)
  BY DEF Gateway!TakeHello, Gateway!Receives, Gateway!serverVars
<1>2. wire \in Seq(Messages)
  BY DEF GatewayTyped
<1>3. GatewayTyped' /\ SessionTrue'
  BY <1>1, <1>2, WireTail DEF GatewayTyped, SessionTrue, Heard
<1>4. ~attached /\ (resuming => session.id # 0)
        /\ \A i \in 2..Len(wire) : wire[i].op \in Closing
  BY <1>1, <1>2, WireTail DEF LinkTrue
<1>5. \A i \in DOMAIN wire' : wire'[i].op \in Closing
  BY <1>1, <1>2, <1>4, WireTail
<1>6. WireInOrder'
  BY <1>5 DEF WireInOrder, InOrder, Numbered, Closing
<1>7. LinkTrue'
  <2>1. wire' # <<>> => 1 \in DOMAIN wire'
    BY <1>3 DEF GatewayTyped
  <2>2. QED
    BY <1>1, <1>4, <1>5, <2>1 DEF LinkTrue, Closing
<1>8. Gateway!OnceInOrder'
  BY <1>1 DEF Gateway!OnceInOrder, Gateway!Before
<1>9. QED
  BY <1>3, <1>6, <1>7, <1>8

(* GatewayTakes: a numbered message brings the client to its number.        *)
LEMMA GatewayTakes ==
    ASSUME GatewayInv, wire # <<>>, wire[1].op \in Numbered, wire' = Tail(wire), phase = "open",
           UNCHANGED <<phase, discord, attached, owes>>,
           session' = [id |-> discord.id, seq |-> wire[1].n, url |-> session'.url],
           got \in Seq(Nat \X Nat), got' \in Seq(Nat \X Nat), Gateway!OnceInOrder',
           \A i \in DOMAIN got' : got'[i][1] \in 1..discord.id,
           Heard(discord.id)' = 2..wire[1].n
    PROVE  GatewayInv'
<1> USE DEF GatewayInv
<1>1. wire \in Seq(Messages)
  BY DEF GatewayTyped
<1>2. wire[1].n \in Nat \ {0} /\ wire[1].n <= discord.last /\ discord.id # 0 /\ owes = "none"
      /\ (wire[1].op # "ready" => Current)
  <2>1. 1 \in DOMAIN wire /\ wire[1] \in Messages
    BY <1>1, WireTail
  <2>2. InOrder(1)
    BY <2>1 DEF WireInOrder
  <2>3. wire[1].op \notin Closing
    BY DEF Numbered, Closing
  <2>4. owes = "none"
    BY <2>1, <2>3 DEF LinkTrue
  <2>5. wire[1].n \in Nat
    BY <2>1 DEF Messages
  <2>6. CASE wire[1].op = "ready"
    BY <2>2, <2>4, <2>6 DEF InOrder, NewSession, Numbered
  <2>7. CASE wire[1].op # "ready"
    BY <2>2, <2>4, <2>5, <2>7 DEF InOrder, Current, Numbered, Follows, Previous, SessionTrue
  <2>8. QED
    BY <2>6, <2>7
<1>3. GatewayTyped' /\ SessionTrue'
  BY <1>1, <1>2, WireTail DEF GatewayTyped, SessionTrue
<1>4. Current'
  BY <1>2 DEF Current
<1>5. WireInOrder'
  <2> SUFFICES ASSUME NEW i \in 1..(Len(wire) - 1) PROVE InOrder(i)'
    BY <1>1, WireTail DEF WireInOrder
  <2>1. /\ i \in Nat /\ i > 0 /\ i + 1 \in DOMAIN wire /\ wire'[i] = wire[i + 1]
        /\ (i # 1 => wire'[i - 1] = wire[i])
    BY <1>1, WireTail
  <2>2. InOrder(i + 1)
    BY <2>1 DEF WireInOrder
  <2>3. wire'[i].op # "hello" /\ wire'[i].op # "ready"
    <3>1. 1 \in 1..((i + 1) - 1) /\ i + 1 # 1
      BY <2>1
    <3>2. wire[1].op \notin Closing
      BY DEF Numbered, Closing
    <3>3. QED
      BY <2>1, <2>2, <3>1, <3>2 DEF InOrder
  <2>4. Previous(i)' = Previous(i + 1) /\ (Follows(i)' <=> Follows(i + 1))
    BY <2>1 DEF Previous, Follows
  <2>5. QED
    BY <2>1, <2>2, <2>3, <2>4, <1>4 DEF InOrder
<1>6. LinkTrue'
  <2>1. CASE wire' = <<>>
    <3>1. Len(wire') = 0
      <4>1. Len(<<>>) = 0
        OBVIOUS
      <4>2. QED
        BY <2>1, <4>1
    <3>2. Len(wire) = 1
      BY <1>1, <3>1, WireTail
    <3>3. QED
      BY <1>2, <1>4, <2>1, <3>2 DEF LinkTrue
  <2>2. CASE wire' # <<>>
    <3>1. Len(wire') # 0
      <4>1. \A s \in Seq(Messages) : Len(s) = 0 => s = <<>>
        OBVIOUS
      <4>2. QED
        BY <1>1, <2>2, <4>1, WireTail
    <3>2. /\ Len(wire) \in Nat /\ Len(wire) > 1 /\ wire'[Len(wire')] = wire[Len(wire)]
          /\ wire'[1] = wire[2] /\ 2 \in DOMAIN wire
      BY <1>1, <3>1, WireTail
    <3>3. wire'[1].op # "hello"
      BY <3>2 DEF WireInOrder, InOrder
    <3>4. QED
      BY <1>2, <2>2, <3>2, <3>3 DEF LinkTrue
  <2>3. QED
    BY <2>1, <2>2
<1>7. QED
  BY <1>3, <1>5, <1>6

(* GatewayHeads: READY begins a session, RESUMED brings nothing new, a tap  *)
(* is the next one.                                                         *)
LEMMA GatewayReady == ASSUME GatewayInv, Gateway!TakeReady PROVE GatewayInv'
<1> USE DEF GatewayInv, Gateway!TakeReady, Gateway!Receives, Gateway!serverVars
<1>1. wire \in Seq(Messages) /\ wire # <<>> /\ wire[1].op = "ready" /\ 1 \in DOMAIN wire
      /\ Head(wire) = wire[1]
  BY WireTail DEF GatewayTyped
<1>2. InOrder(1)
  BY <1>1 DEF WireInOrder
<1>3. wire[1].n = 1 /\ Heard(discord.id) = {}
  BY <1>1, <1>2 DEF InOrder, NewSession
<1>4. Heard(discord.id)' = 2..wire[1].n
  <2>1. Heard(discord.id)' = {} /\ 2..1 = {}
    BY <1>3, HeardSame
  <2>2. QED
    BY <1>3, <2>1
<1>5. Gateway!OnceInOrder' /\ got' \in Seq(Nat \X Nat)
      /\ \A i \in DOMAIN got' : got'[i][1] \in 1..discord.id
  BY OrderSame DEF GatewayTyped, SessionTrue
<1>6. QED
  BY <1>1, <1>4, <1>5, GatewayTakes DEF Numbered, GatewayTyped

LEMMA GatewayResumed == ASSUME GatewayInv, Gateway!TakeResumed PROVE GatewayInv'
<1> USE DEF GatewayInv, Gateway!TakeResumed, Gateway!Receives, Gateway!serverVars
<1>1. wire \in Seq(Messages) /\ wire # <<>> /\ wire[1].op = "resumed" /\ 1 \in DOMAIN wire
      /\ Head(wire) = wire[1]
  BY WireTail DEF GatewayTyped
<1>2. InOrder(1)
  BY <1>1 DEF WireInOrder
<1>3. wire[1].n = session.seq /\ Current
  BY <1>1, <1>2 DEF InOrder, Follows, Previous
<1>4. Heard(discord.id)' = 2..wire[1].n
  BY <1>3, HeardSame DEF Current, SessionTrue
<1>5. Gateway!OnceInOrder' /\ got' \in Seq(Nat \X Nat)
      /\ \A i \in DOMAIN got' : got'[i][1] \in 1..discord.id
  BY OrderSame DEF GatewayTyped, SessionTrue
<1>6. session' = [id |-> discord.id, seq |-> wire[1].n, url |-> session'.url]
  BY <1>1, <1>3 DEF Current, GatewayTyped
<1>7. QED
  BY <1>1, <1>4, <1>5, <1>6, GatewayTakes DEF Numbered, GatewayTyped

LEMMA GatewayTap == ASSUME GatewayInv, Gateway!TakeTap PROVE GatewayInv'
<1> USE DEF GatewayInv
<1>1. /\ wire \in Seq(Messages) /\ wire # <<>> /\ wire[1].op = "tap" /\ 1 \in DOMAIN wire
      /\ Head(wire) = wire[1] /\ got' = Append(got, <<session.id, wire[1].n>>)
      /\ UNCHANGED <<phase, discord, attached, owes>> /\ phase = "open" /\ wire' = Tail(wire)
      /\ session' = [session EXCEPT !.seq = wire[1].n]
  <2>1. wire \in Seq(Messages)
    BY DEF GatewayTyped
  <2>2. /\ wire # <<>> /\ Head(wire).op = "tap" /\ got' = Append(got, <<session.id,
             Head(wire).n>>)
        /\ UNCHANGED <<phase, discord, attached, owes>> /\ phase = "open" /\ wire' = Tail(wire)
        /\ session' = [session EXCEPT !.seq = Head(wire).n]
    BY DEF Gateway!TakeTap, Gateway!Receives, Gateway!serverVars
  <2>3. Head(wire) = wire[1] /\ 1 \in DOMAIN wire
    BY <2>1, <2>2, WireTail
  <2>4. QED
    BY <2>1, <2>2, <2>3
<1>2. InOrder(1)
  BY <1>1 DEF WireInOrder
<1>3. wire[1].n = session.seq + 1 /\ Current
  BY <1>1, <1>2 DEF InOrder, Follows, Previous
<1> DEFINE e == <<session.id, wire[1].n>>
<1>4. /\ session.id \in Nat \ {0} /\ session.id = discord.id /\ session.seq \in Nat \ {0}
      /\ Heard(session.id) = 2..session.seq /\ got \in Seq(Nat \X Nat) /\ e \in Nat \X Nat
  BY <1>3 DEF Current, SessionTrue, GatewayTyped
<1>5. /\ got' \in Seq(Nat \X Nat) /\ Len(got) \in Nat /\ DOMAIN got = 1..Len(got)
      /\ DOMAIN got' = 1..(Len(got) + 1) /\ got'[Len(got) + 1] = e
      /\ \A i \in 1..Len(got) : got'[i] = got[i]
  BY <1>1, <1>4
<1>6. e[1] = session.id /\ e[2] = session.seq + 1
  BY <1>3
<1> HIDE DEF e
<1> PICK top : top = Len(got) + 1
  OBVIOUS
<1>7. /\ top \in Nat /\ 1..(top - 1) = 1..Len(got) /\ DOMAIN got' = 1..Len(got) \cup {top}
      /\ top \notin 1..Len(got) /\ got'[top] = e
  BY <1>5
<1>8. {k \in 1..(top - 1) : got'[k][1] = got'[top][1]} = {k \in DOMAIN got : got[k][1]
        = session.id}
  BY <1>5, <1>6, <1>7
<1>9. Gateway!Before(top)' = Heard(session.id)
  <2>1. Gateway!Before(top)'
          = {got'[j][2] : j \in {k \in DOMAIN got : got[k][1] = session.id}}
    BY <1>8 DEF Gateway!Before
  <2>2. QED
    BY <2>1, <1>5 DEF Heard
<1>10. Gateway!OnceInOrder'
  <2>1. ASSUME NEW i \in 1..Len(got)
        PROVE  got'[i][2] > 1 /\ Gateway!Before(i)' = 2..(got'[i][2] - 1)
    <3>1. \A k \in 1..(i - 1) : got'[k] = got[k]
      BY <1>5
    <3>2. {k \in 1..(i - 1) : got'[k][1] = got'[i][1]} = {k \in 1..(i - 1) : got[k][1]
            = got[i][1]}
      BY <1>5, <3>1
    <3>3. Gateway!Before(i)' = {got'[j][2] : j \in {k \in 1..(i - 1) : got[k][1] = got[i][1]}}
      BY <3>2 DEF Gateway!Before
    <3>4. Gateway!Before(i)' = Gateway!Before(i)
      <4> DEFINE S == {k \in 1..(i - 1) : got[k][1] = got[i][1]}
      <4>1. \A j \in S : got'[j] = got[j]
        BY <3>1
      <4>2. Gateway!Before(i) = {got[j][2] : j \in S}
        BY DEF Gateway!Before
      <4> HIDE DEF S
      <4>3. {got'[j][2] : j \in S} = {got[j][2] : j \in S}
        BY <4>1
      <4>4. QED
        BY <3>3, <4>2, <4>3 DEF S
    <3>5. QED
      BY <1>5, <3>4 DEF Gateway!OnceInOrder
  <2>2. got'[top][2] > 1 /\ Gateway!Before(top)' = 2..(got'[top][2] - 1)
    <3>1. got'[top][2] = session.seq + 1
      BY <1>6, <1>7
    <3>2. session.seq + 1 > 1 /\ (session.seq + 1) - 1 = session.seq
      BY <1>4
    <3>3. QED
      BY <1>4, <1>9, <3>1, <3>2
  <2>3. QED
    BY <1>7, <2>1, <2>2 DEF Gateway!OnceInOrder
<1>11. Heard(discord.id)' = 2..wire[1].n
  <2> PICK c : c = session.id
    OBVIOUS
  <2>1. {k \in DOMAIN got' : got'[k][1] = c} = {k \in DOMAIN got : got[k][1] = c} \cup {top}
    BY <1>5, <1>6, <1>7
  <2>2. Heard(c)' = {got'[j][2] : j \in {k \in DOMAIN got : got[k][1] = c} \cup {top}}
    BY <2>1 DEF Heard
  <2>3. Heard(c)' = {got[j][2] : j \in {k \in DOMAIN got : got[k][1] = c}} \cup {got'[top][2]}
    BY <2>2, <1>5
  <2>4. Heard(c)' = 2..session.seq \cup {session.seq + 1}
    BY <2>3, <1>4, <1>6, <1>7 DEF Heard
  <2>5. Heard(c)' = 2..wire[1].n
    BY <2>4, <1>3, <1>4
  <2>6. c = discord'.id
    BY <1>1, <1>4
  <2>7. QED
    BY <2>5, <2>6
<1>12. \A i \in DOMAIN got' : got'[i][1] \in 1..discord.id
  <2>1. \A i \in 1..Len(got) : got[i][1] \in 1..discord.id
    BY <1>5 DEF SessionTrue
  <2>2. e[1] \in 1..discord.id
    BY <1>4, <1>6
  <2>3. QED
    BY <1>5, <1>7, <2>1, <2>2
<1>13. session' = [id |-> discord.id, seq |-> wire[1].n, url |-> session'.url]
  BY <1>1, <1>4 DEF GatewayTyped
<1>14. QED
  BY <1>1, <1>4, <1>5, <1>10, <1>11, <1>12, <1>13, GatewayTakes DEF Numbered

(* WireAppend: what is on the wire when Discord sends a message.            *)
LEMMA WireAppend ==
    ASSUME wire \in Seq(Messages), NEW m \in Messages, wire' = Append(wire, m)
    PROVE  /\ Len(wire) \in Nat /\ wire' \in Seq(Messages) /\ Len(wire') = Len(wire) + 1
           /\ DOMAIN wire = 1..Len(wire) /\ DOMAIN wire' = 1..(Len(wire) + 1)
           /\ \A i \in 1..Len(wire) : wire'[i] = wire[i]
           /\ wire'[Len(wire) + 1] = m
  OBVIOUS

(* SentBefore: a message at the end of the wire changes nothing for those   *)
(* before it.                                                               *)
LEMMA SentBefore ==
    ASSUME GatewayInv, NEW m \in Messages, wire' = Append(wire, m), UNCHANGED <<session, got>>,
           discord'.last \in Nat, discord'.last >= discord.last,
           \/ discord'.id = discord.id
           \/ \A i \in DOMAIN wire : wire[i].op \notin Numbered
    PROVE  \A i \in 1..Len(wire) : InOrder(i)'
<1> SUFFICES ASSUME NEW i \in 1..Len(wire) PROVE InOrder(i)'
  OBVIOUS
<1>1. wire \in Seq(Messages) /\ discord.last \in Nat
  BY DEF GatewayInv, GatewayTyped, SessionTrue
<1>2. /\ wire[i] \in Messages /\ wire'[i] = wire[i] /\ i \in Nat /\ i > 0 /\ i \in DOMAIN wire
      /\ \A j \in 1..i : wire'[j] = wire[j]
  BY <1>1, WireAppend
<1>3. InOrder(i)
  BY <1>2 DEF GatewayInv, WireInOrder
<1>4. CASE wire[i].op \notin Numbered
  BY <1>2, <1>3, <1>4 DEF InOrder, Numbered
<1>5. CASE discord'.id = discord.id
  <2>1. Previous(i)' = Previous(i) /\ (Follows(i)' <=> Follows(i))
    BY <1>2 DEF Previous, Follows
  <2>2. Heard(discord.id)' = Heard(discord.id)
    BY HeardSame, <1>5
  <2>3. (NewSession' <=> NewSession) /\ (Current' <=> Current)
    BY <2>2, <1>5 DEF NewSession, Current
  <2>4. wire[i].n \in Nat
    BY <1>2 DEF Messages
  <2>5. wire[i].op = "ready" =>
          wire'[i].n = 1 /\ NewSession' /\ \A j \in 1..(i - 1) : wire'[j].op \in Closing
    BY <1>2, <1>3, <2>3 DEF InOrder
  <2>6. wire[i].op \in Numbered => wire'[i].n <= discord'.last
    BY <1>1, <1>2, <1>3, <2>4 DEF InOrder
  <2>7. QED
    BY <1>2, <1>3, <2>1, <2>3, <2>5, <2>6 DEF InOrder
<1>6. QED
  BY <1>4, <1>5, <1>2

(* GatewayTapSent: a tap goes out with the next number, if the socket is    *)
(* there.                                                                   *)
LEMMA GatewayTapSent == ASSUME GatewayInv, Gateway!PhoneTaps PROVE GatewayInv'
<1> USE DEF GatewayInv
<1> DEFINE m == [op |-> "tap", n |-> discord.last + 1]
<1>1. /\ discord' = [discord EXCEPT !.last = @ + 1]
      /\ wire' = (IF attached THEN Append(wire, m) ELSE wire)
      /\ UNCHANGED <<phase, session, resuming, attached, owes, got>>
  BY DEF Gateway!PhoneTaps, Gateway!Message, Gateway!socketVars
<1>2. /\ wire \in Seq(Messages) /\ discord.last \in Nat /\ m \in Messages
      /\ discord'.id = discord.id /\ discord'.last = discord.last + 1
      /\ discord' = [id |-> discord'.id, valid |-> discord'.valid, last |-> discord'.last]
  <2>1. discord.last \in Nat /\ wire \in Seq(Messages)
    BY DEF GatewayTyped, SessionTrue
  <2>2. m \in Messages
    BY <2>1 DEF Messages, Numbered
  <2>3. QED
    BY <1>1, <2>1, <2>2 DEF GatewayTyped
<1>3. wire' \in Seq(Messages)
  BY <1>1, <1>2, WireAppend
<1>4. GatewayTyped' /\ SessionTrue'
  BY <1>1, <1>2, <1>3, HeardSame DEF GatewayTyped, SessionTrue
<1>5. Gateway!OnceInOrder'
  BY <1>1, OrderSame
<1> HIDE DEF m
<1>6. CASE ~attached
  <2>1. wire' = wire
    BY <1>1, <1>6
  <2>2. WireInOrder'
    <3> SUFFICES ASSUME NEW i \in DOMAIN wire PROVE InOrder(i)'
      BY <2>1 DEF WireInOrder
    <3>1. InOrder(i) /\ wire[i].n \in Nat
      <4>1. wire[i] \in Messages
        BY <1>2
      <4>2. QED
        BY <4>1 DEF WireInOrder, Messages
    <3>2. Previous(i)' = Previous(i) /\ (Follows(i)' <=> Follows(i))
      BY <1>1, <2>1 DEF Previous, Follows
    <3>3. Heard(discord.id)' = Heard(discord.id)
      BY <1>1, <1>2, HeardSame
    <3>4. (NewSession' <=> NewSession) /\ (Current' <=> Current)
      BY <1>1, <1>2, <3>3 DEF NewSession, Current
    <3>5. wire[i].op \in Numbered => wire[i].n <= discord'.last
      BY <1>2, <3>1 DEF InOrder
    <3>6. QED
      BY <2>1, <3>1, <3>2, <3>4, <3>5 DEF InOrder
  <2>3. LinkTrue'
    BY <1>1, <1>6, <2>1 DEF LinkTrue
  <2>4. QED
    BY <1>4, <1>5, <2>2, <2>3
<1>7. CASE attached
  <2>1. wire' = Append(wire, m)
    BY <1>1, <1>7
  <2>2. /\ owes = "none" /\ phase = "open" /\ (wire = <<>> => Current
             /\ session.seq = discord.last)
        /\ (wire # <<>> => /\ wire[Len(wire)].op \in Numbered
             /\ wire[Len(wire)].n = discord.last
                           /\ wire[1].op # "hello")
    BY <1>7 DEF LinkTrue
  <2>3. \A i \in 1..Len(wire) : InOrder(i)'
    BY <1>1, <1>2, <2>1, SentBefore
  <2> PICK k : k = Len(wire) + 1
    OBVIOUS
  <2>4. InOrder(k)'
    <3>1. /\ k \in Nat /\ k > 0 /\ wire'[k] = m /\ (k # 1 => wire'[k - 1] = wire[Len(wire)])
          /\ (k = 1 <=> wire = <<>>)
      BY <1>2, <2>1, WireAppend
    <3>2. Previous(k)' = discord.last
      BY <3>1, <2>2, <1>1 DEF Previous
    <3>3. k = 1 => Current'
      BY <3>1, <2>2, <1>1, <1>2 DEF Current
    <3>4. m.op = "tap" /\ m.n = discord.last + 1
      BY DEF m
    <3>5. QED
      BY <3>1, <3>2, <3>3, <3>4, <1>2 DEF InOrder, Numbered
  <2>5. WireInOrder'
    <3>1. DOMAIN wire' = 1..Len(wire) \cup {k}
      BY <1>2, <2>1, WireAppend
    <3>2. QED
      BY <2>3, <2>4, <3>1 DEF WireInOrder
  <2>6. LinkTrue'
    <3>1. /\ wire'[Len(wire')] = m /\ wire' # <<>>
          /\ (wire # <<>> => wire'[1] = wire[1]) /\ (wire = <<>> => wire'[1] = m)
      BY <1>2, <2>1, WireAppend
    <3>2. m.op = "tap" /\ m.n = discord.last + 1
      BY DEF m
    <3>3. wire'[1].op # "hello"
      BY <2>2, <3>1, <3>2
    <3>4. QED
      BY <1>1, <1>2, <1>7, <2>2, <3>1, <3>2, <3>3 DEF LinkTrue, Numbered
  <2>7. QED
    BY <1>4, <1>5, <2>5, <2>6
<1>8. QED
  BY <1>6, <1>7

(* GatewayShoved: Discord closes the socket, after all that it has sent.    *)
LEMMA GatewayShoved == ASSUME GatewayInv, Gateway!Shove PROVE GatewayInv'
<1> USE DEF GatewayInv
<1>1. PICK o \in Closing : wire' = wire \o <<[op |-> o, n |-> 0]>>
  BY DEF Gateway!Shove, Gateway!Send, Gateway!Message, Closing
<1> DEFINE m == [op |-> o, n |-> 0]
<1>2. /\ UNCHANGED <<phase, session, resuming, discord, got>> /\ ~attached' /\ owes' = "none"
      /\ phase = "open"
  BY DEF Gateway!Shove, Gateway!socketVars, Gateway!serverVars
<1>3. wire \in Seq(Messages) /\ m \in Messages /\ discord.last \in Nat
  BY DEF Messages, Closing, GatewayTyped, SessionTrue
<1>4. wire' = Append(wire, m)
  BY <1>1, <1>3
<1>5. m.op \in Closing /\ m.op # "hello" /\ m.op \notin Numbered
  BY DEF Closing, Numbered
<1> HIDE DEF m
<1>6. GatewayTyped' /\ SessionTrue'
  BY <1>2, <1>3, <1>4, HeardSame, WireAppend DEF GatewayTyped, SessionTrue
<1>7. Gateway!OnceInOrder'
  BY <1>2, OrderSame
<1>8. WireInOrder'
  <2>1. \A i \in 1..Len(wire) : InOrder(i)'
    BY <1>2, <1>3, <1>4, SentBefore
  <2> PICK k : k = Len(wire) + 1
    OBVIOUS
  <2>2. wire'[k] = m /\ DOMAIN wire' = 1..Len(wire) \cup {k}
    BY <1>3, <1>4, WireAppend
  <2>3. InOrder(k)'
    BY <1>5, <2>2 DEF InOrder, Numbered
  <2>4. QED
    BY <2>1, <2>2, <2>3 DEF WireInOrder
<1>9. LinkTrue'
  <2>1. ASSUME wire'[1].op = "hello"
        PROVE  (resuming' => session'.id # 0)
            /\ \A i \in 2..Len(wire') : wire'[i].op \in Closing
    <3>1. /\ Len(wire) \in Nat /\ Len(wire') = Len(wire) + 1 /\ wire'[Len(wire) + 1] = m
          /\ \A i \in 1..Len(wire) : wire'[i] = wire[i]
      BY <1>3, <1>4, WireAppend
    <3>2. Len(wire) # 0
      BY <1>5, <2>1, <3>1
    <3>3. wire # <<>> /\ wire[1].op = "hello"
      BY <2>1, <3>1, <3>2
    <3>4. (resuming => session.id # 0) /\ \A i \in 2..Len(wire) : wire[i].op \in Closing
      BY <3>3 DEF LinkTrue
    <3>5. \A i \in 2..(Len(wire) + 1) : i \in 2..Len(wire) \/ i = Len(wire) + 1
      BY <3>1
    <3>6. QED
      BY <1>2, <1>5, <3>1, <3>4, <3>5
  <2>2. QED
    BY <1>2, <2>1 DEF LinkTrue
<1>10. QED
  BY <1>6, <1>7, <1>8, <1>9

(* GatewayIdentifies: Discord begins a session that nobody has heard of.    *)
LEMMA GatewayIdentifies == ASSUME GatewayInv, Gateway!Identify PROVE GatewayInv'
<1> USE DEF GatewayInv
<1> DEFINE m == [op |-> "ready", n |-> 1]
<1>1. /\ owes = "identify" /\ wire' = wire \o <<m>> /\ attached' /\ owes' = "none"
      /\ discord' = [id |-> discord.id + 1, valid |-> TRUE, last |-> 1]
      /\ UNCHANGED <<phase, session, resuming, got>>
  BY DEF Gateway!Identify, Gateway!Send, Gateway!Message, Gateway!socketVars
<1>2. wire \in Seq(Messages) /\ m \in Messages /\ discord.last \in Nat /\ discord.id \in Nat
  BY DEF Messages, Numbered, GatewayTyped, SessionTrue
<1>3. wire' = Append(wire, m)
  BY <1>1, <1>2
<1>4. m.op = "ready" /\ m.n = 1
  OBVIOUS
<1> HIDE DEF m
<1>5. \A i \in DOMAIN wire : wire[i].op \in Closing
  BY <1>1 DEF LinkTrue
<1>6. discord'.id = discord.id + 1 /\ discord'.last = 1 /\ session.id <= discord.id
        /\ session.id \in Nat
  BY <1>1, <1>2 DEF SessionTrue
<1>7. \A i \in DOMAIN got : got[i][1] \in 1..(discord.id + 1) /\ got[i][1] # discord.id + 1
  BY <1>2 DEF SessionTrue
<1>8. GatewayTyped' /\ SessionTrue'
  <2>1. GatewayTyped'
    BY <1>1, <1>2, <1>3, WireAppend DEF GatewayTyped
  <2>2. SessionTrue'
    BY <1>1, <1>2, <1>6, <1>7, HeardSame DEF SessionTrue
  <2>3. QED
    BY <2>1, <2>2
<1>9. Gateway!OnceInOrder'
  BY <1>1, OrderSame
<1>10. NewSession'
  <2> PICK c : c = discord.id + 1
    OBVIOUS
  <2>1. {k \in DOMAIN got' : got'[k][1] = c} = {}
    BY <1>1, <1>7
  <2>2. Heard(c)' = {}
    BY <2>1 DEF Heard
  <2>3. c = discord'.id
    BY <1>6
  <2>4. QED
    BY <1>1, <1>2, <1>6, <2>2, <2>3 DEF NewSession
<1>11. WireInOrder'
  <2>1. \A i \in DOMAIN wire : wire[i].op \notin Numbered
    BY <1>5 DEF Numbered, Closing
  <2>2. ASSUME NEW i \in 1..Len(wire) PROVE InOrder(i)'
    <3>1. wire'[i].op = wire[i].op /\ i \in DOMAIN wire
      BY <1>2, <1>3, <2>2, WireAppend
    <3>2. QED
      BY <1>5, <3>1 DEF InOrder, Numbered, Closing
  <2> PICK k : k = Len(wire) + 1
    OBVIOUS
  <2>3. /\ wire'[k] = m /\ DOMAIN wire' = 1..Len(wire) \cup {k}
        /\ \A j \in 1..(k - 1) : wire'[j].op \in Closing
    BY <1>2, <1>3, <1>5, WireAppend
  <2>4. InOrder(k)'
    BY <1>4, <1>6, <1>10, <2>3 DEF InOrder, Numbered
  <2>5. QED
    BY <2>2, <2>3, <2>4 DEF WireInOrder
<1>12. LinkTrue'
  <2>1. /\ Len(wire) \in Nat /\ wire' # <<>> /\ wire'[Len(wire')] = m
        /\ (Len(wire) # 0 => wire'[1] = wire[1] /\ 1 \in DOMAIN wire) /\ (Len(wire) = 0
             => wire'[1] = m)
    BY <1>2, <1>3, WireAppend
  <2>2. wire'[1].op # "hello"
    BY <1>4, <1>5, <2>1 DEF Closing
  <2>3. phase = "open"
    BY <1>1 DEF LinkTrue
  <2>4. QED
    BY <1>1, <1>2, <1>4, <1>6, <2>1, <2>2, <2>3 DEF LinkTrue, Numbered
<1>13. QED
  BY <1>8, <1>9, <1>11, <1>12

(* WireJoin: what is on the wire when Discord sends several messages.       *)
LEMMA WireJoin ==
    ASSUME wire \in Seq(Messages), NEW g \in Seq(Messages), wire' = wire \o g
    PROVE  /\ Len(wire) \in Nat /\ Len(g) \in Nat /\ wire' \in Seq(Messages)
           /\ Len(wire') = Len(wire) + Len(g)
           /\ DOMAIN wire = 1..Len(wire) /\ DOMAIN wire' = 1..Len(wire')
           /\ \A i \in 1..Len(wire) : wire'[i] = wire[i]
           /\ \A i \in 1..Len(g) : wire'[Len(wire) + i] = g[i]
  OBVIOUS

(* GatewayResumes: Discord sends what came after the client's number, then  *)
(* RESUMED; or it does not know the session.                                *)
LEMMA GatewayResumes == ASSUME GatewayInv, Gateway!Resume PROVE GatewayInv'
<1> USE DEF GatewayInv
<1>1. /\ owes = "resume" /\ owes' = "none" /\ UNCHANGED <<phase, session, resuming, got,
           discord>>
  BY DEF Gateway!Resume, Gateway!socketVars, Gateway!serverVars
<1>2. /\ wire \in Seq(Messages) /\ discord.last \in Nat /\ session.seq \in Nat /\ session.id # 0
      /\ phase = "open" /\ ~attached /\ \A i \in DOMAIN wire : wire[i].op \in Closing
  BY <1>1 DEF GatewayTyped, SessionTrue, LinkTrue
<1>3. Gateway!OnceInOrder'
  BY <1>1, OrderSame
<1>4. SessionTrue' /\ (wire' \in Seq(Messages) => GatewayTyped')
  BY <1>1, HeardSame DEF SessionTrue, GatewayTyped
<1>5. CASE discord.valid /\ discord.id = session.id
  <2> DEFINE d == discord.last - session.seq
             f == [i \in 1..d |-> [op |-> "tap", n |-> session.seq + i]]
             m == [op |-> "resumed", n |-> discord.last]
  <2>1. wire' = wire \o (f \o <<m>>) /\ attached'
    BY <1>5 DEF Gateway!Resume, Gateway!Send, Gateway!Message
  <2>2. d \in Nat /\ m \in Messages
    BY <1>2, <1>5 DEF SessionTrue, Messages, Numbered
  <2>3. f \in Seq(Messages) /\ Len(f) = d
    <3>1. \A i \in 1..d : [op |-> "tap", n |-> session.seq + i] \in Messages
      BY <1>2 DEF Messages, Numbered
    <3> HIDE DEF d
    <3>2. f \in [1..d -> Messages]
      BY <3>1
    <3>3. QED
      BY <2>2, <3>2
  <2>4. \A i \in 1..d : f[i].op = "tap" /\ f[i].n = session.seq + i
    OBVIOUS
  <2>5. m.op = "resumed" /\ m.n = session.seq + d
    BY <1>2
  <2> HIDE DEF f, m
  <2> PICK w : w = Len(wire)
    OBVIOUS
  <2>6. /\ w \in Nat /\ wire' \in Seq(Messages) /\ DOMAIN wire' = 1..(w + d + 1)
        /\ Len(wire') = w + d + 1 /\ DOMAIN wire = 1..w
        /\ \A i \in 1..w : wire'[i] = wire[i]
        /\ \A i \in (w + 1)..(w + d) : wire'[i] = f[i - w]
        /\ wire'[w + d + 1] = m
    <3> HIDE DEF d
    <3>1. Len(f \o <<m>>) = d + 1 /\ f \o <<m>> \in Seq(Messages)
      BY <2>2, <2>3
    <3>2. (\A i \in 1..d : (f \o <<m>>)[i] = f[i]) /\ (f \o <<m>>)[d + 1] = m
      BY <2>2, <2>3
    <3> DEFINE g == f \o <<m>>
    <3> HIDE DEF g
    <3>3. wire' = wire \o g /\ Len(g) = d + 1 /\ g \in Seq(Messages)
            /\ (\A i \in 1..d : g[i] = f[i])
          /\ g[d + 1] = m
      BY <2>1, <3>1, <3>2 DEF g
    <3>4. /\ Len(wire) \in Nat /\ wire' \in Seq(Messages) /\ Len(wire') = Len(wire) + (d + 1)
          /\ DOMAIN wire' = 1..Len(wire') /\ DOMAIN wire = 1..Len(wire)
          /\ \A i \in 1..Len(wire) : wire'[i] = wire[i]
          /\ \A i \in 1..(d + 1) : wire'[Len(wire) + i] = g[i]
      BY <1>2, <3>3, WireJoin
    <3>5. \A i \in (w + 1)..(w + d) : i - w \in 1..d /\ i - w \in 1..(d + 1) /\ w + (i - w) = i
      BY <2>2, <3>4
    <3>6. \A i \in (w + 1)..(w + d) : wire'[i] = f[i - w]
      BY <3>3, <3>4, <3>5
    <3>7. QED
      BY <2>2, <3>3, <3>4, <3>6
  <2>7. /\ \A i \in (w + 1)..(w + d) : wire'[i].op = "tap" /\ wire'[i].n = session.seq + (i - w)
        /\ wire'[w + d + 1].op = "resumed" /\ wire'[w + d + 1].n = session.seq + d
        /\ discord.last = session.seq + d
    <3>1. discord.last = session.seq + d
      BY <1>2
    <3> HIDE DEF d
    <3>2. \A i \in (w + 1)..(w + d) : i - w \in 1..d
      BY <2>2, <2>6
    <3>3. \A i \in (w + 1)..(w + d) : wire'[i].op = "tap" /\ wire'[i].n = session.seq + (i - w)
      BY <2>4, <2>6, <3>2
    <3>4. QED
      BY <2>5, <2>6, <3>1, <3>3
  <2> PICK last : last = session.seq + d
    OBVIOUS
  <2>8. last \in Nat /\ discord'.last = last /\ session'.seq = session.seq /\ d \in Nat
        /\ session.seq \in Nat /\ session.seq + d = last
    BY <1>1, <1>2, <2>2, <2>7
  <2> HIDE DEF d
  <2>9. WireInOrder'
    <3> SUFFICES ASSUME NEW i \in 1..(w + d + 1) PROVE InOrder(i)'
      BY <2>6 DEF WireInOrder
    <3>1. CASE i \in 1..w
      <4>1. wire'[i].op \in Closing
        BY <1>2, <2>6, <3>1
      <4>2. QED
        BY <4>1 DEF InOrder, Closing, Numbered
    <3>2. CASE i \in (w + 1)..(w + d)
      <4>1. wire'[i].op = "tap" /\ wire'[i].n = session.seq + (i - w) /\ wire'[i].n <= last
        BY <2>6, <2>7, <2>8, <3>2
      <4>2. i = 1 => Current' /\ wire'[i].n = session'.seq + 1
        BY <1>1, <1>2, <1>5, <2>6, <2>8, <3>2, <4>1 DEF Current
      <4>3. i # 1 /\ wire'[i - 1].op \in Numbered => wire'[i].n = wire'[i - 1].n + 1
        <5>1. CASE i = w + 1
          <6>1. i - 1 = w /\ (i # 1 => w \in 1..w)
            BY <2>6, <5>1
          <6>2. i # 1 => wire'[i - 1].op \in Closing
            BY <1>2, <2>6, <6>1
          <6>3. QED
            BY <6>2 DEF Numbered, Closing
        <5>2. CASE i # w + 1
          <6>1. i - 1 \in (w + 1)..(w + d)
            BY <2>6, <2>8, <3>2, <5>2
          <6>2. wire'[i - 1].n = session.seq + ((i - 1) - w)
            BY <2>7, <6>1
          <6>3. QED
            BY <2>6, <2>8, <3>2, <4>1, <6>2
        <5>3. QED
          BY <5>1, <5>2
      <4>4. QED
        BY <2>8, <4>1, <4>2, <4>3 DEF InOrder, Previous, Follows, Numbered
    <3>3. CASE i = w + d + 1
      <4>1. wire'[i].op = "resumed" /\ wire'[i].n = last
        BY <2>7, <2>8, <3>3
      <4>2. i = 1 => Current' /\ wire'[i].n = session'.seq
        <5>1. i = 1 => d = 0
          BY <2>6, <2>8, <3>3
        <5>2. d = 0 => last = session.seq
          BY <2>8
        <5>3. QED
          BY <1>1, <1>2, <1>5, <2>8, <4>1, <5>1, <5>2 DEF Current
      <4>3. i # 1 /\ wire'[i - 1].op \in Numbered => wire'[i].n = wire'[i - 1].n
        <5>1. CASE d = 0
          <6>1. i # 1 => i - 1 \in 1..w
            BY <2>6, <3>3, <5>1
          <6>2. QED
            BY <1>2, <2>6, <6>1 DEF Numbered, Closing
        <5>2. CASE d # 0
          <6>1. i - 1 \in (w + 1)..(w + d) /\ (i - 1) - w = d
            BY <2>6, <2>8, <3>3, <5>2
          <6>2. wire'[i - 1].n = session.seq + ((i - 1) - w)
            BY <2>7, <6>1
          <6>3. QED
            BY <2>8, <4>1, <6>1, <6>2
        <5>3. QED
          BY <5>1, <5>2
      <4>4. QED
        BY <2>8, <4>1, <4>2, <4>3 DEF InOrder, Previous, Follows, Numbered
    <3>4. i \in 1..w \/ i \in (w + 1)..(w + d) \/ i = w + d + 1
      BY <2>6, <2>8
    <3>5. QED
      BY <3>1, <3>2, <3>3, <3>4
  <2>10. LinkTrue'
    <3>1. wire' # <<>> /\ wire'[Len(wire')].op = "resumed" /\ wire'[Len(wire')].n
            = discord'.last
      BY <2>6, <2>7, <2>8
    <3>2. wire'[1].op # "hello"
      <4>1. 1 \in 1..w \/ 1 \in (w + 1)..(w + d) \/ 1 = w + d + 1
        BY <2>6, <2>8
      <4>2. QED
        BY <1>2, <2>6, <2>7, <4>1 DEF Closing
    <3>3. discord'.id # 0
      BY <1>1, <1>2, <1>5
    <3>4. QED
      BY <1>1, <1>2, <3>1, <3>2, <3>3 DEF LinkTrue, Numbered
  <2>11. QED
    BY <1>3, <1>4, <2>6, <2>9, <2>10
<1>6. CASE ~(discord.valid /\ discord.id = session.id)
  <2> DEFINE m == [op |-> "invalid for good", n |-> 0]
  <2>1. wire' = wire \o <<m>> /\ ~attached'
    BY <1>2, <1>6 DEF Gateway!Resume, Gateway!Send, Gateway!Message
  <2>2. m \in Messages /\ m.op \in Closing
    BY DEF Messages, Closing
  <2> HIDE DEF m
  <2>3. wire' = Append(wire, m)
    BY <1>2, <2>1, <2>2
  <2>4. wire' \in Seq(Messages) /\ \A i \in DOMAIN wire' : wire'[i].op \in Closing
    <3>1. \A i \in 1..(Len(wire) + 1) : i \in 1..Len(wire) \/ i = Len(wire) + 1
      BY <1>2
    <3>2. QED
      BY <1>2, <2>2, <2>3, <3>1, WireAppend
  <2>5. WireInOrder'
    BY <2>4 DEF WireInOrder, InOrder, Numbered, Closing
  <2>6. LinkTrue'
    <3>1. wire' # <<>> => 1 \in DOMAIN wire'
      BY <2>4
    <3>2. QED
      BY <1>1, <1>2, <2>1, <2>4, <3>1 DEF LinkTrue, Closing
  <2>7. QED
    BY <1>3, <1>4, <2>4, <2>5, <2>6
<1>7. QED
  BY <1>5, <1>6

(* GatewayStep: every step keeps the invariant.                             *)
LEMMA GatewayStep == GatewayInv /\ [Gateway!Next]_(Gateway!vars) => GatewayInv'
<1> SUFFICES ASSUME GatewayInv, [Gateway!Next]_(Gateway!vars) PROVE GatewayInv'
  OBVIOUS
<1>1. CASE Gateway!TakeInvalid \/ Gateway!TakeMove \/ Gateway!TakeReidentify
        \/ Gateway!TakeFatal
           \/ Gateway!ReadyDeadline \/ Gateway!AckStale \/ Gateway!SocketDrops
  BY <1>1, GatewayUnlink DEF Gateway!TakeInvalid, Gateway!TakeMove, Gateway!TakeReidentify,
     Gateway!TakeFatal, Gateway!ReadyDeadline, Gateway!AckStale, Gateway!SocketDrops,
     Gateway!serverVars
<1>2. CASE Gateway!ConnectFails \/ Gateway!AckAges \/ Gateway!Backoff \/ Gateway!FallSilent
           \/ Gateway!Forget \/ Gateway!HostGone \/ UNCHANGED Gateway!vars
  <2>1. /\ discord = [id |-> discord.id, valid |-> discord.valid, last |-> discord.last]
        /\ (phase # "open" => wire = <<>> /\ owes = "none" /\ ~attached)
    BY DEF GatewayInv, GatewayTyped, LinkTrue
  <2>2. StaysQuiet
    BY <1>2, <2>1 DEF StaysQuiet, Gateway!ConnectFails, Gateway!AckAges, Gateway!Backoff,
       Gateway!FallSilent, Gateway!Forget, Gateway!HostGone, Gateway!vars, Gateway!socketVars,
       Gateway!serverVars, Gateway!linkVars
  <2>3. QED
    BY <2>2, GatewayQuiet
<1>3. QED
  BY <1>1, <1>2, GatewayConnects, GatewayHello, GatewayReady, GatewayResumed, GatewayTap,
     GatewayTapSent, GatewayShoved, GatewayIdentifies, GatewayResumes
     DEF Gateway!Next, Gateway!ClientStep

(* TapsInOrder: for any taps and any drops, closes, silences, lost sessions *)
(* and dead resume hosts, each tap of a session reaches on_dispatch once,   *)
(* in order and without a gap.                                              *)
THEOREM TapsInOrder == Gateway!Spec => []Gateway!OnceInOrder
<1>1. GatewayInv => Gateway!OnceInOrder
  BY DEF GatewayInv
<1>2. QED
  BY <1>1, GatewayInit, GatewayStep, PTL DEF Gateway!Spec
=============================================================================
