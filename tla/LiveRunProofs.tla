---------------------------- MODULE LiveRunProofs ----------------------------
(***************************************************************************)
(* Proofs about a live run: LiveThread for any number of follow-ups, rows  *)
(* that cannot be written and host crashes, and, as an instance, Cook for  *)
(* both shapes of a run, any number of roles and any number of Cancel      *)
(* taps, exceptions and host deaths.                                       *)
(* Where both use one name for two variables, the instance says what it is *)
(* called here.                                                            *)
(*                                                                         *)
(* LiveThread.  OneRun needs to know that the first run, which the pool    *)
(* has no thread for, holds the mark as long as it lives: FirstMarks.      *)
(* TakenOnce and LostOnlyLate need a follow-up followed from the loop's    *)
(* claim to the worker: a queued row is one that nobody has taken, but for *)
(* the one the loop is about to mark (Once) and those it could not mark,   *)
(* and what was steered waits, is delivered, named or late (Kept).         *)
(*                                                                         *)
(* Cook.  StoppedWhenSettled, OneStory and OrphanReaped speak of the ends  *)
(* of the run only.  What makes them hold is what the cook thread knows on *)
(* its way there: WorkerDone says at which steps the worker can still be   *)
(* alive and who is about to kill it when it is, Filed that its pid file   *)
(* covers it meanwhile, Certain where the thread stands when a Cancel that *)
(* found the worker is on its way or has spoken, and Agreed that such a    *)
(* Cancel and the thread then write the same.                              *)
(***************************************************************************)
EXTENDS LiveThread, FiniteSetTheorems, TLAPS

\* Of Cook, which has the bound on host deaths in common.
CONSTANTS Shapes, Roles, MaxTaps, MaxRaises

VARIABLES
    shape, stage, turn, process, child, sidecar, requested, backend, event, result, memory,
    record, card, tap, taps, raises, deaths, history

Cook == INSTANCE Cook WITH
    pc <- stage, worker <- process, mark <- memory, row <- record, crashes <- deaths

-----------------------------------------------------------------------------
(* The follow-ups of a thread.                                             *)

ConstantsOK ==
    /\ MaxMsgs \in Nat /\ MaxFaults \in Nat /\ MaxCrashes \in Nat
    /\ None \notin Msgs \cup Runs

-----------------------------------------------------------------------------
(* The inductive invariant.                                                *)

\* Where the loop is with a follow-up, and which rows it has listed.
Loop ==
    /\ Idle => at = IdleLoop
    /\ ~Idle => at.msg \in 1..taken
    /\ at.step = "claimed" => row[at.msg] = "none"
    /\ at.step = "check" => row[at.msg] # "applied"
    /\ \A m \in Msgs : row[m] # "none" => m <= taken
    /\ \A m \in todo : row[m] = "queued" /\ (~Idle => m # at.msg)

\* What waits for a worker was steered, who hands it over is at a run, and a run
\* that was not made carries nothing.
Queues ==
    /\ \A r \in Runs : pc[r] = "none" => carries[r] = None
    /\ \A r \in Runs : Range(pending[r]) \subseteq steered
    /\ \A a \in Deliverers : deliver[a].step # "off" => deliver[a].run \in Runs
    /\ \A a \in Deliverers : deliver[a].step = "call" => deliver[a].msg \in Msgs

\* The run the pool does not know holds the thread as long as it lives.
FirstMarks ==
    /\ pc[1] \notin {"none", "pool"}
    /\ pc[1] \in {"live", "status", "last"} => mark = 1

\* Nobody has taken m yet.
Untaken(m) == Carriers(m) = {} /\ m \notin steered

Once(m) ==
    /\ m > taken => Untaken(m)
    /\ row[m] = "queued" => Untaken(m) \/ (at.msg = m /\ at.step \in {"deliver", "mark"})
    /\ at.msg = m /\ at.step \in {"claimed", "check", "append"} => Untaken(m)
    /\ m \in steered => Carriers(m) = {}
    /\ \A q \in Carriers(m), r \in Carriers(m) : q = r

\* A follow-up that was steered is with the worker, on its way to it, or named.
Found(m) == Waiting(m) \/ Delivered(m) \/ m \in reported \cup late

Kept ==
    /\ \A m \in steered : Found(m)
    /\ at.step = "deliver" => at.msg \in steered
    /\ at.step = "mark" => at.msg \in steered \/ Carriers(at.msg) # {}

\* A step of a living host loses sight of nothing.
StaysFound == crashes' = 0 => \A m \in Msgs : Found(m) => Found(m)'

\* What a run carries it goes on carrying.
CarriersKept == \A m \in Msgs : Carriers(m) # {} => Carriers(m)' # {}

\* Where a follow-up can be.
Placed(m) == \/ at.msg = m \/ row[m] = "queued" \/ Carriers(m) # {}
             \/ Found(m) \/ m \in told

\* In the life of one host.
Taking  == crashes = 0 => \A m \in Msgs \ unmarked : Once(m)
Keeping == crashes = 0 => Kept
Traced  == crashes = 0 => \A m \in 1..taken : Placed(m)

LiveInv ==
    /\ TypeOK /\ Loop /\ Queues /\ OneRun /\ FirstMarks
    /\ Taking /\ Keeping /\ Traced
-----------------------------------------------------------------------------
(* HeadAndTail: what a queue holds when its head is taken.                   *)
LEMMA HeadAndTail ==
    ASSUME NEW s \in Seq(Msgs), s # <<>>
    PROVE  /\ Head(s) \in Msgs /\ Tail(s) \in Seq(Msgs)
           /\ Range(s) = {Head(s)} \cup Range(Tail(s))
<1>1. Head(s) \in Msgs /\ Tail(s) \in Seq(Msgs)
  OBVIOUS
<1>2. \A i \in DOMAIN Tail(s) : i + 1 \in DOMAIN s /\ Tail(s)[i] = s[i + 1]
  OBVIOUS
<1>3. \A i \in DOMAIN s :
         s[i] = Head(s) \/ (i - 1 \in DOMAIN Tail(s) /\ Tail(s)[i - 1] = s[i])
  OBVIOUS
<1>4. 1 \in DOMAIN s /\ s[1] = Head(s)
  OBVIOUS
<1>5. Range(s) \subseteq {Head(s)} \cup Range(Tail(s))
  BY <1>3 DEF Range
<1>6. {Head(s)} \cup Range(Tail(s)) \subseteq Range(s)
  BY <1>2, <1>4 DEF Range
<1>7. QED
  BY <1>1, <1>5, <1>6

(* AppendHas: what a queue holds when a follow-up is added.                  *)
LEMMA AppendHas ==
    ASSUME NEW s \in Seq(Msgs), NEW e \in Msgs
    PROVE  Append(s, e) \in Seq(Msgs) /\ Range(Append(s, e)) = Range(s) \cup {e}
<1>1. \A i \in DOMAIN Append(s, e) :
         Append(s, e)[i] = e \/ (i \in DOMAIN s /\ Append(s, e)[i] = s[i])
  OBVIOUS
<1>2. \A i \in DOMAIN s : i \in DOMAIN Append(s, e) /\ Append(s, e)[i] = s[i]
  OBVIOUS
<1>3. Append(s, e)[Len(s) + 1] = e /\ Len(s) + 1 \in DOMAIN Append(s, e)
  OBVIOUS
<1>4. QED
  BY <1>1, <1>2, <1>3 DEF Range

(* EmptyRange: an empty queue holds nothing.                                 *)
LEMMA EmptyRange == Range(<<>>) = {}
  BY DEF Range

(* HandsOver: what a deliverer becomes when it takes a message, or is done    *)
(* with it.                                                                  *)
LEMMA HandsOver ==
    ASSUME TypeOK, NEW a \in Deliverers
    PROVE  /\ [deliver[a] EXCEPT !.step = "look"]
                 = [step |-> "look", msg |-> deliver[a].msg, run |-> deliver[a].run]
           /\ \A m \in Msgs : [deliver[a] EXCEPT !.step = "call", !.msg = m]
                                = [step |-> "call", msg |-> m, run |-> deliver[a].run]
<1> DEFINE D == [step : {"off", "look", "call"}, msg : Msgs \cup {None}, run : Runs \cup {None}]
<1>1. deliver[a] \in D
  BY DEF TypeOK
<1>2. \A d \in D : [d EXCEPT !.step = "look"] = [step |-> "look", msg |-> d.msg, run |-> d.run]
  OBVIOUS
<1>3. \A d \in D, m \in Msgs : [d EXCEPT !.step = "call", !.msg = m]
                               = [step |-> "call", msg |-> m, run |-> d.run]
  <2> TAKE d \in D, m \in Msgs
  <2>1. [d EXCEPT !.step = "call"] = [step |-> "call", msg |-> d.msg, run |-> d.run]
    OBVIOUS
  <2>2. [[step |-> "call", msg |-> d.msg, run |-> d.run] EXCEPT !.msg = m]
          = [step |-> "call", msg |-> m, run |-> d.run]
    OBVIOUS
  <2>3. [d EXCEPT !.step = "call", !.msg = m] = [[d EXCEPT !.step = "call"] EXCEPT !.msg = m]
    OBVIOUS
  <2>4. QED
    BY <2>1, <2>2, <2>3
<1> HIDE DEF D
<1>4. QED
  BY <1>1, <1>2, <1>3

(* SubmitMakes: a follow-up that is submitted becomes a run that was none.   *)
LEMMA SubmitMakes ==
    ASSUME TypeOK, NEW m \in Msgs, NEW kept \in BOOLEAN, SubmitRun(m, kept)
    PROVE  \E n \in Runs :
             /\ pc[n] = "none" /\ pc'[n] = "pool" /\ carries'[n] = m
             /\ pc' = [pc EXCEPT ![n] = "pool"]
             /\ \A r \in Runs \ {n} : pc'[r] = pc[r] /\ carries'[r] = carries[r]
             /\ carries' \in [Runs -> Msgs \cup {None}] /\ durable' \in [Runs -> BOOLEAN]
             /\ worker' = worker
<1>1. PICK n \in Runs : /\ NewRun(n)
                        /\ pc' = [pc EXCEPT ![n] = "pool"]
                        /\ carries' = [carries EXCEPT ![n] = m]
                        /\ durable' = [durable EXCEPT ![n] = kept]
  BY DEF SubmitRun
<1>2. worker' = worker
  BY DEF SubmitRun, runVars
<1>3. QED
  BY <1>1, <1>2 DEF TypeOK, NewRun

(* NobodyAtWork: in a thread that is idle no run lives or is on its way.     *)
LEMMA NobodyAtWork ==
    ASSUME ConstantsOK, TypeOK, FirstMarks, ~ThreadRunning
    PROVE  \A r \in Runs : ~Alive(r)
<1>1. 1 \in Runs /\ None \notin Runs
  BY DEF ConstantsOK, Runs
<1>2. \A r \in Runs \ {1} : ~Alive(r)
  BY DEF ThreadRunning, InPool, Alive
<1>3. ~Alive(1)
  BY <1>1 DEF ThreadRunning, FirstMarks, Alive
<1>4. QED
  BY <1>2, <1>3

(* SteerAdds: AppendSteer adds the follow-up to what waits for its run.       *)
LEMMA SteerAdds ==
    ASSUME TypeOK, AppendSteer
    PROVE  /\ at.run \in Runs /\ at.msg \in Msgs
           /\ pending' \in [Runs -> Seq(Msgs)]
           /\ \A r \in Runs : /\ Range(pending[r]) \subseteq Range(pending'[r])
                             /\ Range(pending'[r]) \subseteq Range(pending[r]) \cup {at.msg}
<1>1. at.run \in Runs /\ at.msg \in Msgs
  BY DEF TypeOK, AppendSteer
<1>2. pending' = [pending EXCEPT ![at.run] = Append(pending[at.run], at.msg)]
  BY DEF AppendSteer
<1>3. pending \in [Runs -> Seq(Msgs)]
  BY DEF TypeOK
<1>4. /\ Append(pending[at.run], at.msg) \in Seq(Msgs)
      /\ Range(Append(pending[at.run], at.msg)) = Range(pending[at.run]) \cup {at.msg}
  BY <1>1, <1>3, AppendHas
<1>5. QED
  BY <1>1, <1>2, <1>3, <1>4

(* HookGives: a worker that accepts has the follow-up, which leaves the queue *)
(* unless the other thread took it out before.                               *)
LEMMA HookGives ==
    ASSUME TypeOK, Queues, NEW a \in Deliverers, HookAccepts(a)
    PROVE  /\ pending' \in [Runs -> Seq(Msgs)] /\ got' \in [Runs -> Seq(Msgs)]
           /\ deliver[a].run \in Runs /\ deliver[a].msg \in Msgs
           /\ deliver[a].msg \in Range(got'[deliver[a].run])
           /\ \A r \in Runs :
                 /\ Range(got[r]) \subseteq Range(got'[r])
                 /\ Range(pending'[r]) \subseteq Range(pending[r])
                 /\ Range(pending[r]) \subseteq Range(pending'[r]) \cup {deliver[a].msg}
<1> DEFINE q == deliver[a].run
           e == deliver[a].msg
<1>1. q \in Runs /\ e \in Msgs
  BY DEF Queues, HookAccepts
<1>2. pending \in [Runs -> Seq(Msgs)] /\ got \in [Runs -> Seq(Msgs)]
  BY DEF TypeOK
<1>3. got' = [got EXCEPT ![q] = Append(got[q], e)]
  BY DEF HookAccepts
<1>4. /\ Append(got[q], e) \in Seq(Msgs)
      /\ Range(Append(got[q], e)) = Range(got[q]) \cup {e}
  BY <1>1, <1>2, AppendHas
<1> DEFINE rest == IF pending[q] # <<>> /\ Head(pending[q]) = e THEN Tail(pending[q])
                   ELSE pending[q]
<1>5. pending' = [pending EXCEPT ![q] = rest]
  BY DEF HookAccepts
<1>6. /\ rest \in Seq(Msgs) /\ Range(rest) \subseteq Range(pending[q])
      /\ Range(pending[q]) \subseteq Range(rest) \cup {e}
  BY <1>1, <1>2, HeadAndTail
<1> HIDE DEF q, e, rest
<1>7. /\ pending' \in [Runs -> Seq(Msgs)] /\ got' \in [Runs -> Seq(Msgs)]
      /\ e \in Range(got'[q])
      /\ \A r \in Runs : /\ Range(got[r]) \subseteq Range(got'[r])
                        /\ Range(pending'[r]) \subseteq Range(pending[r])
                        /\ Range(pending[r]) \subseteq Range(pending'[r]) \cup {e}
  BY <1>1, <1>2, <1>3, <1>4, <1>5, <1>6
<1>8. QED
  BY <1>1, <1>7 DEF q, e

(* FoundSame: a follow-up is found where it was, if queues, workers and runs *)
(* are left alone.                                                           *)
LEMMA FoundSame ==
    ASSUME UNCHANGED <<pending, got>>, reported \subseteq reported', late \subseteq late',
           \A r \in Runs : pc[r] \in {"live", "status"} => pc'[r] \in {"live", "status"}
    PROVE  \A m \in Msgs : Found(m) => Found(m)'
  BY DEF Found, Waiting, Delivered

(* CarriersStay: a follow-up keeps its carriers, if they keep it.            *)
LEMMA CarriersStay ==
    ASSUME ConstantsOK, \A r \in Runs : carries[r] # None => carries'[r] = carries[r]
    PROVE  \A m \in Msgs : Carriers(m) # {} => Carriers(m)' # {}
<1> SUFFICES ASSUME NEW m \in Msgs, Carriers(m) # {} PROVE Carriers(m)' # {}
  OBVIOUS
<1>1. PICK r \in Runs : carries[r] = m
  BY DEF Carriers
<1>2. carries'[r] = m
  BY <1>1 DEF ConstantsOK
<1>3. QED
  BY <1>2 DEF Carriers

(* KeptOn: what was steered stays found, if what is steered now is found and *)
(* the loop stands where it stood or comes from the delivery.                *)
LEMMA KeptOn ==
    ASSUME Kept, steered \subseteq Msgs, at.step # "idle" => at.msg \in Msgs,
           \A m \in Msgs : Found(m) => Found(m)',
           \A m \in Msgs : Carriers(m) # {} => Carriers(m)' # {},
           steered \subseteq steered', \A m \in steered' \ steered : Found(m)',
           \/ at'.step \notin {"deliver", "mark"}
           \/ at'.step = at.step /\ at'.msg = at.msg
           \/ at'.step = "mark" /\ at.step = "deliver" /\ at'.msg = at.msg
           \/ at'.msg \in steered'
           \/ at'.step = "mark" /\ (Carriers(at.msg) # {})'
    PROVE  Kept'
<1>1. \A m \in steered' : Found(m)'
  BY DEF Kept
<1>2. at'.step = "deliver" => at'.msg \in steered'
  BY DEF Kept
<1>3. at'.step = "mark" => at'.msg \in steered' \/ (Carriers(at.msg) # {})'
  BY DEF Kept
<1>4. QED
  BY <1>1, <1>2, <1>3 DEF Kept

(* PlacedOn: every follow-up keeps a place, if the one the loop had at hand, *)
(* the queued ones and the newly claimed ones get or keep one.               *)
LEMMA PlacedOn ==
    ASSUME \A m \in 1..taken : Placed(m), 1..taken \subseteq Msgs,
           \A m \in Msgs : Found(m) => Found(m)',
           \A m \in Msgs : Carriers(m) # {} => Carriers(m)' # {},
           told \subseteq told',
           \A m \in (1..taken)' \ (1..taken) : at'.msg = m \/ Carriers(m)' # {},
           \A m \in 1..taken : at.msg = m \/ row[m] = "queued" => Placed(m)'
    PROVE  \A m \in (1..taken)' : Placed(m)'
<1> SUFFICES ASSUME NEW m \in (1..taken)' PROVE Placed(m)'
  OBVIOUS
<1>1. CASE m \in 1..taken
  BY <1>1 DEF Placed
<1>2. CASE m \notin 1..taken
  BY <1>2 DEF Placed
<1>3. QED
  BY <1>1, <1>2

(* OneRunStep: a run is made only when none is alive.                         *)
LEMMA OneRunStep == ASSUME ConstantsOK, LiveInv, [Next]_vars PROVE OneRun'
<1> USE DEF LiveInv, TypeOK, OneRun, Alive, runVars, markVars, histVars, vars
<1>1. CASE TakeLive
  BY <1>1 DEF TakeLive, Idle
<1>2. CASE TakeIdle
  <2>0. taken + 1 \in Msgs
    BY <1>2 DEF TakeIdle, TypeOK, Msgs, ConstantsOK
  <2>1. PICK n \in Runs :
           /\ pc[n] = "none" /\ pc'[n] = "pool" /\ carries'[n] = taken + 1
           /\ pc' = [pc EXCEPT ![n] = "pool"]
           /\ \A r \in Runs \ {n} : pc'[r] = pc[r] /\ carries'[r] = carries[r]
           /\ carries' \in [Runs -> Msgs \cup {None}] /\ durable' \in [Runs -> BOOLEAN]
           /\ worker' = worker
    BY <1>2, <2>0, SubmitMakes DEF TakeIdle
  <2>2. \A r \in Runs : ~Alive(r)
    BY <1>2, NobodyAtWork DEF TakeIdle
  <2>3. QED
    BY <2>1, <2>2
<1>3. CASE Enqueue
  BY <1>3 DEF Enqueue, Goto
<1>4. CASE EnqueueFails
  BY <1>4 DEF EnqueueFails, Goto
<1>5. CASE CheckHit
  BY <1>5 DEF CheckHit
<1>6. CASE CheckMiss
  BY <1>6 DEF CheckMiss
<1>7. CASE AppendSteer
  BY <1>7 DEF AppendSteer, Goto
<1>8. CASE SteerReturns
  BY <1>8 DEF SteerReturns, Goto
<1>9. CASE MarkApplied
  BY <1>9 DEF MarkApplied
<1>9b. CASE MarkFails
  BY <1>9b DEF MarkFails
<1>10. CASE FlushList
  BY <1>10 DEF FlushList, Idle
<1>11. CASE FlushSteer
  BY <1>11 DEF FlushSteer, Idle
<1>12. CASE FlushSubmit
  <2>0. PICK m \in todo :
           /\ SubmitRun(m, FALSE) /\ todo' = todo \ {m}
           /\ at' = [step |-> "mark", msg |-> m, run |-> None]
    BY <1>12 DEF FlushSubmit
  <2>1. PICK n \in Runs :
           /\ pc[n] = "none" /\ pc'[n] = "pool" /\ carries'[n] = m
           /\ pc' = [pc EXCEPT ![n] = "pool"]
           /\ \A r \in Runs \ {n} : pc'[r] = pc[r] /\ carries'[r] = carries[r]
           /\ carries' \in [Runs -> Msgs \cup {None}] /\ durable' \in [Runs -> BOOLEAN]
           /\ worker' = worker
    BY <2>0, SubmitMakes DEF TypeOK
  <2>2. \A r \in Runs : ~Alive(r)
    BY <1>12, NobodyAtWork DEF FlushSubmit
  <2>3. QED
    BY <2>1, <2>2
<1>13. CASE HostRestart
  BY <1>13 DEF HostRestart
<1>14. ASSUME NEW a \in Deliverers, Look(a) PROVE OneRun'
  BY <1>14 DEF Look
<1>15. ASSUME NEW a \in Deliverers, HookRefuses(a) PROVE OneRun'
  BY <1>15 DEF HookRefuses
<1>16. ASSUME NEW a \in Deliverers, HookAccepts(a) PROVE OneRun'
  BY <1>16 DEF HookAccepts
<1>17. ASSUME NEW r \in Runs, JobKnown(r) PROVE OneRun'
  BY <1>17 DEF JobKnown
<1>18. ASSUME NEW r \in Runs, StreamEvent(r) PROVE OneRun'
  BY <1>18 DEF StreamEvent
<1>19. ASSUME NEW r \in Runs, StreamEnd(r) PROVE OneRun'
  BY <1>19 DEF StreamEnd
<1>20. ASSUME NEW r \in Runs, Live(r) PROVE OneRun'
  BY <1>20 DEF Live
<1>21. ASSUME NEW r \in Runs, SetStatus(r) PROVE OneRun'
  BY <1>21 DEF SetStatus
<1>22. ASSUME NEW r \in Runs, LastLook(r) PROVE OneRun'
  BY <1>22 DEF LastLook
<1>23. ASSUME NEW r \in Runs, Release(r) PROVE OneRun'
  BY <1>23 DEF Release
<1>24. ASSUME NEW r \in Runs, LeavePool(r) PROVE OneRun'
  BY <1>24 DEF LeavePool
<1>25. CASE UNCHANGED vars
  BY <1>25 DEF vars
<1>26. QED
  BY <1>1, <1>2, <1>3, <1>4, <1>5, <1>6, <1>7, <1>8, <1>9, <1>9b, <1>10, <1>11, <1>12, <1>13,
     <1>14, <1>15, <1>16, <1>17, <1>18, <1>19, <1>20, <1>21, <1>22, <1>23, <1>24, <1>25
  DEF Next, LoopStep, DeliverStep, SettleStep

(* FirstMarksStep: no other run marks or releases the thread meanwhile.      *)
LEMMA FirstMarksStep == ASSUME ConstantsOK, LiveInv, [Next]_vars PROVE FirstMarks'
<1> USE DEF ConstantsOK, LiveInv, TypeOK, OneRun, Alive, FirstMarks, Runs, runVars, markVars,
            histVars, vars
<1>1. CASE TakeLive
  BY <1>1 DEF TakeLive, Idle
<1>2. CASE TakeIdle
  <2>0. taken + 1 \in Msgs
    BY <1>2 DEF TakeIdle, TypeOK, Msgs, ConstantsOK
  <2>1. PICK n \in Runs :
           /\ pc[n] = "none" /\ pc'[n] = "pool" /\ carries'[n] = taken + 1
           /\ pc' = [pc EXCEPT ![n] = "pool"]
           /\ \A r \in Runs \ {n} : pc'[r] = pc[r] /\ carries'[r] = carries[r]
           /\ carries' \in [Runs -> Msgs \cup {None}] /\ durable' \in [Runs -> BOOLEAN]
           /\ worker' = worker
    BY <1>2, <2>0, SubmitMakes DEF TakeIdle
  <2>2. QED
    BY <1>2, <2>1 DEF TakeIdle
<1>3. CASE Enqueue
  BY <1>3 DEF Enqueue, Goto
<1>4. CASE EnqueueFails
  BY <1>4 DEF EnqueueFails, Goto
<1>5. CASE CheckHit
  BY <1>5 DEF CheckHit
<1>6. CASE CheckMiss
  BY <1>6 DEF CheckMiss
<1>7. CASE AppendSteer
  BY <1>7 DEF AppendSteer, Goto
<1>8. CASE SteerReturns
  BY <1>8 DEF SteerReturns, Goto
<1>9. CASE MarkApplied
  BY <1>9 DEF MarkApplied
<1>9b. CASE MarkFails
  BY <1>9b DEF MarkFails
<1>10. CASE FlushList
  BY <1>10 DEF FlushList, Idle
<1>11. CASE FlushSteer
  BY <1>11 DEF FlushSteer, Idle
<1>12. CASE FlushSubmit
  <2>0. PICK m \in todo :
           /\ SubmitRun(m, FALSE) /\ todo' = todo \ {m}
           /\ at' = [step |-> "mark", msg |-> m, run |-> None]
    BY <1>12 DEF FlushSubmit
  <2>1. PICK n \in Runs :
           /\ pc[n] = "none" /\ pc'[n] = "pool" /\ carries'[n] = m
           /\ pc' = [pc EXCEPT ![n] = "pool"]
           /\ \A r \in Runs \ {n} : pc'[r] = pc[r] /\ carries'[r] = carries[r]
           /\ carries' \in [Runs -> Msgs \cup {None}] /\ durable' \in [Runs -> BOOLEAN]
           /\ worker' = worker
    BY <2>0, SubmitMakes DEF TypeOK
  <2>2. QED
    BY <1>12, <2>1 DEF FlushSubmit
<1>13. CASE HostRestart
  BY <1>13 DEF HostRestart
<1>14. ASSUME NEW a \in Deliverers, Look(a) PROVE FirstMarks'
  BY <1>14 DEF Look
<1>15. ASSUME NEW a \in Deliverers, HookRefuses(a) PROVE FirstMarks'
  BY <1>15 DEF HookRefuses
<1>16. ASSUME NEW a \in Deliverers, HookAccepts(a) PROVE FirstMarks'
  BY <1>16 DEF HookAccepts
<1>17. ASSUME NEW r \in Runs, JobKnown(r) PROVE FirstMarks'
  BY <1>17 DEF JobKnown
<1>18. ASSUME NEW r \in Runs, StreamEvent(r) PROVE FirstMarks'
  BY <1>18 DEF StreamEvent
<1>19. ASSUME NEW r \in Runs, StreamEnd(r) PROVE FirstMarks'
  BY <1>19 DEF StreamEnd
<1>20. ASSUME NEW r \in Runs, Live(r) PROVE FirstMarks'
  BY <1>20 DEF Live
<1>21. ASSUME NEW r \in Runs, SetStatus(r) PROVE FirstMarks'
  BY <1>21 DEF SetStatus
<1>22. ASSUME NEW r \in Runs, LastLook(r) PROVE FirstMarks'
  BY <1>22 DEF LastLook
<1>23. ASSUME NEW r \in Runs, Release(r) PROVE FirstMarks'
  BY <1>23 DEF Release
<1>24. ASSUME NEW r \in Runs, LeavePool(r) PROVE FirstMarks'
  BY <1>24 DEF LeavePool
<1>25. CASE UNCHANGED vars
  BY <1>25 DEF vars
<1>26. QED
  BY <1>1, <1>2, <1>3, <1>4, <1>5, <1>6, <1>7, <1>8, <1>9, <1>9b, <1>10, <1>11, <1>12, <1>13,
     <1>14, <1>15, <1>16, <1>17, <1>18, <1>19, <1>20, <1>21, <1>22, <1>23, <1>24, <1>25
  DEF Next, LoopStep, DeliverStep, SettleStep

(* LoopStepKept: the loop marks the row it has at hand, and lists when idle. *)
LEMMA LoopStepKept == ASSUME ConstantsOK, LiveInv, [Next]_vars PROVE Loop'
<1> USE DEF ConstantsOK, LiveInv, TypeOK, Loop, Idle, IdleLoop, Goto, Msgs, runVars, markVars,
            histVars, vars
<1>1. CASE TakeLive
  BY <1>1 DEF TakeLive, Idle
<1>2. CASE TakeIdle
  BY <1>2 DEF TakeIdle, Idle
<1>3. CASE Enqueue
  BY <1>3 DEF Enqueue, Goto
<1>4. CASE EnqueueFails
  BY <1>4 DEF EnqueueFails, Goto
<1>5. CASE CheckHit
  BY <1>5 DEF CheckHit
<1>6. CASE CheckMiss
  BY <1>6 DEF CheckMiss
<1>7. CASE AppendSteer
  BY <1>7 DEF AppendSteer, Goto
<1>8. CASE SteerReturns
  BY <1>8 DEF SteerReturns, Goto
<1>9. CASE MarkApplied
  BY <1>9 DEF MarkApplied
<1>9b. CASE MarkFails
  BY <1>9b DEF MarkFails
<1>10. CASE FlushList
  BY <1>10 DEF FlushList, Idle
<1>11. CASE FlushSteer
  BY <1>11 DEF FlushSteer, Idle
<1>12. CASE FlushSubmit
  BY <1>12 DEF FlushSubmit, Idle
<1>13. CASE HostRestart
  BY <1>13 DEF HostRestart
<1>14. ASSUME NEW a \in Deliverers, Look(a) PROVE Loop'
  BY <1>14 DEF Look
<1>15. ASSUME NEW a \in Deliverers, HookRefuses(a) PROVE Loop'
  BY <1>15 DEF HookRefuses
<1>16. ASSUME NEW a \in Deliverers, HookAccepts(a) PROVE Loop'
  BY <1>16 DEF HookAccepts
<1>17. ASSUME NEW r \in Runs, JobKnown(r) PROVE Loop'
  BY <1>17 DEF JobKnown
<1>18. ASSUME NEW r \in Runs, StreamEvent(r) PROVE Loop'
  BY <1>18 DEF StreamEvent
<1>19. ASSUME NEW r \in Runs, StreamEnd(r) PROVE Loop'
  BY <1>19 DEF StreamEnd
<1>20. ASSUME NEW r \in Runs, Live(r) PROVE Loop'
  BY <1>20 DEF Live
<1>21. ASSUME NEW r \in Runs, SetStatus(r) PROVE Loop'
  BY <1>21 DEF SetStatus
<1>22. ASSUME NEW r \in Runs, LastLook(r) PROVE Loop'
  BY <1>22 DEF LastLook
<1>23. ASSUME NEW r \in Runs, Release(r) PROVE Loop'
  BY <1>23 DEF Release
<1>24. ASSUME NEW r \in Runs, LeavePool(r) PROVE Loop'
  BY <1>24 DEF LeavePool
<1>25. CASE UNCHANGED vars
  BY <1>25 DEF vars
<1>26. QED
  BY <1>1, <1>2, <1>3, <1>4, <1>5, <1>6, <1>7, <1>8, <1>9, <1>9b, <1>10, <1>11, <1>12, <1>13,
     <1>14, <1>15, <1>16, <1>17, <1>18, <1>19, <1>20, <1>21, <1>22, <1>23, <1>24, <1>25
  DEF Next, LoopStep, DeliverStep, SettleStep

(* QueuesStep: only AppendSteer adds to what waits for a worker.             *)
LEMMA QueuesStep == ASSUME ConstantsOK, LiveInv, [Next]_vars PROVE Queues'
<1> USE DEF ConstantsOK, LiveInv, TypeOK, Queues, Loop, Idle, Off, runVars, markVars,
            histVars, vars
<1>1. CASE TakeLive
  BY <1>1 DEF TakeLive, Idle
<1>2. CASE TakeIdle
  <2>0. taken + 1 \in Msgs
    BY <1>2 DEF TakeIdle, TypeOK, Msgs, ConstantsOK
  <2>1. PICK n \in Runs :
           /\ pc[n] = "none" /\ pc'[n] = "pool" /\ carries'[n] = taken + 1
           /\ pc' = [pc EXCEPT ![n] = "pool"]
           /\ \A r \in Runs \ {n} : pc'[r] = pc[r] /\ carries'[r] = carries[r]
           /\ carries' \in [Runs -> Msgs \cup {None}] /\ durable' \in [Runs -> BOOLEAN]
           /\ worker' = worker
    BY <1>2, <2>0, SubmitMakes DEF TakeIdle
  <2>2. UNCHANGED <<pending, deliver, steered>>
    BY <1>2 DEF TakeIdle
  <2>3. QED
    BY <2>1, <2>2
<1>3. CASE Enqueue
  BY <1>3 DEF Enqueue, Goto
<1>4. CASE EnqueueFails
  BY <1>4 DEF EnqueueFails, Goto
<1>5. CASE CheckHit
  BY <1>5 DEF CheckHit
<1>6. CASE CheckMiss
  BY <1>6 DEF CheckMiss
<1>7. CASE AppendSteer
  <2>1. /\ at.run \in Runs
        /\ \A r \in Runs : Range(pending'[r]) \subseteq Range(pending[r]) \cup {at.msg}
    BY <1>7, SteerAdds
  <2>2. deliver' = [deliver EXCEPT !["loop"] =
                      [step |-> "look", msg |-> None, run |-> at.run]]
    BY <1>7 DEF AppendSteer
  <2>3. UNCHANGED <<pc, carries>> /\ steered' = steered \cup {at.msg}
    BY <1>7 DEF AppendSteer
  <2>4. QED
    BY <2>1, <2>2, <2>3
<1>8. CASE SteerReturns
  BY <1>8 DEF SteerReturns, Goto
<1>9. CASE MarkApplied
  BY <1>9 DEF MarkApplied
<1>9b. CASE MarkFails
  BY <1>9b DEF MarkFails
<1>10. CASE FlushList
  BY <1>10 DEF FlushList, Idle
<1>11. CASE FlushSteer
  BY <1>11 DEF FlushSteer, Idle
<1>12. CASE FlushSubmit
  <2>0. PICK m \in todo :
           /\ SubmitRun(m, FALSE) /\ todo' = todo \ {m}
           /\ at' = [step |-> "mark", msg |-> m, run |-> None]
    BY <1>12 DEF FlushSubmit
  <2>1. PICK n \in Runs :
           /\ pc[n] = "none" /\ pc'[n] = "pool" /\ carries'[n] = m
           /\ pc' = [pc EXCEPT ![n] = "pool"]
           /\ \A r \in Runs \ {n} : pc'[r] = pc[r] /\ carries'[r] = carries[r]
           /\ carries' \in [Runs -> Msgs \cup {None}] /\ durable' \in [Runs -> BOOLEAN]
           /\ worker' = worker
    BY <2>0, SubmitMakes DEF TypeOK
  <2>2. UNCHANGED <<pending, deliver, steered>>
    BY <1>12 DEF FlushSubmit
  <2>3. QED
    BY <2>1, <2>2
<1>13. CASE HostRestart
  <2>1. /\ \A r \in Runs : pending'[r] = <<>> /\ (pc'[r] = "none" => pc[r] = "none")
        /\ \A a \in Deliverers : deliver'[a].step = "off"
        /\ UNCHANGED <<carries, steered>>
    BY <1>13 DEF HostRestart
  <2>2. QED
    BY <2>1, EmptyRange
<1>14. ASSUME NEW a \in Deliverers, Look(a) PROVE Queues'
  BY <1>14 DEF Look
<1>15. ASSUME NEW a \in Deliverers, HookRefuses(a) PROVE Queues'
  BY <1>15 DEF HookRefuses
<1>16. ASSUME NEW a \in Deliverers, HookAccepts(a) PROVE Queues'
  <2>1. \A r \in Runs : Range(pending'[r]) \subseteq Range(pending[r])
    BY <1>16, HookGives
  <2>2. /\ \A b \in Deliverers : deliver'[b].run = deliver[b].run
        /\ \A b \in Deliverers :
              deliver'[b].step = "call" => deliver[b].step = "call" /\ deliver'[b] = deliver[b]
        /\ \A b \in Deliverers : deliver'[b].step # "off" => deliver[b].step # "off"
    BY <1>16 DEF HookAccepts
  <2>3. UNCHANGED <<pc, carries, steered>>
    BY <1>16 DEF HookAccepts
  <2>4. QED
    BY <2>1, <2>2, <2>3
<1>17. ASSUME NEW r \in Runs, JobKnown(r) PROVE Queues'
  BY <1>17 DEF JobKnown
<1>18. ASSUME NEW r \in Runs, StreamEvent(r) PROVE Queues'
  BY <1>18 DEF StreamEvent
<1>19. ASSUME NEW r \in Runs, StreamEnd(r) PROVE Queues'
  BY <1>19 DEF StreamEnd
<1>20. ASSUME NEW r \in Runs, Live(r) PROVE Queues'
  BY <1>20 DEF Live
<1>21. ASSUME NEW r \in Runs, SetStatus(r) PROVE Queues'
  BY <1>21 DEF SetStatus
<1>22. ASSUME NEW r \in Runs, LastLook(r) PROVE Queues'
  <2>1. /\ \A q \in Runs : pending'[q] = pending[q] \/ pending'[q] = <<>>
        /\ \A q \in Runs : pc'[q] = "none" => pc[q] = "none"
        /\ UNCHANGED <<carries, steered, deliver>>
    BY <1>22 DEF LastLook
  <2>2. QED
    BY <2>1, EmptyRange
<1>23. ASSUME NEW r \in Runs, Release(r) PROVE Queues'
  <2>1. /\ \A q \in Runs : pending'[q] = pending[q] \/ pending'[q] = <<>>
        /\ \A q \in Runs : pc'[q] = "none" => pc[q] = "none"
        /\ UNCHANGED <<carries, steered, deliver>>
    BY <1>23 DEF Release
  <2>2. QED
    BY <2>1, EmptyRange
<1>24. ASSUME NEW r \in Runs, LeavePool(r) PROVE Queues'
  BY <1>24 DEF LeavePool
<1>25. CASE UNCHANGED vars
  BY <1>25 DEF vars
<1>26. QED
  BY <1>1, <1>2, <1>3, <1>4, <1>5, <1>6, <1>7, <1>8, <1>9, <1>9b, <1>10, <1>11, <1>12, <1>13,
     <1>14, <1>15, <1>16, <1>17, <1>18, <1>19, <1>20, <1>21, <1>22, <1>23, <1>24, <1>25
  DEF Next, LoopStep, DeliverStep, SettleStep

(* TypeStep: every step keeps every variable to its kind.                    *)
LEMMA TypeStep == ASSUME ConstantsOK, LiveInv, [Next]_vars PROVE TypeOK'
<1> USE DEF ConstantsOK, LiveInv, TypeOK, Loop, Queues, Idle, Off, IdleLoop, Steps, Msgs,
            runVars, markVars, histVars, vars
<1>1. CASE TakeLive
  BY <1>1 DEF TakeLive, Idle
<1>2. CASE TakeIdle
  <2>0. taken + 1 \in Msgs
    BY <1>2 DEF TakeIdle, TypeOK, Msgs, ConstantsOK
  <2>1. PICK n \in Runs :
           /\ pc[n] = "none" /\ pc'[n] = "pool" /\ carries'[n] = taken + 1
           /\ pc' = [pc EXCEPT ![n] = "pool"]
           /\ \A r \in Runs \ {n} : pc'[r] = pc[r] /\ carries'[r] = carries[r]
           /\ carries' \in [Runs -> Msgs \cup {None}] /\ durable' \in [Runs -> BOOLEAN]
           /\ worker' = worker
    BY <1>2, <2>0, SubmitMakes DEF TakeIdle
  <2>2. QED
    BY <1>2, <2>0, <2>1 DEF TakeIdle
<1>3. CASE Enqueue
  BY <1>3 DEF Enqueue, Goto
<1>4. CASE EnqueueFails
  <2>1. faults' \in 0..MaxFaults
    BY <1>4 DEF EnqueueFails
  <2>2. QED
    BY <1>4, <2>1 DEF EnqueueFails, Goto
<1>5. CASE CheckHit
  <2>1. mark \in Runs
    BY <1>5 DEF CheckHit, Steerable
  <2>2. at' = [step |-> "append", msg |-> at.msg, run |-> mark]
    BY <1>5 DEF CheckHit
  <2>3. QED
    BY <1>5, <2>1, <2>2 DEF CheckHit
<1>6. CASE CheckMiss
  <2>1. at.msg \in 1..taken
    BY <1>6 DEF CheckMiss
  <2>2. told' \subseteq told \cup {at.msg} /\ taken' = taken
    BY <1>6 DEF CheckMiss
  <2>3. told' \subseteq 1..taken
    BY <2>1, <2>2
  <2>4. QED
    BY <1>6, <2>3 DEF CheckMiss
<1>7. CASE AppendSteer
  <2>1. at.msg \in Msgs /\ at.run \in Runs /\ at.msg \in 1..taken
    BY <1>7 DEF AppendSteer
  <2>2. pending' \in [Runs -> Seq(Msgs)] /\ got' = got
    BY <1>7, SteerAdds DEF AppendSteer
  <2>3. deliver' \in [Deliverers -> [step : {"off", "look", "call"}, msg : Msgs \cup {None},
                                    run : Runs \cup {None}]]
    BY <1>7, <2>1 DEF AppendSteer
  <2>4. steered' \subseteq 1..taken /\ late' \subseteq steered' /\ reported' \subseteq steered'
    BY <1>7, <2>1 DEF AppendSteer
  <2>5. /\ at' \in [step : Steps, msg : Msgs \cup {None}, run : Runs \cup {None}]
        /\ at'.msg = at.msg /\ at'.run = at.run
    BY <1>7 DEF AppendSteer, Goto
  <2>6. UNCHANGED <<taken, row, todo, runVars, markVars, told, unmarked, faults, crashes>>
    BY <1>7 DEF AppendSteer
  <2>7. QED
    BY <2>1, <2>2, <2>3, <2>4, <2>5, <2>6
<1>8. CASE SteerReturns
  BY <1>8 DEF SteerReturns, Goto
<1>9. CASE MarkApplied
  BY <1>9 DEF MarkApplied
<1>9b. CASE MarkFails
  <2>1. faults' \in 0..MaxFaults /\ at.msg \in 1..taken
    BY <1>9b DEF MarkFails
  <2>2. UNCHANGED <<taken, row, todo, runVars, pending, deliver, markVars, got, steered, late,
                    reported, told, crashes>>
        /\ unmarked' = unmarked \cup {at.msg} /\ at' = IdleLoop
    BY <1>9b DEF MarkFails
  <2>3. QED
    BY <2>1, <2>2
<1>10. CASE FlushList
  BY <1>10 DEF FlushList, Idle
<1>11. CASE FlushSteer
  BY <1>11 DEF FlushSteer, Idle
<1>12. CASE FlushSubmit
  <2>0. PICK m \in todo :
           /\ SubmitRun(m, FALSE) /\ todo' = todo \ {m}
           /\ at' = [step |-> "mark", msg |-> m, run |-> None]
    BY <1>12 DEF FlushSubmit
  <2>1. PICK n \in Runs :
           /\ pc[n] = "none" /\ pc'[n] = "pool" /\ carries'[n] = m
           /\ pc' = [pc EXCEPT ![n] = "pool"]
           /\ \A r \in Runs \ {n} : pc'[r] = pc[r] /\ carries'[r] = carries[r]
           /\ carries' \in [Runs -> Msgs \cup {None}] /\ durable' \in [Runs -> BOOLEAN]
           /\ worker' = worker
    BY <2>0, SubmitMakes DEF TypeOK
  <2>2. QED
    BY <1>12, <2>0, <2>1 DEF FlushSubmit
<1>13. CASE HostRestart
  <2>1. crashes' \in 0..MaxCrashes
    BY <1>13 DEF HostRestart
  <2>2. /\ pc' \in [Runs -> {"none", "pool", "live", "status", "last", "released", "gone"}]
        /\ worker' \in [Runs -> {"starting", "known", "ended"}]
    BY <1>13 DEF HostRestart
  <2>3. pending' \in [Runs -> Seq(Msgs)]
    BY <1>13 DEF HostRestart
  <2>4. /\ deliver' \in [Deliverers -> [step : {"off", "look", "call"},
                                      msg : Msgs \cup {None}, run : Runs \cup {None}]]
        /\ at' \in [step : Steps, msg : Msgs \cup {None}, run : Runs \cup {None}]
        /\ at'.step = "idle" /\ todo' = {} /\ mark' = None /\ origin' = FALSE
    BY <1>13 DEF HostRestart
  <2>5. UNCHANGED <<taken, row, carries, durable, histVars, faults>>
    BY <1>13 DEF HostRestart
  <2>6. QED
    BY <2>1, <2>2, <2>3, <2>4, <2>5
<1>14. ASSUME NEW a \in Deliverers, Look(a) PROVE TypeOK'
  <2>1. CASE pending[deliver[a].run] = <<>>
    BY <1>14, <2>1 DEF Look
  <2>2. CASE pending[deliver[a].run] # <<>>
    <3>1. deliver[a].run \in Runs /\ Head(pending[deliver[a].run]) \in Msgs
      BY <1>14, <2>2 DEF Look
    <3>2. deliver' \in [Deliverers -> [step : {"off", "look", "call"},
                                      msg : Msgs \cup {None}, run : Runs \cup {None}]]
      <4> DEFINE to == [step |-> "call", msg |-> Head(pending[deliver[a].run]),
                       run |-> deliver[a].run]
      <4>1. deliver' = [deliver EXCEPT ![a] = to]
        <5>1. [deliver[a] EXCEPT !.step = "call", !.msg = Head(pending[deliver[a].run])] = to
          BY <3>1, HandsOver
        <5>2. QED
          BY <1>14, <2>2, <5>1 DEF Look
      <4>2. to \in [step : {"off", "look", "call"}, msg : Msgs \cup {None},
                   run : Runs \cup {None}]
        BY <3>1
      <4> HIDE DEF to
      <4>3. QED
        BY <4>1, <4>2
    <3>3. QED
      BY <1>14, <3>2 DEF Look
  <2>3. QED
    BY <2>1, <2>2
<1>15. ASSUME NEW a \in Deliverers, HookRefuses(a) PROVE TypeOK'
  BY <1>15 DEF HookRefuses
<1>16. ASSUME NEW a \in Deliverers, HookAccepts(a) PROVE TypeOK'
  <2>1. deliver[a].run \in Runs /\ deliver[a].msg \in Msgs
    BY <1>16 DEF HookAccepts
  <2>2. pending' \in [Runs -> Seq(Msgs)] /\ got' \in [Runs -> Seq(Msgs)]
    BY <1>16, <2>1, HookGives
  <2>4. deliver' \in [Deliverers -> [step : {"off", "look", "call"}, msg : Msgs \cup {None},
                                    run : Runs \cup {None}]]
    <3> DEFINE to == [step |-> "look", msg |-> deliver[a].msg, run |-> deliver[a].run]
    <3>0. [deliver[a] EXCEPT !.step = "look"] = to
      BY HandsOver
    <3>1. deliver' = [deliver EXCEPT ![a] = to]
      BY <1>16, <3>0 DEF HookAccepts
    <3>2. QED
      BY <2>1, <3>1
  <2>5. QED
    BY <1>16, <2>2, <2>4 DEF HookAccepts
<1>17. ASSUME NEW r \in Runs, JobKnown(r) PROVE TypeOK'
  BY <1>17 DEF JobKnown
<1>18. ASSUME NEW r \in Runs, StreamEvent(r) PROVE TypeOK'
  BY <1>18 DEF StreamEvent
<1>19. ASSUME NEW r \in Runs, StreamEnd(r) PROVE TypeOK'
  BY <1>19 DEF StreamEnd
<1>20. ASSUME NEW r \in Runs, Live(r) PROVE TypeOK'
  BY <1>20 DEF Live
<1>21. ASSUME NEW r \in Runs, SetStatus(r) PROVE TypeOK'
  BY <1>21 DEF SetStatus
<1>22. ASSUME NEW r \in Runs, LastLook(r) PROVE TypeOK'
  <2>1. reported' \subseteq steered /\ steered' = steered
    BY <1>22 DEF LastLook
  <2>2. pending' \in [Runs -> Seq(Msgs)]
    BY <1>22 DEF LastLook
  <2>3. QED
    BY <1>22, <2>1, <2>2 DEF LastLook
<1>23. ASSUME NEW r \in Runs, Release(r) PROVE TypeOK'
  <2>1. pending' \in [Runs -> Seq(Msgs)]
    BY <1>23 DEF Release
  <2>2. QED
    BY <1>23, <2>1 DEF Release
<1>24. ASSUME NEW r \in Runs, LeavePool(r) PROVE TypeOK'
  BY <1>24 DEF LeavePool
<1>25. CASE UNCHANGED vars
  BY <1>25 DEF vars
<1>26. QED
  BY <1>1, <1>2, <1>3, <1>4, <1>5, <1>6, <1>7, <1>8, <1>9, <1>9b, <1>10, <1>11, <1>12, <1>13,
     <1>14, <1>15, <1>16, <1>17, <1>18, <1>19, <1>20, <1>21, <1>22, <1>23, <1>24, <1>25
  DEF Next, LoopStep, DeliverStep, SettleStep

(* TakingStep: a row is listed before anybody takes it, and marked after.    *)
LEMMA TakingStep == ASSUME ConstantsOK, LiveInv, [Next]_vars PROVE Taking'
<1> USE DEF ConstantsOK, LiveInv, TypeOK, Loop, Idle, IdleLoop, Goto, Msgs, Taking, Once,
            Untaken, Carriers, runVars, markVars, histVars, vars
<1>1. CASE TakeLive
  BY <1>1 DEF TakeLive, Idle
<1>2. CASE TakeIdle
  <2>0. taken + 1 \in Msgs
    BY <1>2 DEF TakeIdle, TypeOK, Msgs, ConstantsOK
  <2>1. PICK n \in Runs :
           /\ pc[n] = "none" /\ pc'[n] = "pool" /\ carries'[n] = taken + 1
           /\ pc' = [pc EXCEPT ![n] = "pool"]
           /\ \A r \in Runs \ {n} : pc'[r] = pc[r] /\ carries'[r] = carries[r]
           /\ carries' \in [Runs -> Msgs \cup {None}] /\ durable' \in [Runs -> BOOLEAN]
           /\ worker' = worker
    BY <1>2, <2>0, SubmitMakes DEF TakeIdle
  <2>2. QED
    BY <1>2, <2>0, <2>1 DEF TakeIdle
<1>3. CASE Enqueue
  BY <1>3 DEF Enqueue, Goto
<1>4. CASE EnqueueFails
  BY <1>4 DEF EnqueueFails, Goto
<1>5. CASE CheckHit
  BY <1>5 DEF CheckHit
<1>6. CASE CheckMiss
  BY <1>6 DEF CheckMiss
<1>7. CASE AppendSteer
  BY <1>7 DEF AppendSteer, Goto
<1>8. CASE SteerReturns
  BY <1>8 DEF SteerReturns, Goto
<1>9. CASE MarkApplied
  BY <1>9 DEF MarkApplied
<1>9b. CASE MarkFails
  BY <1>9b DEF MarkFails
<1>10. CASE FlushList
  BY <1>10 DEF FlushList, Idle
<1>11. CASE FlushSteer
  BY <1>11 DEF FlushSteer, Idle
<1>12. CASE FlushSubmit
  <2>0. PICK m \in todo :
           /\ SubmitRun(m, FALSE) /\ todo' = todo \ {m}
           /\ at' = [step |-> "mark", msg |-> m, run |-> None]
    BY <1>12 DEF FlushSubmit
  <2>1. PICK n \in Runs :
           /\ pc[n] = "none" /\ pc'[n] = "pool" /\ carries'[n] = m
           /\ pc' = [pc EXCEPT ![n] = "pool"]
           /\ \A r \in Runs \ {n} : pc'[r] = pc[r] /\ carries'[r] = carries[r]
           /\ carries' \in [Runs -> Msgs \cup {None}] /\ durable' \in [Runs -> BOOLEAN]
           /\ worker' = worker
    BY <2>0, SubmitMakes DEF TypeOK
  <2>2. /\ UNCHANGED <<row, taken, steered, unmarked, crashes>>
        /\ at.msg = None /\ at.step = "idle" /\ at'.msg = m /\ at'.step = "mark"
    BY <1>12, <2>0 DEF FlushSubmit
  <2> SUFFICES ASSUME crashes = 0, NEW o \in Msgs \ unmarked PROVE Once(o)'
    BY <2>2
  <2>3. CASE o = m
    <3>1. m <= taken /\ m \notin steered /\ \A r \in Runs : carries[r] # m
      BY <2>0, <2>2, <2>3 DEF ConstantsOK
    <3>2. \A r \in Runs : carries'[r] = m => r = n
      BY <2>1, <3>1
    <3>3. QED
      BY <2>2, <2>3, <3>1, <3>2
  <2>4. CASE o # m
    <3>1. \A r \in Runs : carries'[r] = o => carries[r] = o
      BY <2>1, <2>4
    <3>2. QED
      BY <2>2, <2>4, <3>1
  <2>5. QED
    BY <2>3, <2>4
<1>13. CASE HostRestart
  BY <1>13 DEF HostRestart
<1>14. ASSUME NEW a \in Deliverers, Look(a) PROVE Taking'
  BY <1>14 DEF Look
<1>15. ASSUME NEW a \in Deliverers, HookRefuses(a) PROVE Taking'
  BY <1>15 DEF HookRefuses
<1>16. ASSUME NEW a \in Deliverers, HookAccepts(a) PROVE Taking'
  BY <1>16 DEF HookAccepts
<1>17. ASSUME NEW r \in Runs, JobKnown(r) PROVE Taking'
  BY <1>17 DEF JobKnown
<1>18. ASSUME NEW r \in Runs, StreamEvent(r) PROVE Taking'
  BY <1>18 DEF StreamEvent
<1>19. ASSUME NEW r \in Runs, StreamEnd(r) PROVE Taking'
  BY <1>19 DEF StreamEnd
<1>20. ASSUME NEW r \in Runs, Live(r) PROVE Taking'
  BY <1>20 DEF Live
<1>21. ASSUME NEW r \in Runs, SetStatus(r) PROVE Taking'
  BY <1>21 DEF SetStatus
<1>22. ASSUME NEW r \in Runs, LastLook(r) PROVE Taking'
  BY <1>22 DEF LastLook
<1>23. ASSUME NEW r \in Runs, Release(r) PROVE Taking'
  BY <1>23 DEF Release
<1>24. ASSUME NEW r \in Runs, LeavePool(r) PROVE Taking'
  BY <1>24 DEF LeavePool
<1>25. CASE UNCHANGED vars
  BY <1>25 DEF vars
<1>26. QED
  BY <1>1, <1>2, <1>3, <1>4, <1>5, <1>6, <1>7, <1>8, <1>9, <1>9b, <1>10, <1>11, <1>12, <1>13,
     <1>14, <1>15, <1>16, <1>17, <1>18, <1>19, <1>20, <1>21, <1>22, <1>23, <1>24, <1>25
  DEF Next, LoopStep, DeliverStep, SettleStep

(* FoundStep: no step of a living host loses sight of a follow-up.           *)
LEMMA FoundStep == ASSUME ConstantsOK, LiveInv, [Next]_vars PROVE StaysFound
<1> USE DEF StaysFound, ConstantsOK, LiveInv, TypeOK, Loop, Queues, Idle, Msgs, runVars,
            markVars, histVars, vars
<1>1. CASE TakeLive
  BY <1>1, FoundSame DEF TakeLive, Idle
<1>2. CASE TakeIdle
  <2>0. taken + 1 \in Msgs
    BY <1>2 DEF TakeIdle, TypeOK, Msgs, ConstantsOK
  <2>1. PICK n \in Runs :
           /\ pc[n] = "none" /\ pc'[n] = "pool" /\ carries'[n] = taken + 1
           /\ pc' = [pc EXCEPT ![n] = "pool"]
           /\ \A r \in Runs \ {n} : pc'[r] = pc[r] /\ carries'[r] = carries[r]
           /\ carries' \in [Runs -> Msgs \cup {None}] /\ durable' \in [Runs -> BOOLEAN]
           /\ worker' = worker
    BY <1>2, <2>0, SubmitMakes DEF TakeIdle
  <2>2. UNCHANGED <<pending, got, reported, late>>
    BY <1>2 DEF TakeIdle
  <2>3. QED
    BY <2>1, <2>2, FoundSame
<1>3. CASE Enqueue
  BY <1>3, FoundSame DEF Enqueue, Goto
<1>4. CASE EnqueueFails
  BY <1>4, FoundSame DEF EnqueueFails, Goto
<1>5. CASE CheckHit
  BY <1>5, FoundSame DEF CheckHit
<1>6. CASE CheckMiss
  BY <1>6, FoundSame DEF CheckMiss
<1>7. CASE AppendSteer
  <2>1. \A r \in Runs : Range(pending[r]) \subseteq Range(pending'[r])
    BY <1>7, SteerAdds
  <2>2. late \subseteq late' /\ UNCHANGED <<pc, got, reported>>
    BY <1>7 DEF AppendSteer
  <2>3. \A m \in Msgs : Waiting(m) => Waiting(m)'
    BY <2>1, <2>2 DEF Waiting
  <2>4. \A m \in Msgs : Delivered(m) => Delivered(m)'
    BY <2>2 DEF Delivered
  <2>5. QED
    BY <2>2, <2>3, <2>4 DEF Found
<1>8. CASE SteerReturns
  BY <1>8, FoundSame DEF SteerReturns, Goto
<1>9. CASE MarkApplied
  BY <1>9, FoundSame DEF MarkApplied
<1>9b. CASE MarkFails
  BY <1>9b, FoundSame DEF MarkFails
<1>10. CASE FlushList
  BY <1>10, FoundSame DEF FlushList, Idle
<1>11. CASE FlushSteer
  BY <1>11, FoundSame DEF FlushSteer, Idle
<1>12. CASE FlushSubmit
  <2>0. PICK m \in todo :
           /\ SubmitRun(m, FALSE) /\ todo' = todo \ {m}
           /\ at' = [step |-> "mark", msg |-> m, run |-> None]
    BY <1>12 DEF FlushSubmit
  <2>1. PICK n \in Runs :
           /\ pc[n] = "none" /\ pc'[n] = "pool" /\ carries'[n] = m
           /\ pc' = [pc EXCEPT ![n] = "pool"]
           /\ \A r \in Runs \ {n} : pc'[r] = pc[r] /\ carries'[r] = carries[r]
           /\ carries' \in [Runs -> Msgs \cup {None}] /\ durable' \in [Runs -> BOOLEAN]
           /\ worker' = worker
    BY <2>0, SubmitMakes DEF TypeOK
  <2>2. UNCHANGED <<pending, got, reported, late>>
    BY <1>12 DEF FlushSubmit
  <2>3. QED
    BY <2>1, <2>2, FoundSame
<1>13. CASE HostRestart
  <2>1. crashes' = crashes + 1
    BY <1>13 DEF HostRestart
  <2>2. QED
    BY <2>1
<1>14. ASSUME NEW a \in Deliverers, Look(a) PROVE StaysFound
  BY <1>14, FoundSame DEF Look
<1>15. ASSUME NEW a \in Deliverers, HookRefuses(a) PROVE StaysFound
  BY <1>15, FoundSame DEF HookRefuses
<1>16. ASSUME NEW a \in Deliverers, HookAccepts(a) PROVE StaysFound
  <2>1. /\ deliver[a].run \in Runs /\ deliver[a].msg \in Range(got'[deliver[a].run])
        /\ \A r \in Runs :
              /\ Range(got[r]) \subseteq Range(got'[r])
              /\ Range(pending[r]) \subseteq Range(pending'[r]) \cup {deliver[a].msg}
    BY <1>16, HookGives
  <2>2. UNCHANGED <<pc, reported, late>>
    BY <1>16 DEF HookAccepts
  <2>3. \A m \in Msgs : Delivered(m) \/ m = deliver[a].msg => Delivered(m)'
    BY <2>1 DEF Delivered
  <2>4. \A m \in Msgs : Waiting(m) => Waiting(m)' \/ m = deliver[a].msg
    BY <2>1, <2>2 DEF Waiting
  <2>5. QED
    BY <2>2, <2>3, <2>4 DEF Found
<1>17. ASSUME NEW r \in Runs, JobKnown(r) PROVE StaysFound
  BY <1>17, FoundSame DEF JobKnown
<1>18. ASSUME NEW r \in Runs, StreamEvent(r) PROVE StaysFound
  BY <1>18, FoundSame DEF StreamEvent
<1>19. ASSUME NEW r \in Runs, StreamEnd(r) PROVE StaysFound
  BY <1>19, FoundSame DEF StreamEnd
<1>20. ASSUME NEW r \in Runs, Live(r) PROVE StaysFound
  BY <1>20, FoundSame DEF Live
<1>21. ASSUME NEW r \in Runs, SetStatus(r) PROVE StaysFound
  BY <1>21, FoundSame DEF SetStatus
<1>22. ASSUME NEW r \in Runs, LastLook(r) PROVE StaysFound
  <2>1. /\ \A q \in Runs \ {r} : pending'[q] = pending[q] /\ pc'[q] = pc[q]
        /\ reported' = reported \cup Range(pending[r]) /\ UNCHANGED <<got, late>>
    BY <1>22 DEF LastLook
  <2>3. \A m \in Msgs : Waiting(m) => Waiting(m)' \/ m \in reported'
    BY <2>1 DEF Waiting
  <2>4. \A m \in Msgs : Delivered(m) => Delivered(m)'
    BY <2>1 DEF Delivered
  <2>5. QED
    BY <2>1, <2>3, <2>4 DEF Found
<1>23. ASSUME NEW r \in Runs, Release(r) PROVE StaysFound
  <2>1. /\ \A q \in Runs \ {r} : pending'[q] = pending[q] /\ pc'[q] = pc[q]
        /\ pc[r] = "last" /\ UNCHANGED <<got, reported, late>>
    BY <1>23 DEF Release
  <2>2. \A m \in Msgs : Waiting(m) => Waiting(m)'
    BY <2>1 DEF Waiting
  <2>3. \A m \in Msgs : Delivered(m) => Delivered(m)'
    BY <2>1 DEF Delivered
  <2>4. QED
    BY <2>1, <2>2, <2>3 DEF Found
<1>24. ASSUME NEW r \in Runs, LeavePool(r) PROVE StaysFound
  BY <1>24, FoundSame DEF LeavePool
<1>25. CASE UNCHANGED vars
  BY <1>25, FoundSame DEF vars
<1>26. QED
  BY <1>1, <1>2, <1>3, <1>4, <1>5, <1>6, <1>7, <1>8, <1>9, <1>9b, <1>10, <1>11, <1>12, <1>13,
     <1>14, <1>15, <1>16, <1>17, <1>18, <1>19, <1>20, <1>21, <1>22, <1>23, <1>24, <1>25
  DEF Next, LoopStep, DeliverStep, SettleStep

(* CarriersStep: a run carries its follow-up for ever.                       *)
LEMMA CarriersStep == ASSUME ConstantsOK, LiveInv, [Next]_vars PROVE CarriersKept
<1> USE DEF CarriersKept, LiveInv, TypeOK, Queues, runVars, markVars, histVars, vars
<1>1. CASE TakeLive
  BY <1>1, CarriersStay DEF TakeLive, Idle
<1>2. CASE TakeIdle
  <2>0. taken + 1 \in Msgs
    BY <1>2 DEF TakeIdle, TypeOK, Msgs, ConstantsOK
  <2>1. PICK n \in Runs :
           /\ pc[n] = "none" /\ pc'[n] = "pool" /\ carries'[n] = taken + 1
           /\ pc' = [pc EXCEPT ![n] = "pool"]
           /\ \A r \in Runs \ {n} : pc'[r] = pc[r] /\ carries'[r] = carries[r]
           /\ carries' \in [Runs -> Msgs \cup {None}] /\ durable' \in [Runs -> BOOLEAN]
           /\ worker' = worker
    BY <1>2, <2>0, SubmitMakes DEF TakeIdle
  <2>2. \A r \in Runs : carries[r] # None => carries'[r] = carries[r]
    BY <2>1
  <2>3. QED
    BY <2>2, CarriersStay
<1>3. CASE Enqueue
  BY <1>3, CarriersStay DEF Enqueue, Goto
<1>4. CASE EnqueueFails
  BY <1>4, CarriersStay DEF EnqueueFails, Goto
<1>5. CASE CheckHit
  BY <1>5, CarriersStay DEF CheckHit
<1>6. CASE CheckMiss
  BY <1>6, CarriersStay DEF CheckMiss
<1>7. CASE AppendSteer
  BY <1>7, CarriersStay DEF AppendSteer, Goto
<1>8. CASE SteerReturns
  BY <1>8, CarriersStay DEF SteerReturns, Goto
<1>9. CASE MarkApplied
  BY <1>9, CarriersStay DEF MarkApplied
<1>9b. CASE MarkFails
  BY <1>9b, CarriersStay DEF MarkFails
<1>10. CASE FlushList
  BY <1>10, CarriersStay DEF FlushList, Idle
<1>11. CASE FlushSteer
  BY <1>11, CarriersStay DEF FlushSteer, Idle
<1>12. CASE FlushSubmit
  <2>0. PICK m \in todo :
           /\ SubmitRun(m, FALSE) /\ todo' = todo \ {m}
           /\ at' = [step |-> "mark", msg |-> m, run |-> None]
    BY <1>12 DEF FlushSubmit
  <2>1. PICK n \in Runs :
           /\ pc[n] = "none" /\ pc'[n] = "pool" /\ carries'[n] = m
           /\ pc' = [pc EXCEPT ![n] = "pool"]
           /\ \A r \in Runs \ {n} : pc'[r] = pc[r] /\ carries'[r] = carries[r]
           /\ carries' \in [Runs -> Msgs \cup {None}] /\ durable' \in [Runs -> BOOLEAN]
           /\ worker' = worker
    BY <2>0, SubmitMakes DEF TypeOK
  <2>2. \A r \in Runs : carries[r] # None => carries'[r] = carries[r]
    BY <2>1
  <2>3. QED
    BY <2>2, CarriersStay
<1>13. CASE HostRestart
  BY <1>13, CarriersStay DEF HostRestart
<1>14. ASSUME NEW a \in Deliverers, Look(a) PROVE CarriersKept
  BY <1>14, CarriersStay DEF Look
<1>15. ASSUME NEW a \in Deliverers, HookRefuses(a) PROVE CarriersKept
  BY <1>15, CarriersStay DEF HookRefuses
<1>16. ASSUME NEW a \in Deliverers, HookAccepts(a) PROVE CarriersKept
  BY <1>16, CarriersStay DEF HookAccepts
<1>17. ASSUME NEW r \in Runs, JobKnown(r) PROVE CarriersKept
  BY <1>17, CarriersStay DEF JobKnown
<1>18. ASSUME NEW r \in Runs, StreamEvent(r) PROVE CarriersKept
  BY <1>18, CarriersStay DEF StreamEvent
<1>19. ASSUME NEW r \in Runs, StreamEnd(r) PROVE CarriersKept
  BY <1>19, CarriersStay DEF StreamEnd
<1>20. ASSUME NEW r \in Runs, Live(r) PROVE CarriersKept
  BY <1>20, CarriersStay DEF Live
<1>21. ASSUME NEW r \in Runs, SetStatus(r) PROVE CarriersKept
  BY <1>21, CarriersStay DEF SetStatus
<1>22. ASSUME NEW r \in Runs, LastLook(r) PROVE CarriersKept
  BY <1>22, CarriersStay DEF LastLook
<1>23. ASSUME NEW r \in Runs, Release(r) PROVE CarriersKept
  BY <1>23, CarriersStay DEF Release
<1>24. ASSUME NEW r \in Runs, LeavePool(r) PROVE CarriersKept
  BY <1>24, CarriersStay DEF LeavePool
<1>25. CASE UNCHANGED vars
  BY <1>25, CarriersStay DEF vars
<1>26. QED
  BY <1>1, <1>2, <1>3, <1>4, <1>5, <1>6, <1>7, <1>8, <1>9, <1>9b, <1>10, <1>11, <1>12, <1>13,
     <1>14, <1>15, <1>16, <1>17, <1>18, <1>19, <1>20, <1>21, <1>22, <1>23, <1>24, <1>25
  DEF Next, LoopStep, DeliverStep, SettleStep

(* KeepingStep: what was steered stays found, and the loop marks a row only  *)
(* for a follow-up that was taken.                                           *)
LEMMA KeepingStep == ASSUME ConstantsOK, LiveInv, [Next]_vars PROVE Keeping'
<1> SUFFICES ASSUME crashes' = 0 PROVE Kept'
  BY DEF Keeping
<1>a. \A m \in Msgs : Found(m) => Found(m)'
  BY FoundStep DEF StaysFound
<1>b. \A m \in Msgs : Carriers(m) # {} => Carriers(m)' # {}
  BY CarriersStep DEF CarriersKept
<1>c. /\ TypeOK /\ crashes \in Nat /\ steered \subseteq Msgs
      /\ at.step # "idle" => at.msg \in Msgs
  BY DEF LiveInv, TypeOK, ConstantsOK, Msgs
<1>d. crashes = 0 => Kept
  BY DEF LiveInv, Keeping
<1>1. CASE TakeLive
  <2>1. UNCHANGED <<steered, crashes>> /\ at'.step = "claimed"
    BY <1>1, <1>c DEF TakeLive, histVars
  <2>2. QED
    BY <1>a, <1>b, <1>c, <1>d, <2>1, KeptOn
<1>2. CASE TakeIdle
  <2>1. UNCHANGED <<at, steered, crashes>>
    BY <1>2 DEF TakeIdle, histVars
  <2>2. QED
    BY <1>a, <1>b, <1>c, <1>d, <2>1, KeptOn
<1>3. CASE Enqueue
  <2>1. UNCHANGED <<steered, crashes>> /\ at'.step = "check"
    BY <1>3, <1>c DEF Enqueue, Goto, histVars, TypeOK
  <2>2. QED
    BY <1>a, <1>b, <1>c, <1>d, <2>1, KeptOn
<1>4. CASE EnqueueFails
  <2>1. UNCHANGED <<steered, crashes>> /\ at'.step = "check"
    BY <1>4, <1>c DEF EnqueueFails, Goto, histVars, TypeOK
  <2>2. QED
    BY <1>a, <1>b, <1>c, <1>d, <2>1, KeptOn
<1>5. CASE CheckHit
  <2>1. UNCHANGED <<steered, crashes>> /\ at'.step = "append"
    BY <1>5, <1>c DEF CheckHit, histVars, TypeOK
  <2>2. QED
    BY <1>a, <1>b, <1>c, <1>d, <2>1, KeptOn
<1>6. CASE CheckMiss
  <2>1. UNCHANGED <<steered, crashes>> /\ at'.step = "idle"
    BY <1>6, <1>c DEF CheckMiss, IdleLoop
  <2>2. QED
    BY <1>a, <1>b, <1>c, <1>d, <2>1, KeptOn
<1>7. CASE AppendSteer
  <2>1. /\ at.run \in Runs /\ at.msg \in Msgs /\ \A r \in Runs : pending'[r] =
              IF r = at.run THEN Append(pending[at.run], at.msg) ELSE pending[r]
        /\ pending \in [Runs -> Seq(Msgs)] /\ UNCHANGED <<pc, crashes>>
        /\ pc[at.run] \notin {"live", "status"} => at.msg \in late'
        /\ steered' = steered \cup {at.msg} /\ at'.msg = at.msg
    BY <1>7, <1>c DEF AppendSteer, TypeOK, Goto, runVars
  <2>2. PICK e \in Msgs : e = at.msg
    BY <2>1
  <2>3. Found(e)'
    <3>1. CASE pc[at.run] \in {"live", "status"}
      <4>1. e \in Range(pending'[at.run])
        BY <2>1, <2>2, AppendHas
      <4>2. Waiting(e)'
        BY <2>1, <3>1, <4>1 DEF Waiting
      <4>3. QED
        BY <4>2 DEF Found
    <3>2. CASE pc[at.run] \notin {"live", "status"}
      BY <2>1, <2>2, <3>2 DEF Found
    <3>3. QED
      BY <3>1, <3>2
  <2>4. \A m \in steered' \ steered : Found(m)'
    <3>1. \A m \in steered' \ steered : m = e
      BY <2>1, <2>2
    <3>2. QED
      BY <2>3, <3>1
  <2>5. QED
    BY <1>a, <1>b, <1>c, <1>d, <2>1, <2>4, KeptOn
<1>8. CASE SteerReturns
  <2>1. UNCHANGED <<steered, crashes>> /\ at.step = "deliver" /\ at'.step = "mark"
        /\ at'.msg = at.msg
    BY <1>8, <1>c DEF SteerReturns, Goto, histVars, TypeOK
  <2>2. QED
    BY <1>a, <1>b, <1>c, <1>d, <2>1, KeptOn
<1>9. CASE MarkApplied
  <2>1. UNCHANGED <<steered, crashes>> /\ at'.step = "idle"
    BY <1>9, <1>c DEF MarkApplied, IdleLoop, histVars
  <2>2. QED
    BY <1>a, <1>b, <1>c, <1>d, <2>1, KeptOn
<1>9b. CASE MarkFails
  <2>1. UNCHANGED <<steered, crashes>> /\ at'.step = "idle"
    BY <1>9b, <1>c DEF MarkFails, IdleLoop, histVars
  <2>2. QED
    BY <1>a, <1>b, <1>c, <1>d, <2>1, KeptOn
<1>10. CASE FlushList
  <2>1. UNCHANGED <<at, steered, crashes>>
    BY <1>10 DEF FlushList, histVars
  <2>2. QED
    BY <1>a, <1>b, <1>c, <1>d, <2>1, KeptOn
<1>11. CASE FlushSteer
  <2>1. UNCHANGED <<steered, crashes>> /\ at'.step = "check"
    BY <1>11, <1>c DEF FlushSteer, histVars
  <2>2. QED
    BY <1>a, <1>b, <1>c, <1>d, <2>1, KeptOn
<1>12. CASE FlushSubmit
  <2>1. PICK m \in todo :
           /\ SubmitRun(m, FALSE)
           /\ at' = [step |-> "mark", msg |-> m, run |-> None]
    BY <1>12 DEF FlushSubmit
  <2>2. m \in Msgs /\ UNCHANGED <<steered, crashes>>
    BY <1>12, <1>c DEF FlushSubmit, TypeOK, histVars
  <2>3. PICK n \in Runs : carries'[n] = m
    BY <1>c, <2>1, <2>2, SubmitMakes
  <2>4. Carriers(m)' # {}
    BY <2>3 DEF Carriers
  <2>5. at'.step = "mark" /\ (Carriers(at.msg) # {})'
    BY <2>1, <2>4
  <2>6. QED
    BY <1>a, <1>b, <1>c, <1>d, <2>2, <2>5, KeptOn
<1>13. CASE HostRestart
  BY <1>13, <1>c DEF HostRestart
<1>14. ASSUME NEW a \in Deliverers, Look(a) PROVE Kept'
  <2>1. UNCHANGED <<at, steered, crashes>>
    BY <1>14 DEF Look, histVars
  <2>2. QED
    BY <1>a, <1>b, <1>c, <1>d, <2>1, KeptOn
<1>15. ASSUME NEW a \in Deliverers, HookRefuses(a) PROVE Kept'
  <2>1. UNCHANGED <<at, steered, crashes>>
    BY <1>15 DEF HookRefuses, histVars
  <2>2. QED
    BY <1>a, <1>b, <1>c, <1>d, <2>1, KeptOn
<1>16. ASSUME NEW a \in Deliverers, HookAccepts(a) PROVE Kept'
  <2>1. UNCHANGED <<at, steered, crashes>>
    BY <1>16 DEF HookAccepts, histVars
  <2>2. QED
    BY <1>a, <1>b, <1>c, <1>d, <2>1, KeptOn
<1>17. ASSUME NEW r \in Runs, JobKnown(r) PROVE Kept'
  <2>1. UNCHANGED <<at, steered, crashes>>
    BY <1>17 DEF JobKnown, histVars
  <2>2. QED
    BY <1>a, <1>b, <1>c, <1>d, <2>1, KeptOn
<1>18. ASSUME NEW r \in Runs, StreamEvent(r) PROVE Kept'
  <2>1. UNCHANGED <<at, steered, crashes>>
    BY <1>18 DEF StreamEvent, histVars
  <2>2. QED
    BY <1>a, <1>b, <1>c, <1>d, <2>1, KeptOn
<1>19. ASSUME NEW r \in Runs, StreamEnd(r) PROVE Kept'
  <2>1. UNCHANGED <<at, steered, crashes>>
    BY <1>19 DEF StreamEnd, histVars
  <2>2. QED
    BY <1>a, <1>b, <1>c, <1>d, <2>1, KeptOn
<1>20. ASSUME NEW r \in Runs, Live(r) PROVE Kept'
  <2>1. UNCHANGED <<at, steered, crashes>>
    BY <1>20 DEF Live, histVars
  <2>2. QED
    BY <1>a, <1>b, <1>c, <1>d, <2>1, KeptOn
<1>21. ASSUME NEW r \in Runs, SetStatus(r) PROVE Kept'
  <2>1. UNCHANGED <<at, steered, crashes>>
    BY <1>21 DEF SetStatus, histVars
  <2>2. QED
    BY <1>a, <1>b, <1>c, <1>d, <2>1, KeptOn
<1>22. ASSUME NEW r \in Runs, LastLook(r) PROVE Kept'
  <2>1. UNCHANGED <<at, steered, crashes>>
    BY <1>22 DEF LastLook, histVars
  <2>2. QED
    BY <1>a, <1>b, <1>c, <1>d, <2>1, KeptOn
<1>23. ASSUME NEW r \in Runs, Release(r) PROVE Kept'
  <2>1. UNCHANGED <<at, steered, crashes>>
    BY <1>23 DEF Release, histVars
  <2>2. QED
    BY <1>a, <1>b, <1>c, <1>d, <2>1, KeptOn
<1>24. ASSUME NEW r \in Runs, LeavePool(r) PROVE Kept'
  <2>1. UNCHANGED <<at, steered, crashes>>
    BY <1>24 DEF LeavePool, histVars
  <2>2. QED
    BY <1>a, <1>b, <1>c, <1>d, <2>1, KeptOn
<1>25. CASE UNCHANGED vars
  <2>1. UNCHANGED <<at, steered, crashes>>
    BY <1>25 DEF vars, histVars
  <2>2. QED
    BY <1>a, <1>b, <1>c, <1>d, <2>1, KeptOn
<1>26. QED
  BY <1>1, <1>2, <1>3, <1>4, <1>5, <1>6, <1>7, <1>8, <1>9, <1>9b, <1>10, <1>11, <1>12, <1>13,
     <1>14, <1>15, <1>16, <1>17, <1>18, <1>19, <1>20, <1>21, <1>22, <1>23, <1>24, <1>25
  DEF Next, LoopStep, DeliverStep, SettleStep

(* SameHand: every follow-up keeps its place while the loop keeps the one it *)
(* has at hand and no row changes.                                           *)
LEMMA SameHand ==
    ASSUME \A m \in 1..taken : Placed(m), 1..taken \subseteq Msgs,
           \A m \in Msgs : Found(m) => Found(m)',
           \A m \in Msgs : Carriers(m) # {} => Carriers(m)' # {},
           UNCHANGED <<row, taken, told>>, at'.msg = at.msg
    PROVE  \A m \in (1..taken)' : Placed(m)'
<1>1. \A m \in 1..taken : at.msg = m \/ row[m] = "queued" => Placed(m)'
  BY DEF Placed
<1>2. QED
  BY <1>1, PlacedOn

(* TracedStep: the loop lets go of a follow-up only when it is somewhere     *)
(* else.                                                                     *)
LEMMA TracedStep == ASSUME ConstantsOK, LiveInv, [Next]_vars PROVE Traced'
<1> SUFFICES ASSUME crashes' = 0 PROVE \A m \in (1..taken)' : Placed(m)'
  BY DEF Traced
<1>a. \A m \in Msgs : Found(m) => Found(m)'
  BY FoundStep DEF StaysFound
<1>b. \A m \in Msgs : Carriers(m) # {} => Carriers(m)' # {}
  BY CarriersStep DEF CarriersKept
<1>c. /\ TypeOK /\ crashes \in Nat /\ taken \in Nat /\ 1..taken \subseteq Msgs
      /\ at.step # "idle" => at.msg \in 1..taken
      /\ Idle => at.msg = None
      /\ \A m \in todo : row[m] = "queued" /\ m \in 1..taken
      /\ None \notin Msgs
  BY DEF LiveInv, Loop, Idle, IdleLoop, TypeOK, ConstantsOK, Msgs
<1>d. crashes = 0 => \A m \in 1..taken : Placed(m)
  BY DEF LiveInv, Traced
<1>e. crashes = 0 => Kept
  BY DEF LiveInv, Keeping
<1>1. CASE TakeLive
  <2>1. /\ UNCHANGED <<row, told, crashes>> /\ taken' = taken + 1 /\ at'.msg = taken + 1
        /\ at.msg = None
    BY <1>1, <1>c DEF TakeLive, histVars
  <2>2. \A m \in (1..taken)' \ (1..taken) : at'.msg = m
    BY <1>c, <2>1
  <2>3. \A m \in 1..taken : at.msg = m \/ row[m] = "queued" => Placed(m)'
    BY <1>c, <2>1 DEF Placed
  <2>4. QED
    BY <1>a, <1>b, <1>c, <1>d, <2>1, <2>2, <2>3, PlacedOn
<1>2. CASE TakeIdle
  <2>1. UNCHANGED <<row, told, crashes, at>> /\ taken' = taken + 1 /\ taken + 1 \in Msgs
    BY <1>2, <1>c DEF TakeIdle, histVars, Msgs, ConstantsOK
  <2>2. PICK e \in Msgs : e = taken + 1
    BY <2>1
  <2>3. PICK n \in Runs : carries'[n] = e
    BY <1>2, <1>c, <2>1, <2>2, SubmitMakes DEF TakeIdle
  <2>4. \A m \in (1..taken)' \ (1..taken) : Carriers(m)' # {}
    <3>1. \A m \in (1..taken)' \ (1..taken) : m = e
      BY <1>c, <2>1, <2>2
    <3>2. Carriers(e)' # {}
      BY <2>3 DEF Carriers
    <3>3. QED
      BY <3>1, <3>2
  <2>5. \A m \in 1..taken : at.msg = m \/ row[m] = "queued" => Placed(m)'
    BY <2>1 DEF Placed
  <2>6. QED
    BY <1>a, <1>b, <1>c, <1>d, <2>1, <2>4, <2>5, PlacedOn
<1>3. CASE Enqueue
  <2>1. /\ UNCHANGED <<taken, told, crashes>> /\ at'.msg = at.msg /\ at.msg \in Msgs
        /\ \A m \in Msgs : row[m] = "queued" => row'[m] = "queued"
    BY <1>3, <1>c DEF Enqueue, Goto, TypeOK, histVars
  <2>2. \A m \in 1..taken : at.msg = m \/ row[m] = "queued" => Placed(m)'
    BY <1>c, <2>1 DEF Placed
  <2>3. QED
    BY <1>a, <1>b, <1>c, <1>d, <2>1, <2>2, PlacedOn
<1>4. CASE EnqueueFails
  <2>1. UNCHANGED <<row, taken, told, crashes>> /\ at'.msg = at.msg
    BY <1>4, <1>c DEF EnqueueFails, Goto, TypeOK, histVars
  <2>2. QED
    BY <1>a, <1>b, <1>c, <1>d, <2>1, SameHand
<1>5. CASE CheckHit
  <2>1. UNCHANGED <<row, taken, told, crashes>> /\ at'.msg = at.msg
    BY <1>5, <1>c DEF CheckHit, TypeOK, histVars
  <2>2. QED
    BY <1>a, <1>b, <1>c, <1>d, <2>1, SameHand
<1>6. CASE CheckMiss
  <2>1. /\ UNCHANGED <<row, taken, crashes>> /\ told \subseteq told'
        /\ row[at.msg] = "none" => at.msg \in told'
        /\ at.msg \in 1..taken
    BY <1>6, <1>c DEF CheckMiss
  <2>2. row[at.msg] \in {"none", "queued"}
    BY <1>6, <1>c, <2>1 DEF CheckMiss, LiveInv, Loop, TypeOK
  <2>3. \A m \in 1..taken : at.msg = m => Placed(m)'
    BY <2>1, <2>2 DEF Placed
  <2>4. \A m \in 1..taken : row[m] = "queued" => Placed(m)'
    BY <2>1 DEF Placed
  <2>5. QED
    BY <1>a, <1>b, <1>c, <1>d, <2>1, <2>3, <2>4, PlacedOn
<1>7. CASE AppendSteer
  <2>1. UNCHANGED <<row, taken, told, crashes>> /\ at'.msg = at.msg
    BY <1>7, <1>c DEF AppendSteer, Goto, TypeOK, histVars
  <2>2. QED
    BY <1>a, <1>b, <1>c, <1>d, <2>1, SameHand
<1>8. CASE SteerReturns
  <2>1. UNCHANGED <<row, taken, told, crashes>> /\ at'.msg = at.msg
    BY <1>8, <1>c DEF SteerReturns, Goto, TypeOK, histVars
  <2>2. QED
    BY <1>a, <1>b, <1>c, <1>d, <2>1, SameHand
<1>9. CASE MarkApplied
  <2>1. /\ UNCHANGED <<taken, told, crashes>> /\ at.msg \in 1..taken /\ at.step = "mark"
        /\ \A m \in Msgs : row[m] = "queued" /\ m # at.msg => row'[m] = "queued"
    BY <1>9, <1>c DEF MarkApplied, TypeOK, histVars
  <2>2. \A m \in 1..taken : at.msg = m => Placed(m)'
    <3> SUFFICES ASSUME NEW m \in 1..taken, at.msg = m PROVE Placed(m)'
      OBVIOUS
    <3>1. m \in steered \/ Carriers(m) # {}
      BY <1>e, <2>1 DEF Kept
    <3>2. m \in steered => Found(m)
      BY <1>e, <2>1 DEF Kept
    <3>3. Found(m)' \/ Carriers(m)' # {}
      BY <1>a, <1>b, <1>c, <3>1, <3>2
    <3>4. QED
      BY <3>3 DEF Placed
  <2>3. \A m \in 1..taken : row[m] = "queued" /\ m # at.msg => Placed(m)'
    BY <1>c, <2>1 DEF Placed
  <2>4. QED
    BY <1>a, <1>b, <1>c, <1>d, <2>1, <2>2, <2>3, PlacedOn
<1>9b. CASE MarkFails
  <2>1. /\ UNCHANGED <<taken, told, crashes>> /\ at.msg \in 1..taken /\ at.step = "mark"
        /\ \A m \in Msgs : row[m] = "queued" /\ m # at.msg => row'[m] = "queued"
    BY <1>9b, <1>c DEF MarkFails, TypeOK, histVars
  <2>2. \A m \in 1..taken : at.msg = m => Placed(m)'
    <3> SUFFICES ASSUME NEW m \in 1..taken, at.msg = m PROVE Placed(m)'
      OBVIOUS
    <3>1. m \in steered \/ Carriers(m) # {}
      BY <1>e, <2>1 DEF Kept
    <3>2. m \in steered => Found(m)
      BY <1>e, <2>1 DEF Kept
    <3>3. Found(m)' \/ Carriers(m)' # {}
      BY <1>a, <1>b, <1>c, <3>1, <3>2
    <3>4. QED
      BY <3>3 DEF Placed
  <2>3. \A m \in 1..taken : row[m] = "queued" /\ m # at.msg => Placed(m)'
    BY <1>c, <2>1 DEF Placed
  <2>4. QED
    BY <1>a, <1>b, <1>c, <1>d, <2>1, <2>2, <2>3, PlacedOn
<1>10. CASE FlushList
  <2>1. UNCHANGED <<at, row, taken, told, crashes>>
    BY <1>10 DEF FlushList, histVars
  <2>2. QED
    BY <1>a, <1>b, <1>c, <1>d, <2>1, SameHand
<1>11. CASE FlushSteer
  <2>1. UNCHANGED <<row, taken, told, crashes>> /\ at.msg = None
    BY <1>11, <1>c DEF FlushSteer, histVars
  <2>2. \A m \in 1..taken : at.msg = m \/ row[m] = "queued" => Placed(m)'
    BY <1>c, <2>1 DEF Placed
  <2>3. QED
    BY <1>a, <1>b, <1>c, <1>d, <2>1, <2>2, PlacedOn
<1>12. CASE FlushSubmit
  <2>1. UNCHANGED <<row, taken, told, crashes>> /\ at.msg = None
    BY <1>12, <1>c DEF FlushSubmit, histVars
  <2>2. \A m \in 1..taken : at.msg = m \/ row[m] = "queued" => Placed(m)'
    BY <1>c, <2>1 DEF Placed
  <2>3. QED
    BY <1>a, <1>b, <1>c, <1>d, <2>1, <2>2, PlacedOn
<1>13. CASE HostRestart
  BY <1>13, <1>c DEF HostRestart
<1>14. ASSUME NEW a \in Deliverers, Look(a) PROVE \A m \in (1..taken)' : Placed(m)'
  <2>1. UNCHANGED <<at, row, taken, told, crashes>>
    BY <1>14 DEF Look, histVars
  <2>2. QED
    BY <1>a, <1>b, <1>c, <1>d, <2>1, SameHand
<1>15. ASSUME NEW a \in Deliverers, HookRefuses(a) PROVE \A m \in (1..taken)' : Placed(m)'
  <2>1. UNCHANGED <<at, row, taken, told, crashes>>
    BY <1>15 DEF HookRefuses, histVars
  <2>2. QED
    BY <1>a, <1>b, <1>c, <1>d, <2>1, SameHand
<1>16. ASSUME NEW a \in Deliverers, HookAccepts(a) PROVE \A m \in (1..taken)' : Placed(m)'
  <2>1. UNCHANGED <<at, row, taken, told, crashes>>
    BY <1>16 DEF HookAccepts, histVars
  <2>2. QED
    BY <1>a, <1>b, <1>c, <1>d, <2>1, SameHand
<1>17. ASSUME NEW r \in Runs, JobKnown(r) PROVE \A m \in (1..taken)' : Placed(m)'
  <2>1. UNCHANGED <<at, row, taken, told, crashes>>
    BY <1>17 DEF JobKnown, histVars
  <2>2. QED
    BY <1>a, <1>b, <1>c, <1>d, <2>1, SameHand
<1>18. ASSUME NEW r \in Runs, StreamEvent(r) PROVE \A m \in (1..taken)' : Placed(m)'
  <2>1. UNCHANGED <<at, row, taken, told, crashes>>
    BY <1>18 DEF StreamEvent, histVars
  <2>2. QED
    BY <1>a, <1>b, <1>c, <1>d, <2>1, SameHand
<1>19. ASSUME NEW r \in Runs, StreamEnd(r) PROVE \A m \in (1..taken)' : Placed(m)'
  <2>1. UNCHANGED <<at, row, taken, told, crashes>>
    BY <1>19 DEF StreamEnd, histVars
  <2>2. QED
    BY <1>a, <1>b, <1>c, <1>d, <2>1, SameHand
<1>20. ASSUME NEW r \in Runs, Live(r) PROVE \A m \in (1..taken)' : Placed(m)'
  <2>1. UNCHANGED <<at, row, taken, told, crashes>>
    BY <1>20 DEF Live, histVars
  <2>2. QED
    BY <1>a, <1>b, <1>c, <1>d, <2>1, SameHand
<1>21. ASSUME NEW r \in Runs, SetStatus(r) PROVE \A m \in (1..taken)' : Placed(m)'
  <2>1. UNCHANGED <<at, row, taken, told, crashes>>
    BY <1>21 DEF SetStatus, histVars
  <2>2. QED
    BY <1>a, <1>b, <1>c, <1>d, <2>1, SameHand
<1>22. ASSUME NEW r \in Runs, LastLook(r) PROVE \A m \in (1..taken)' : Placed(m)'
  <2>1. UNCHANGED <<at, row, taken, told, crashes>>
    BY <1>22 DEF LastLook, histVars
  <2>2. QED
    BY <1>a, <1>b, <1>c, <1>d, <2>1, SameHand
<1>23. ASSUME NEW r \in Runs, Release(r) PROVE \A m \in (1..taken)' : Placed(m)'
  <2>1. UNCHANGED <<at, row, taken, told, crashes>>
    BY <1>23 DEF Release, histVars
  <2>2. QED
    BY <1>a, <1>b, <1>c, <1>d, <2>1, SameHand
<1>24. ASSUME NEW r \in Runs, LeavePool(r) PROVE \A m \in (1..taken)' : Placed(m)'
  <2>1. UNCHANGED <<at, row, taken, told, crashes>>
    BY <1>24 DEF LeavePool, histVars
  <2>2. QED
    BY <1>a, <1>b, <1>c, <1>d, <2>1, SameHand
<1>25. CASE UNCHANGED vars
  <2>1. UNCHANGED <<at, row, taken, told, crashes>>
    BY <1>25 DEF vars, histVars
  <2>2. QED
    BY <1>a, <1>b, <1>c, <1>d, <2>1, SameHand
<1>26. QED
  BY <1>1, <1>2, <1>3, <1>4, <1>5, <1>6, <1>7, <1>8, <1>9, <1>9b, <1>10, <1>11, <1>12, <1>13,
     <1>14, <1>15, <1>16, <1>17, <1>18, <1>19, <1>20, <1>21, <1>22, <1>23, <1>24, <1>25
  DEF Next, LoopStep, DeliverStep, SettleStep

(* LiveInvInit: the invariant holds at the start.                            *)
LEMMA LiveInvInit == ASSUME ConstantsOK, Init PROVE LiveInv
<1> USE DEF Init
<1>1. 1 \in Runs /\ crashes \in 0..MaxCrashes /\ faults \in 0..MaxFaults /\ 0 \in 0..MaxMsgs
  BY DEF ConstantsOK, Runs
<1>2. TypeOK
  BY <1>1 DEF TypeOK, IdleLoop, Steps, Off
<1>3. Loop
  BY DEF Loop, Idle, IdleLoop
<1>4. Queues
  BY EmptyRange DEF Queues, Off
<1>5. OneRun /\ FirstMarks
  BY <1>1 DEF OneRun, Alive, FirstMarks
<1>6. Taking
  BY DEF Taking, Once, Untaken, Carriers, ConstantsOK, IdleLoop
<1>7. Keeping /\ Traced
  BY DEF Keeping, Kept, Traced, IdleLoop
<1>8. QED
  BY <1>2, <1>3, <1>4, <1>5, <1>6, <1>7 DEF LiveInv

(* LiveInvStep: and every step keeps it.                                     *)
LEMMA LiveInvStep == ASSUME ConstantsOK, LiveInv, [Next]_vars PROVE LiveInv'
  BY TypeStep, LoopStepKept, QueuesStep, OneRunStep, FirstMarksStep, TakingStep, KeepingStep,
     TracedStep DEF LiveInv

-----------------------------------------------------------------------------
(* InvariantHolds: LiveInv is an invariant of the thread, for any number of  *)
(* follow-ups, failed writes and crashes.                                    *)
THEOREM InvariantHolds == ASSUME ConstantsOK PROVE Spec => []LiveInv
<1>1. Init => LiveInv
  BY LiveInvInit
<1>2. LiveInv /\ [Next]_vars => LiveInv'
  BY LiveInvStep
<1>3. QED
  BY <1>1, <1>2, PTL DEF Spec

(* TypeCorrect: every variable keeps to its kind.                            *)
THEOREM TypeCorrect == ASSUME ConstantsOK PROVE Spec => []TypeOK
<1>1. LiveInv => TypeOK
  BY DEF LiveInv
<1>2. QED
  BY <1>1, InvariantHolds, PTL

(* NoSibling: a thread never has two runs at work or on their way to it,     *)
(* over crashes and whichever register knows of the first one.               *)
THEOREM NoSibling == ASSUME ConstantsOK PROVE Spec => []OneRun
<1>1. LiveInv => OneRun
  BY DEF LiveInv
<1>2. QED
  BY <1>1, InvariantHolds, PTL

(* SteeredOrCooked: in the life of one host a follow-up is steered into a    *)
(* worker or cooked as a run of its own, at most once, if its row could be   *)
(* marked.                                                                   *)
THEOREM SteeredOrCooked == ASSUME ConstantsOK PROVE Spec => []TakenOnce
<1>1. LiveInv => TakenOnce
  <2> SUFFICES ASSUME LiveInv, crashes = 0, NEW m \in Msgs \ unmarked
               PROVE  Cardinality(Carriers(m)) + (IF m \in steered THEN 1 ELSE 0) <= 1
    BY DEF TakenOnce
  <2>1. /\ m \in steered => Carriers(m) = {}
        /\ \A q \in Carriers(m), r \in Carriers(m) : q = r
    BY DEF LiveInv, Taking, Once
  <2>2. CASE Carriers(m) = {}
    BY <2>2, FS_EmptySet
  <2>3. CASE Carriers(m) # {}
    <3>1. PICK r \in Carriers(m) : Carriers(m) = {r}
      BY <2>1, <2>3
    <3>2. Cardinality(Carriers(m)) = 1
      BY <3>1, FS_Singleton
    <3>3. QED
      BY <2>1, <2>3, <3>2
  <2>4. QED
    BY <2>2, <2>3
<1>2. QED
  BY <1>1, InvariantHolds, PTL

(* NoneLost: in the life of one host a claimed follow-up is never lost, but  *)
(* for one that is appended after its run's last look.                       *)
THEOREM NoneLost == ASSUME ConstantsOK PROVE Spec => []LostOnlyLate
<1>1. LiveInv => LostOnlyLate
  BY DEF LiveInv, Traced, Placed, Found, LostOnlyLate
<1>2. QED
  BY <1>1, InvariantHolds, PTL

-----------------------------------------------------------------------------
(* The cook.                                                               *)
\* swarm_worker_count knows two shapes; the rest are counts.
CookBounds ==
    /\ Shapes \subseteq {"stream", "swarm"}
    /\ Roles \in Nat /\ MaxTaps \in Nat /\ MaxRaises \in Nat /\ MaxCrashes \in Nat

-----------------------------------------------------------------------------
(* The inductive invariant.                                                *)

Stages == {"created", "carded", "open", "spawned", "listed", "read", "event", "last", "close",
          "answer", "result", "backoff", "settle", "write", "mark", "paint", "release", "crash",
          "unwind", "gone", "down", "boot", "booted"}

Taps == [step : {"off", "unsure", "kill", "note", "mark", "row", "paint"}, found : 0..turn]

\* Where the thread has which turn, event and child.
Places ==
    /\ stage \in Stages /\ tap \in Taps
    /\ shape = "stream" => turn <= 2
    /\ stage \in {"created", "carded"} => turn = 0 /\ process = "none"
    /\ stage \in {"created", "carded"} => event = "none"
    /\ stage = "created" => card = "none" /\ tap.step = "off"
    /\ stage \in {"event", "last", "result", "backoff"} => shape = "stream" /\ turn = 1
    /\ stage \in {"open", "spawned", "listed", "read", "close", "answer"} => turn # 0
    /\ stage = "answer" => Cook!Blocks
    /\ stage = "open" /\ shape = "stream" => event \in {"none", "limit"}
    /\ child # 0 =>
         /\ child = turn
         /\ stage \in {"listed", "read", "event", "last", "close", "crash", "unwind"}
    /\ stage \in {"spawned", "listed"} \/ (Cook!Blocks /\ stage = "read") => event = "none"
    /\ stage = "read" => event \in {"none", "progress"}
    /\ stage = "event" => event \notin {"none", "timeout"}
    /\ stage = "last" => event \in {"receipt", "error", "limit"}
    /\ stage \in {"close", "result"} /\ ~Cook!Blocks => event \in {"receipt", "error", "limit", "cancel"}
    /\ stage = "backoff" => event = "limit"
    /\ stage \in {"crash", "unwind"} => raises # 0

\* A result is final before it is written, and what it is made of before that.
Results ==
    /\ shape = "stream" /\ stage \in {"open", "spawned", "listed", "read", "event"}
         => backend # "pending"
    /\ stage = "event" /\ event # "progress" => backend \in Cook!Final
    /\ stage \in {"last", "close", "result"} /\ ~Cook!Blocks => backend \in Cook!Final
    /\ stage = "event" /\ event = "cancel" => backend = "cancelled"
    /\ stage \in {"answer", "settle", "write", "mark", "paint"} \/ (stage = "close" /\ Cook!Blocks)
         => result \in Cook!Final

\* A worker was left alive: a Cancel found no child or was not confirmed, the
\* orchestrator broke off its reading, or the kill at a deadline failed.
Left == \/ "early" \in history \/ "missed" \in history
        \/ "broken" \in history \/ "survived" \in history

\* Why a worker is alive that no pid file covers.
Lost == Left \/ "unrecorded" \in history \/ "unfiled" \in history

\* A Cancel is about to kill the newest worker.
Shot == tap.step = "kill" /\ tap.found = turn

\* A worker is alive beyond its stream, or beside a Cancel, only when it was
\* left alive or is about to be killed.
WorkerDone ==
    /\ stage = "open" \/ (stage \in {"close", "answer"} /\ Cook!Blocks)
         => process # "alive" \/ Left
    /\ stage \in {"event", "last", "result", "backoff"} \/ (stage = "close" /\ ~Cook!Blocks)
         => event \in {"progress", "cancel"} \/ process # "alive" \/ Left
    /\ process = "alive" =>
         /\ stage \in {"close", "result", "settle", "write", "mark", "paint", "release", "gone",
                    "crash", "unwind"} => Left \/ Shot
         /\ requested \/ (event = "cancel" /\ Cook!HostUp) => Left \/ Shot

\* A flag that meets no child was set before there was one.
FlagEarly ==
    requested /\ (shape = "swarm"
                  \/ stage \in {"created", "carded", "open", "spawned", "result", "backoff"})
        => "early" \in history

\* The pid file covers a worker until its end is certain.
Filed ==
    /\ stage \in {"read", "event", "last"} => sidecar \/ "unfiled" \in history
    /\ stage \in {"down", "boot"} /\ process = "alive" => sidecar \/ Lost
    /\ stage = "booted" /\ process = "alive" => Lost \/ "spared" \in history

\* Not excused by OneStory.
Calm == (raises = 0 \/ taps = 0) /\ history \cap {"late", "unpainted", "unwritten"} = {}

\* A Cancel has found the child and goes its way to the card.
Sure == tap.step \in {"kill", "note", "mark", "row", "paint"}

\* A Cancel has spoken.
Said == "cancelled" \in {record, memory, backend}

\* Without a tap there is nothing of a Cancel.
Untouched ==
    taps = 0 =>
        /\ tap.step = "off" /\ ~requested /\ event # "cancel"
        /\ ~Said /\ result # "cancelled" /\ card # "cancelled"

\* The thread has seen, or is still to see, the Cancel that found its child.
Certain ==
    \/ stage \in {"listed", "read", "event", "last"} /\ requested
    \/ stage \in {"close", "result"} /\ ~Cook!Blocks /\ event = "cancel" /\ memory = "cancelled"
                                  /\ backend = "cancelled"
    \/ stage \in {"close", "answer"} /\ Cook!Blocks /\ requested /\ event # "timeout"
    \/ stage = "settle" /\ "cancelled" \in {memory, backend}

Cooking == {"created", "carded", "open", "spawned", "listed", "read", "event", "last", "close",
            "answer", "result", "backoff", "settle"}

\* Before it writes, the thread goes where such a Cancel goes.
Heard ==
    Calm /\ stage \in Cooking =>
        /\ Sure \/ Said => shape = "stream"
        /\ Sure \/ (Said /\ event # "timeout") => Certain
        /\ Sure => tap.found = turn
        /\ Cook!Blocks /\ stage \in {"listed", "read"} /\ (Said \/ (Sure /\ tap.step # "kill"))
             => process # "alive"

\* From its row to its card the thread writes what such a Cancel writes.
Agreed ==
    Calm =>
        /\ stage \in Cooking \cup {"write"} => record \in {"running", "cancelled"}
        /\ stage = "write" =>
             (Sure \/ (record = "cancelled" /\ event # "timeout") => result = "cancelled")
        /\ stage \in {"mark", "paint"} => record = result
        /\ stage = "paint" => memory = record
        /\ stage \in {"mark", "paint", "release", "gone"} => (Sure => record = "cancelled")
        /\ stage \in {"release", "gone", "unwind"} => memory = record /\ card \in {record, "none"}
        /\ stage = "crash" => record = "running"
        /\ stage \in {"crash", "unwind"} => taps = 0

CookInv ==
    /\ Cook!TypeOK /\ Places /\ Results /\ WorkerDone /\ FlagEarly /\ Filed
    /\ Untouched /\ Heard /\ Agreed

-----------------------------------------------------------------------------
(* TurnZero: 0, which stands for no child, is one of the turns so far.       *)
LEMMA TurnZero == ASSUME CookBounds, Cook!TypeOK PROVE turn \in Nat /\ 0 \in 0..turn
<1>1. turn \in Nat
  BY DEF CookBounds, Cook!TypeOK
<1>2. QED
  BY <1>1

(* ClearTypes: a pid file is there or not, and a failure is counted.         *)
LEMMA ClearTypes ==
    ASSUME CookBounds, sidecar \in BOOLEAN, raises \in 0..MaxRaises, Cook!ClearSidecar
    PROVE  sidecar' \in BOOLEAN /\ raises' \in 0..MaxRaises
<1>1. CASE sidecar' = FALSE /\ UNCHANGED raises
  BY <1>1
<1>2. CASE raises < MaxRaises /\ raises' = raises + 1 /\ UNCHANGED sidecar
  BY <1>2 DEF CookBounds
<1>3. QED
  BY <1>1, <1>2 DEF Cook!ClearSidecar

(* CookTypeStep: every step keeps the variables to their kinds.  What is     *)
(* written as the run's row is final because Results says so of the result.  *)
LEMMA CookTypeStep == ASSUME CookBounds, CookInv, [Cook!Next]_(Cook!vars) PROVE Cook!TypeOK'
<1> USE DEF CookBounds, CookInv, Cook!TypeOK, Places, Stages, Cook!Goto, Cook!vars,
     Cook!procVars, Cook!statusVars, Cook!tapVars, Cook!faultVars, Cook!Blocks, Cook!Retry,
     Cook!Statuses, Cook!Final, Cook!Ended, Cook!HostUp, Results
<1>1. CASE Cook!PaintStart
  BY <1>1 DEF Cook!PaintStart
<1>2. CASE Cook!ThreadFails
  BY <1>2 DEF Cook!ThreadFails
<1>3. CASE Cook!CloseWithoutWorker
  BY <1>3 DEF Cook!CloseWithoutWorker
<1>4. CASE Cook!Open
  BY <1>4 DEF Cook!Open
<1>5. CASE Cook!SpawnFails
  BY <1>5 DEF Cook!SpawnFails
<1>6. CASE Cook!Spawn
  <2>1. process' = "alive" /\ sidecar' = FALSE /\ event' = "none"
    BY <1>6 DEF Cook!Spawn
  <2>2. UNCHANGED <<shape, turn, child, requested, backend, result, memory, record, card, tap,
                    taps, raises, deaths>>
    BY <1>6 DEF Cook!Spawn
  <2>3. sidecar' \in BOOLEAN
    BY <2>1
  <2>4. QED
    BY <2>1, <2>2, <2>3
<1>7. CASE Cook!Register
  BY <1>7 DEF Cook!Register
<1>8. CASE Cook!WriteSidecar
  BY <1>8 DEF Cook!WriteSidecar
<1>8b. CASE Cook!WriteSidecarFails
  BY <1>8b DEF Cook!WriteSidecarFails, Cook!Note
<1>9. CASE Cook!LastEvent
  BY <1>9 DEF Cook!LastEvent, Cook!Yield
<1>10. CASE Cook!Deadline
  BY <1>10 DEF Cook!Deadline, Cook!Terminate, Cook!Yield
<1>11. CASE Cook!Handle
  BY <1>11 DEF Cook!Handle
<1>12. CASE Cook!LastLook
  BY <1>12 DEF Cook!LastLook
<1>13. CASE Cook!Communicate
  BY <1>13 DEF Cook!Communicate, Cook!Terminate, Cook!Outcome
<1>14. CASE Cook!Close
  <2>1. requested' \in BOOLEAN
    BY <1>14 DEF Cook!Close
  <2>c. Cook!ClearSidecar /\ child' = 0
    BY <1>14 DEF Cook!Close
  <2>2. child' = 0 /\ sidecar' \in BOOLEAN /\ raises' \in 0..MaxRaises
    BY <2>c, ClearTypes
  <2>3. UNCHANGED <<shape, turn, process, backend, event, result, Cook!statusVars, Cook!tapVars, deaths>>
    BY <1>14 DEF Cook!Close
  <2>4. child' \in 0..turn' /\ (child' # 0 => shape' = "stream") /\ sidecar' \in BOOLEAN
    BY <2>2, <2>3, TurnZero
  <2>5. QED
    BY <2>1, <2>2, <2>3, <2>4
<1>15. CASE Cook!AnswerRetry
  BY <1>15 DEF Cook!AnswerRetry
<1>16. CASE Cook!AnswerRole
  BY <1>16 DEF Cook!AnswerRole
<1>17. CASE Cook!MakeResult
  BY <1>17 DEF Cook!MakeResult
<1>18. CASE Cook!RetryDispatch
  BY <1>18 DEF Cook!RetryDispatch
<1>19. CASE Cook!Settle
  BY <1>19 DEF Cook!Settle
<1>20. CASE Cook!WriteRow
  BY <1>20 DEF Cook!WriteRow
<1>21. CASE Cook!MarkRun
  BY <1>21 DEF Cook!MarkRun
<1>22. CASE Cook!PaintReceipt
  BY <1>22 DEF Cook!PaintReceipt
<1>22b. CASE Cook!ReceiptLost
  BY <1>22b DEF Cook!ReceiptLost, Cook!Note
<1>23. CASE Cook!Release
  BY <1>23 DEF Cook!Release
<1>24. CASE Cook!SettleCrashed
  BY <1>24 DEF Cook!SettleCrashed
<1>24b. CASE Cook!SettleLoses
  BY <1>24b DEF Cook!SettleLoses
<1>25. CASE Cook!Unwind
  <2>1. requested' \in BOOLEAN
    BY <1>25 DEF Cook!Unwind
  <2>c. Cook!ClearSidecar /\ child' = 0
    BY <1>25 DEF Cook!Unwind
  <2>2. child' = 0 /\ sidecar' \in BOOLEAN /\ raises' \in 0..MaxRaises
    BY <2>c, ClearTypes
  <2>3. UNCHANGED <<shape, turn, process, backend, event, result, Cook!statusVars, Cook!tapVars, deaths>>
    BY <1>25 DEF Cook!Unwind
  <2>4. child' \in 0..turn' /\ (child' # 0 => shape' = "stream") /\ sidecar' \in BOOLEAN
    BY <2>2, <2>3, TurnZero
  <2>5. QED
    BY <2>1, <2>2, <2>3, <2>4
<1>26. CASE Cook!FailStale
  BY <1>26 DEF Cook!FailStale
<1>27. CASE Cook!ReapOrphans
  <2>1. process' \in {process, "killed"} /\ sidecar' \in BOOLEAN
    BY <1>27 DEF Cook!ReapOrphans
  <2>2. UNCHANGED <<shape, turn, child, requested, backend, event, result, Cook!statusVars, Cook!tapVars,
                    Cook!faultVars>>
    BY <1>27 DEF Cook!ReapOrphans
  <2>3. QED
    BY <2>1, <2>2
<1>27b. CASE Cook!SpareOrphan
  <2>1. sidecar' = FALSE
    BY <1>27b DEF Cook!SpareOrphan
  <2>2. UNCHANGED <<shape, turn, process, child, requested, backend, event, result, memory,
                    record, card, tap, taps, raises, deaths>>
    BY <1>27b DEF Cook!SpareOrphan
  <2>3. sidecar' \in BOOLEAN
    BY <2>1
  <2>4. QED
    BY <2>1, <2>2, <2>3
<1>28. CASE Cook!CancelKills
  BY <1>28 DEF Cook!CancelKills, Cook!TapGoto
<1>29. CASE Cook!CancelMisses
  BY <1>29 DEF Cook!CancelMisses, Cook!TapGoto, Cook!Note
<1>30. CASE Cook!CancelUnconfirmed
  BY <1>30 DEF Cook!CancelUnconfirmed, Cook!NoTap
<1>31. CASE Cook!CancelNoted
  BY <1>31 DEF Cook!CancelNoted, Cook!TapGoto
<1>32. CASE Cook!CancelMarks
  BY <1>32 DEF Cook!CancelMarks, Cook!TapGoto
<1>33. CASE Cook!CancelWritesRow
  BY <1>33 DEF Cook!CancelWritesRow, Cook!TapGoto
<1>34. CASE Cook!CancelPaints
  BY <1>34 DEF Cook!CancelPaints, Cook!NoTap
<1>34b. CASE Cook!CancelLoses
  <2>1. raises' \in 0..MaxRaises
    BY <1>34b DEF Cook!CancelLoses
  <2>2. tap' = [tap EXCEPT !.step = "paint"] \/ tap' = [step |-> "off", found |-> 0]
    BY <1>34b DEF Cook!CancelLoses, Cook!TapGoto, Cook!NoTap
  <2>3. tap'.step \in {"off", "paint"} /\ tap'.found \in 0..turn
    <3>1. CASE tap' = [tap EXCEPT !.step = "paint"]
      BY <3>1
    <3>2. CASE tap' = [step |-> "off", found |-> 0]
      BY <3>2, TurnZero
    <3>3. QED
      BY <2>2, <3>1, <3>2
  <2>4. UNCHANGED <<Cook!procVars, requested, backend, event, result, Cook!statusVars, taps,
                    shape, deaths>>
    BY <1>34b DEF Cook!CancelLoses
  <2>5. QED
    BY <2>1, <2>3, <2>4
<1>35. CASE Cook!NextLine
  BY <1>35 DEF Cook!NextLine, Cook!Yield
<1>35b. CASE Cook!NoteJobId
  BY <1>35b DEF Cook!NoteJobId
<1>36. CASE Cook!WorkerEnds
  BY <1>36 DEF Cook!WorkerEnds
<1>37. CASE Cook!CancelTap
  BY <1>37 DEF Cook!CancelTap, Cook!Note
<1>38. CASE Cook!Raise
  BY <1>38 DEF Cook!Raise, Cook!Note
<1>39. CASE Cook!HostDies
  <2>1. deaths' \in 0..MaxCrashes
    BY <1>39 DEF Cook!HostDies
  <2>2. tap'.step = "off" /\ tap'.found = 0 /\ child' = 0 /\ requested' \in BOOLEAN
    BY <1>39 DEF Cook!HostDies, Cook!NoTap
  <2>3. UNCHANGED <<shape, turn, process, sidecar, backend, event, result, Cook!statusVars, taps,
                    raises>>
    BY <1>39 DEF Cook!HostDies
  <2>4. child' \in 0..turn' /\ (child' # 0 => shape' = "stream") /\ tap'.found \in 0..turn'
    BY <2>2, <2>3, TurnZero
  <2>5. QED
    BY <2>1, <2>2, <2>3, <2>4
<1>40. CASE UNCHANGED Cook!vars
  BY <1>40 DEF Cook!vars
<1>41. QED
  BY <1>1, <1>2, <1>3, <1>4, <1>5, <1>6, <1>7, <1>8, <1>9, <1>10, <1>11, <1>12, <1>13,
     <1>14, <1>15, <1>16, <1>17, <1>18, <1>19, <1>20, <1>21, <1>22, <1>23, <1>24, <1>25,
     <1>26, <1>27, <1>28, <1>29, <1>30, <1>31, <1>32, <1>33, <1>34, <1>35, <1>36, <1>37,
     <1>38, <1>39, <1>40, <1>8b, <1>22b, <1>24b, <1>27b, <1>34b, <1>35b
  DEF Cook!Next, Cook!CookStep, Cook!TapStep, Cook!FaultStep

(* PlacesStep: the thread keeps to its way, with the turn, the child and the *)
(* event of the place it is at.                                              *)
LEMMA PlacesStep == ASSUME CookBounds, CookInv, [Cook!Next]_(Cook!vars) PROVE Places'
<1> USE DEF CookBounds, CookInv, Cook!TypeOK, Places, Stages, Cook!Goto, Cook!vars,
     Cook!procVars, Cook!statusVars, Cook!tapVars, Cook!faultVars, Cook!Blocks, Cook!Retry,
     Cook!Statuses, Cook!Final, Cook!Ended, Cook!HostUp, Taps
<1>1. CASE Cook!PaintStart
  BY <1>1 DEF Cook!PaintStart
<1>2. CASE Cook!ThreadFails
  BY <1>2 DEF Cook!ThreadFails
<1>3. CASE Cook!CloseWithoutWorker
  BY <1>3 DEF Cook!CloseWithoutWorker
<1>4. CASE Cook!Open
  BY <1>4 DEF Cook!Open
<1>5. CASE Cook!SpawnFails
  BY <1>5 DEF Cook!SpawnFails
<1>6. CASE Cook!Spawn
  BY <1>6 DEF Cook!Spawn
<1>7. CASE Cook!Register
  BY <1>7 DEF Cook!Register
<1>8. CASE Cook!WriteSidecar
  BY <1>8 DEF Cook!WriteSidecar
<1>8b. CASE Cook!WriteSidecarFails
  BY <1>8b DEF Cook!WriteSidecarFails, Cook!Note
<1>9. CASE Cook!LastEvent
  BY <1>9 DEF Cook!LastEvent, Cook!Yield
<1>10. CASE Cook!Deadline
  BY <1>10 DEF Cook!Deadline, Cook!Terminate, Cook!Yield
<1>11. CASE Cook!Handle
  BY <1>11 DEF Cook!Handle
<1>12. CASE Cook!LastLook
  BY <1>12 DEF Cook!LastLook
<1>13. CASE Cook!Communicate
  BY <1>13 DEF Cook!Communicate, Cook!Terminate, Cook!Outcome
<1>14. CASE Cook!Close
  BY <1>14 DEF Cook!Close, Cook!ClearSidecar
<1>15. CASE Cook!AnswerRetry
  BY <1>15 DEF Cook!AnswerRetry
<1>16. CASE Cook!AnswerRole
  BY <1>16 DEF Cook!AnswerRole
<1>17. CASE Cook!MakeResult
  BY <1>17 DEF Cook!MakeResult
<1>18. CASE Cook!RetryDispatch
  BY <1>18 DEF Cook!RetryDispatch
<1>19. CASE Cook!Settle
  BY <1>19 DEF Cook!Settle
<1>20. CASE Cook!WriteRow
  BY <1>20 DEF Cook!WriteRow
<1>21. CASE Cook!MarkRun
  BY <1>21 DEF Cook!MarkRun
<1>22. CASE Cook!PaintReceipt
  BY <1>22 DEF Cook!PaintReceipt
<1>22b. CASE Cook!ReceiptLost
  BY <1>22b DEF Cook!ReceiptLost, Cook!Note
<1>23. CASE Cook!Release
  BY <1>23 DEF Cook!Release
<1>24. CASE Cook!SettleCrashed
  BY <1>24 DEF Cook!SettleCrashed
<1>24b. CASE Cook!SettleLoses
  BY <1>24b DEF Cook!SettleLoses
<1>25. CASE Cook!Unwind
  BY <1>25 DEF Cook!Unwind, Cook!ClearSidecar
<1>26. CASE Cook!FailStale
  BY <1>26 DEF Cook!FailStale
<1>27. CASE Cook!ReapOrphans
  BY <1>27 DEF Cook!ReapOrphans
<1>27b. CASE Cook!SpareOrphan
  BY <1>27b DEF Cook!SpareOrphan, Cook!Note
<1>28. CASE Cook!CancelKills
  BY <1>28 DEF Cook!CancelKills, Cook!TapGoto
<1>29. CASE Cook!CancelMisses
  BY <1>29 DEF Cook!CancelMisses, Cook!TapGoto, Cook!Note
<1>30. CASE Cook!CancelUnconfirmed
  BY <1>30 DEF Cook!CancelUnconfirmed, Cook!NoTap
<1>31. CASE Cook!CancelNoted
  BY <1>31 DEF Cook!CancelNoted, Cook!TapGoto
<1>32. CASE Cook!CancelMarks
  BY <1>32 DEF Cook!CancelMarks, Cook!TapGoto
<1>33. CASE Cook!CancelWritesRow
  BY <1>33 DEF Cook!CancelWritesRow, Cook!TapGoto
<1>34. CASE Cook!CancelPaints
  <2>1. tap' \in Taps'
    BY <1>34, TurnZero DEF Cook!CancelPaints, Cook!NoTap
  <2>2. QED
    BY <1>34, <2>1 DEF Cook!CancelPaints
<1>34b. CASE Cook!CancelLoses
  BY <1>34b DEF Cook!CancelLoses, Cook!TapGoto, Cook!NoTap
<1>35. CASE Cook!NextLine
  BY <1>35 DEF Cook!NextLine, Cook!Yield
<1>35b. CASE Cook!NoteJobId
  BY <1>35b DEF Cook!NoteJobId
<1>36. CASE Cook!WorkerEnds
  BY <1>36 DEF Cook!WorkerEnds
<1>37. CASE Cook!CancelTap
  BY <1>37 DEF Cook!CancelTap, Cook!Note
<1>38. CASE Cook!Raise
  BY <1>38 DEF Cook!Raise, Cook!Note
<1>39. CASE Cook!HostDies
  BY <1>39 DEF Cook!HostDies, Cook!Note, Cook!NoTap
<1>40. CASE UNCHANGED Cook!vars
  BY <1>40 DEF Cook!vars
<1>41. QED
  BY <1>1, <1>2, <1>3, <1>4, <1>5, <1>6, <1>7, <1>8, <1>9, <1>10, <1>11, <1>12, <1>13,
     <1>14, <1>15, <1>16, <1>17, <1>18, <1>19, <1>20, <1>21, <1>22, <1>23, <1>24, <1>25,
     <1>26, <1>27, <1>28, <1>29, <1>30, <1>31, <1>32, <1>33, <1>34, <1>35, <1>36, <1>37,
     <1>38, <1>39, <1>40, <1>8b, <1>22b, <1>24b, <1>27b, <1>34b, <1>35b
  DEF Cook!Next, Cook!CookStep, Cook!TapStep, Cook!FaultStep

(* ResultsStep: what the result is made of is final when it is made.         *)
LEMMA ResultsStep == ASSUME CookBounds, CookInv, [Cook!Next]_(Cook!vars) PROVE Results'
<1> USE DEF CookBounds, CookInv, Cook!TypeOK, Places, Stages, Cook!Goto, Cook!vars,
     Cook!procVars, Cook!statusVars, Cook!tapVars, Cook!faultVars, Cook!Blocks, Cook!Retry,
     Cook!Statuses, Cook!Final, Cook!Ended, Cook!HostUp, Results
<1>1. CASE Cook!PaintStart
  BY <1>1 DEF Cook!PaintStart
<1>2. CASE Cook!ThreadFails
  BY <1>2 DEF Cook!ThreadFails
<1>3. CASE Cook!CloseWithoutWorker
  BY <1>3 DEF Cook!CloseWithoutWorker
<1>4. CASE Cook!Open
  BY <1>4 DEF Cook!Open
<1>5. CASE Cook!SpawnFails
  BY <1>5 DEF Cook!SpawnFails
<1>6. CASE Cook!Spawn
  BY <1>6 DEF Cook!Spawn
<1>7. CASE Cook!Register
  BY <1>7 DEF Cook!Register
<1>8. CASE Cook!WriteSidecar
  BY <1>8 DEF Cook!WriteSidecar
<1>8b. CASE Cook!WriteSidecarFails
  BY <1>8b DEF Cook!WriteSidecarFails, Cook!Note
<1>9. CASE Cook!LastEvent
  BY <1>9 DEF Cook!LastEvent, Cook!Yield
<1>10. CASE Cook!Deadline
  BY <1>10 DEF Cook!Deadline, Cook!Terminate, Cook!Yield
<1>11. CASE Cook!Handle
  BY <1>11 DEF Cook!Handle
<1>12. CASE Cook!LastLook
  BY <1>12 DEF Cook!LastLook
<1>13. CASE Cook!Communicate
  BY <1>13 DEF Cook!Communicate, Cook!Terminate, Cook!Outcome
<1>14. CASE Cook!Close
  BY <1>14 DEF Cook!Close, Cook!ClearSidecar
<1>15. CASE Cook!AnswerRetry
  BY <1>15 DEF Cook!AnswerRetry
<1>16. CASE Cook!AnswerRole
  BY <1>16 DEF Cook!AnswerRole
<1>17. CASE Cook!MakeResult
  BY <1>17 DEF Cook!MakeResult
<1>18. CASE Cook!RetryDispatch
  BY <1>18 DEF Cook!RetryDispatch
<1>19. CASE Cook!Settle
  BY <1>19 DEF Cook!Settle
<1>20. CASE Cook!WriteRow
  BY <1>20 DEF Cook!WriteRow
<1>21. CASE Cook!MarkRun
  BY <1>21 DEF Cook!MarkRun
<1>22. CASE Cook!PaintReceipt
  BY <1>22 DEF Cook!PaintReceipt
<1>22b. CASE Cook!ReceiptLost
  BY <1>22b DEF Cook!ReceiptLost, Cook!Note
<1>23. CASE Cook!Release
  BY <1>23 DEF Cook!Release
<1>24. CASE Cook!SettleCrashed
  BY <1>24 DEF Cook!SettleCrashed
<1>24b. CASE Cook!SettleLoses
  BY <1>24b DEF Cook!SettleLoses
<1>25. CASE Cook!Unwind
  BY <1>25 DEF Cook!Unwind, Cook!ClearSidecar
<1>26. CASE Cook!FailStale
  BY <1>26 DEF Cook!FailStale
<1>27. CASE Cook!ReapOrphans
  BY <1>27 DEF Cook!ReapOrphans
<1>27b. CASE Cook!SpareOrphan
  BY <1>27b DEF Cook!SpareOrphan, Cook!Note
<1>28. CASE Cook!CancelKills
  BY <1>28 DEF Cook!CancelKills, Cook!TapGoto
<1>29. CASE Cook!CancelMisses
  BY <1>29 DEF Cook!CancelMisses, Cook!TapGoto, Cook!Note
<1>30. CASE Cook!CancelUnconfirmed
  BY <1>30 DEF Cook!CancelUnconfirmed, Cook!NoTap
<1>31. CASE Cook!CancelNoted
  BY <1>31 DEF Cook!CancelNoted, Cook!TapGoto
<1>32. CASE Cook!CancelMarks
  BY <1>32 DEF Cook!CancelMarks, Cook!TapGoto
<1>33. CASE Cook!CancelWritesRow
  BY <1>33 DEF Cook!CancelWritesRow, Cook!TapGoto
<1>34. CASE Cook!CancelPaints
  BY <1>34 DEF Cook!CancelPaints, Cook!NoTap
<1>34b. CASE Cook!CancelLoses
  BY <1>34b DEF Cook!CancelLoses, Cook!TapGoto, Cook!NoTap
<1>35. CASE Cook!NextLine
  BY <1>35 DEF Cook!NextLine, Cook!Yield
<1>35b. CASE Cook!NoteJobId
  BY <1>35b DEF Cook!NoteJobId
<1>36. CASE Cook!WorkerEnds
  BY <1>36 DEF Cook!WorkerEnds
<1>37. CASE Cook!CancelTap
  BY <1>37 DEF Cook!CancelTap, Cook!Note
<1>38. CASE Cook!Raise
  BY <1>38 DEF Cook!Raise, Cook!Note
<1>39. CASE Cook!HostDies
  BY <1>39 DEF Cook!HostDies, Cook!Note, Cook!NoTap
<1>40. CASE UNCHANGED Cook!vars
  BY <1>40 DEF Cook!vars
<1>41. QED
  BY <1>1, <1>2, <1>3, <1>4, <1>5, <1>6, <1>7, <1>8, <1>9, <1>10, <1>11, <1>12, <1>13,
     <1>14, <1>15, <1>16, <1>17, <1>18, <1>19, <1>20, <1>21, <1>22, <1>23, <1>24, <1>25,
     <1>26, <1>27, <1>28, <1>29, <1>30, <1>31, <1>32, <1>33, <1>34, <1>35, <1>36, <1>37,
     <1>38, <1>39, <1>40, <1>8b, <1>22b, <1>24b, <1>27b, <1>34b, <1>35b
  DEF Cook!Next, Cook!CookStep, Cook!TapStep, Cook!FaultStep

(* WorkerDoneStep: a worker that is alive where it should not be was left    *)
(* alive, or a Cancel is at its kill.  A spawn under a flag that is already  *)
(* set is the case FlagEarly excuses.                                        *)
LEMMA WorkerDoneStep == ASSUME CookBounds, CookInv, [Cook!Next]_(Cook!vars) PROVE WorkerDone'
<1> USE DEF CookBounds, CookInv, Cook!TypeOK, Places, Stages, Cook!Goto, Cook!vars,
     Cook!procVars, Cook!statusVars, Cook!tapVars, Cook!faultVars, Cook!Blocks, Cook!Retry,
     Cook!Statuses, Cook!Final, Cook!Ended, Cook!HostUp, WorkerDone, FlagEarly, Left, Shot
<1>1. CASE Cook!PaintStart
  BY <1>1 DEF Cook!PaintStart
<1>2. CASE Cook!ThreadFails
  BY <1>2 DEF Cook!ThreadFails
<1>3. CASE Cook!CloseWithoutWorker
  BY <1>3 DEF Cook!CloseWithoutWorker
<1>4. CASE Cook!Open
  BY <1>4 DEF Cook!Open
<1>5. CASE Cook!SpawnFails
  BY <1>5 DEF Cook!SpawnFails
<1>6. CASE Cook!Spawn
  BY <1>6 DEF Cook!Spawn
<1>7. CASE Cook!Register
  BY <1>7 DEF Cook!Register
<1>8. CASE Cook!WriteSidecar
  BY <1>8 DEF Cook!WriteSidecar
<1>8b. CASE Cook!WriteSidecarFails
  BY <1>8b DEF Cook!WriteSidecarFails, Cook!Note
<1>9. CASE Cook!LastEvent
  BY <1>9 DEF Cook!LastEvent, Cook!Yield
<1>10. CASE Cook!Deadline
  BY <1>10 DEF Cook!Deadline, Cook!Terminate, Cook!Yield
<1>11. CASE Cook!Handle
  BY <1>11 DEF Cook!Handle
<1>12. CASE Cook!LastLook
  BY <1>12 DEF Cook!LastLook
<1>13. CASE Cook!Communicate
  BY <1>13 DEF Cook!Communicate, Cook!Terminate, Cook!Outcome
<1>14. CASE Cook!Close
  BY <1>14 DEF Cook!Close, Cook!ClearSidecar
<1>15. CASE Cook!AnswerRetry
  BY <1>15 DEF Cook!AnswerRetry
<1>16. CASE Cook!AnswerRole
  BY <1>16 DEF Cook!AnswerRole
<1>17. CASE Cook!MakeResult
  BY <1>17 DEF Cook!MakeResult
<1>18. CASE Cook!RetryDispatch
  BY <1>18 DEF Cook!RetryDispatch
<1>19. CASE Cook!Settle
  BY <1>19 DEF Cook!Settle
<1>20. CASE Cook!WriteRow
  BY <1>20 DEF Cook!WriteRow
<1>21. CASE Cook!MarkRun
  BY <1>21 DEF Cook!MarkRun
<1>22. CASE Cook!PaintReceipt
  BY <1>22 DEF Cook!PaintReceipt
<1>22b. CASE Cook!ReceiptLost
  BY <1>22b DEF Cook!ReceiptLost, Cook!Note
<1>23. CASE Cook!Release
  BY <1>23 DEF Cook!Release
<1>24. CASE Cook!SettleCrashed
  BY <1>24 DEF Cook!SettleCrashed
<1>24b. CASE Cook!SettleLoses
  BY <1>24b DEF Cook!SettleLoses
<1>25. CASE Cook!Unwind
  BY <1>25 DEF Cook!Unwind, Cook!ClearSidecar
<1>26. CASE Cook!FailStale
  BY <1>26 DEF Cook!FailStale
<1>27. CASE Cook!ReapOrphans
  BY <1>27 DEF Cook!ReapOrphans
<1>27b. CASE Cook!SpareOrphan
  BY <1>27b DEF Cook!SpareOrphan, Cook!Note
<1>28. CASE Cook!CancelKills
  BY <1>28 DEF Cook!CancelKills, Cook!TapGoto
<1>29. CASE Cook!CancelMisses
  BY <1>29 DEF Cook!CancelMisses, Cook!TapGoto, Cook!Note
<1>30. CASE Cook!CancelUnconfirmed
  BY <1>30 DEF Cook!CancelUnconfirmed, Cook!NoTap
<1>31. CASE Cook!CancelNoted
  BY <1>31 DEF Cook!CancelNoted, Cook!TapGoto
<1>32. CASE Cook!CancelMarks
  BY <1>32 DEF Cook!CancelMarks, Cook!TapGoto
<1>33. CASE Cook!CancelWritesRow
  BY <1>33 DEF Cook!CancelWritesRow, Cook!TapGoto
<1>34. CASE Cook!CancelPaints
  BY <1>34 DEF Cook!CancelPaints, Cook!NoTap
<1>34b. CASE Cook!CancelLoses
  BY <1>34b DEF Cook!CancelLoses, Cook!TapGoto, Cook!NoTap
<1>35. CASE Cook!NextLine
  BY <1>35 DEF Cook!NextLine, Cook!Yield
<1>35b. CASE Cook!NoteJobId
  BY <1>35b DEF Cook!NoteJobId
<1>36. CASE Cook!WorkerEnds
  BY <1>36 DEF Cook!WorkerEnds
<1>37. CASE Cook!CancelTap
  BY <1>37 DEF Cook!CancelTap, Cook!Note
<1>38. CASE Cook!Raise
  BY <1>38 DEF Cook!Raise, Cook!Note
<1>39. CASE Cook!HostDies
  BY <1>39 DEF Cook!HostDies, Cook!Note, Cook!NoTap
<1>40. CASE UNCHANGED Cook!vars
  BY <1>40 DEF Cook!vars
<1>41. QED
  BY <1>1, <1>2, <1>3, <1>4, <1>5, <1>6, <1>7, <1>8, <1>9, <1>10, <1>11, <1>12, <1>13,
     <1>14, <1>15, <1>16, <1>17, <1>18, <1>19, <1>20, <1>21, <1>22, <1>23, <1>24, <1>25,
     <1>26, <1>27, <1>28, <1>29, <1>30, <1>31, <1>32, <1>33, <1>34, <1>35, <1>36, <1>37,
     <1>38, <1>39, <1>40, <1>8b, <1>22b, <1>24b, <1>27b, <1>34b, <1>35b
  DEF Cook!Next, Cook!CookStep, Cook!TapStep, Cook!FaultStep

(* FlagEarlyStep: Close takes the flag of a stream back, and a swarm never   *)
(* lists the child a Cancel looks for.                                       *)
LEMMA FlagEarlyStep == ASSUME CookBounds, CookInv, [Cook!Next]_(Cook!vars) PROVE FlagEarly'
<1> USE DEF CookBounds, CookInv, Cook!TypeOK, Places, Stages, Cook!Goto, Cook!vars,
     Cook!procVars, Cook!statusVars, Cook!tapVars, Cook!faultVars, Cook!Blocks, Cook!Retry,
     Cook!Statuses, Cook!Final, Cook!Ended, Cook!HostUp, FlagEarly
<1>1. CASE Cook!PaintStart
  BY <1>1 DEF Cook!PaintStart
<1>2. CASE Cook!ThreadFails
  BY <1>2 DEF Cook!ThreadFails
<1>3. CASE Cook!CloseWithoutWorker
  BY <1>3 DEF Cook!CloseWithoutWorker
<1>4. CASE Cook!Open
  BY <1>4 DEF Cook!Open
<1>5. CASE Cook!SpawnFails
  BY <1>5 DEF Cook!SpawnFails
<1>6. CASE Cook!Spawn
  BY <1>6 DEF Cook!Spawn
<1>7. CASE Cook!Register
  BY <1>7 DEF Cook!Register
<1>8. CASE Cook!WriteSidecar
  BY <1>8 DEF Cook!WriteSidecar
<1>8b. CASE Cook!WriteSidecarFails
  BY <1>8b DEF Cook!WriteSidecarFails, Cook!Note
<1>9. CASE Cook!LastEvent
  BY <1>9 DEF Cook!LastEvent, Cook!Yield
<1>10. CASE Cook!Deadline
  BY <1>10 DEF Cook!Deadline, Cook!Terminate, Cook!Yield
<1>11. CASE Cook!Handle
  BY <1>11 DEF Cook!Handle
<1>12. CASE Cook!LastLook
  BY <1>12 DEF Cook!LastLook
<1>13. CASE Cook!Communicate
  BY <1>13 DEF Cook!Communicate, Cook!Terminate, Cook!Outcome
<1>14. CASE Cook!Close
  BY <1>14 DEF Cook!Close, Cook!ClearSidecar
<1>15. CASE Cook!AnswerRetry
  BY <1>15 DEF Cook!AnswerRetry
<1>16. CASE Cook!AnswerRole
  BY <1>16 DEF Cook!AnswerRole
<1>17. CASE Cook!MakeResult
  BY <1>17 DEF Cook!MakeResult
<1>18. CASE Cook!RetryDispatch
  BY <1>18 DEF Cook!RetryDispatch
<1>19. CASE Cook!Settle
  BY <1>19 DEF Cook!Settle
<1>20. CASE Cook!WriteRow
  BY <1>20 DEF Cook!WriteRow
<1>21. CASE Cook!MarkRun
  BY <1>21 DEF Cook!MarkRun
<1>22. CASE Cook!PaintReceipt
  BY <1>22 DEF Cook!PaintReceipt
<1>22b. CASE Cook!ReceiptLost
  BY <1>22b DEF Cook!ReceiptLost, Cook!Note
<1>23. CASE Cook!Release
  BY <1>23 DEF Cook!Release
<1>24. CASE Cook!SettleCrashed
  BY <1>24 DEF Cook!SettleCrashed
<1>24b. CASE Cook!SettleLoses
  BY <1>24b DEF Cook!SettleLoses
<1>25. CASE Cook!Unwind
  BY <1>25 DEF Cook!Unwind, Cook!ClearSidecar
<1>26. CASE Cook!FailStale
  BY <1>26 DEF Cook!FailStale
<1>27. CASE Cook!ReapOrphans
  BY <1>27 DEF Cook!ReapOrphans
<1>27b. CASE Cook!SpareOrphan
  BY <1>27b DEF Cook!SpareOrphan, Cook!Note
<1>28. CASE Cook!CancelKills
  BY <1>28 DEF Cook!CancelKills, Cook!TapGoto
<1>29. CASE Cook!CancelMisses
  BY <1>29 DEF Cook!CancelMisses, Cook!TapGoto, Cook!Note
<1>30. CASE Cook!CancelUnconfirmed
  BY <1>30 DEF Cook!CancelUnconfirmed, Cook!NoTap
<1>31. CASE Cook!CancelNoted
  BY <1>31 DEF Cook!CancelNoted, Cook!TapGoto
<1>32. CASE Cook!CancelMarks
  BY <1>32 DEF Cook!CancelMarks, Cook!TapGoto
<1>33. CASE Cook!CancelWritesRow
  BY <1>33 DEF Cook!CancelWritesRow, Cook!TapGoto
<1>34. CASE Cook!CancelPaints
  BY <1>34 DEF Cook!CancelPaints, Cook!NoTap
<1>34b. CASE Cook!CancelLoses
  BY <1>34b DEF Cook!CancelLoses, Cook!TapGoto, Cook!NoTap
<1>35. CASE Cook!NextLine
  BY <1>35 DEF Cook!NextLine, Cook!Yield
<1>35b. CASE Cook!NoteJobId
  BY <1>35b DEF Cook!NoteJobId
<1>36. CASE Cook!WorkerEnds
  BY <1>36 DEF Cook!WorkerEnds
<1>37. CASE Cook!CancelTap
  BY <1>37 DEF Cook!CancelTap, Cook!Note
<1>38. CASE Cook!Raise
  BY <1>38 DEF Cook!Raise, Cook!Note
<1>39. CASE Cook!HostDies
  BY <1>39 DEF Cook!HostDies, Cook!Note, Cook!NoTap
<1>40. CASE UNCHANGED Cook!vars
  BY <1>40 DEF Cook!vars
<1>41. QED
  BY <1>1, <1>2, <1>3, <1>4, <1>5, <1>6, <1>7, <1>8, <1>9, <1>10, <1>11, <1>12, <1>13,
     <1>14, <1>15, <1>16, <1>17, <1>18, <1>19, <1>20, <1>21, <1>22, <1>23, <1>24, <1>25,
     <1>26, <1>27, <1>28, <1>29, <1>30, <1>31, <1>32, <1>33, <1>34, <1>35, <1>36, <1>37,
     <1>38, <1>39, <1>40, <1>8b, <1>22b, <1>24b, <1>27b, <1>34b, <1>35b
  DEF Cook!Next, Cook!CookStep, Cook!TapStep, Cook!FaultStep

(* FiledStep: the pid file is there whenever a host that dies leaves a       *)
(* worker that is not excused.                                               *)
LEMMA FiledStep == ASSUME CookBounds, CookInv, [Cook!Next]_(Cook!vars) PROVE Filed'
<1> USE DEF CookBounds, CookInv, Cook!TypeOK, Places, Stages, Cook!Goto, Cook!vars,
     Cook!procVars, Cook!statusVars, Cook!tapVars, Cook!faultVars, Cook!Blocks, Cook!Retry,
     Cook!Statuses, Cook!Final, Cook!Ended, Cook!HostUp, Filed, WorkerDone, Lost, Left, Shot
<1>1. CASE Cook!PaintStart
  BY <1>1 DEF Cook!PaintStart
<1>2. CASE Cook!ThreadFails
  BY <1>2 DEF Cook!ThreadFails
<1>3. CASE Cook!CloseWithoutWorker
  BY <1>3 DEF Cook!CloseWithoutWorker
<1>4. CASE Cook!Open
  BY <1>4 DEF Cook!Open
<1>5. CASE Cook!SpawnFails
  BY <1>5 DEF Cook!SpawnFails
<1>6. CASE Cook!Spawn
  BY <1>6 DEF Cook!Spawn
<1>7. CASE Cook!Register
  BY <1>7 DEF Cook!Register
<1>8. CASE Cook!WriteSidecar
  BY <1>8 DEF Cook!WriteSidecar
<1>8b. CASE Cook!WriteSidecarFails
  BY <1>8b DEF Cook!WriteSidecarFails, Cook!Note
<1>9. CASE Cook!LastEvent
  BY <1>9 DEF Cook!LastEvent, Cook!Yield
<1>10. CASE Cook!Deadline
  BY <1>10 DEF Cook!Deadline, Cook!Terminate, Cook!Yield
<1>11. CASE Cook!Handle
  BY <1>11 DEF Cook!Handle
<1>12. CASE Cook!LastLook
  BY <1>12 DEF Cook!LastLook
<1>13. CASE Cook!Communicate
  BY <1>13 DEF Cook!Communicate, Cook!Terminate, Cook!Outcome
<1>14. CASE Cook!Close
  BY <1>14 DEF Cook!Close, Cook!ClearSidecar
<1>15. CASE Cook!AnswerRetry
  BY <1>15 DEF Cook!AnswerRetry
<1>16. CASE Cook!AnswerRole
  BY <1>16 DEF Cook!AnswerRole
<1>17. CASE Cook!MakeResult
  BY <1>17 DEF Cook!MakeResult
<1>18. CASE Cook!RetryDispatch
  BY <1>18 DEF Cook!RetryDispatch
<1>19. CASE Cook!Settle
  BY <1>19 DEF Cook!Settle
<1>20. CASE Cook!WriteRow
  BY <1>20 DEF Cook!WriteRow
<1>21. CASE Cook!MarkRun
  BY <1>21 DEF Cook!MarkRun
<1>22. CASE Cook!PaintReceipt
  BY <1>22 DEF Cook!PaintReceipt
<1>22b. CASE Cook!ReceiptLost
  BY <1>22b DEF Cook!ReceiptLost, Cook!Note
<1>23. CASE Cook!Release
  BY <1>23 DEF Cook!Release
<1>24. CASE Cook!SettleCrashed
  BY <1>24 DEF Cook!SettleCrashed
<1>24b. CASE Cook!SettleLoses
  BY <1>24b DEF Cook!SettleLoses
<1>25. CASE Cook!Unwind
  BY <1>25 DEF Cook!Unwind, Cook!ClearSidecar
<1>26. CASE Cook!FailStale
  BY <1>26 DEF Cook!FailStale
<1>27. CASE Cook!ReapOrphans
  BY <1>27 DEF Cook!ReapOrphans
<1>27b. CASE Cook!SpareOrphan
  BY <1>27b DEF Cook!SpareOrphan, Cook!Note
<1>28. CASE Cook!CancelKills
  BY <1>28 DEF Cook!CancelKills, Cook!TapGoto
<1>29. CASE Cook!CancelMisses
  BY <1>29 DEF Cook!CancelMisses, Cook!TapGoto, Cook!Note
<1>30. CASE Cook!CancelUnconfirmed
  BY <1>30 DEF Cook!CancelUnconfirmed, Cook!NoTap
<1>31. CASE Cook!CancelNoted
  BY <1>31 DEF Cook!CancelNoted, Cook!TapGoto
<1>32. CASE Cook!CancelMarks
  BY <1>32 DEF Cook!CancelMarks, Cook!TapGoto
<1>33. CASE Cook!CancelWritesRow
  BY <1>33 DEF Cook!CancelWritesRow, Cook!TapGoto
<1>34. CASE Cook!CancelPaints
  BY <1>34 DEF Cook!CancelPaints, Cook!NoTap
<1>34b. CASE Cook!CancelLoses
  BY <1>34b DEF Cook!CancelLoses, Cook!TapGoto, Cook!NoTap
<1>35. CASE Cook!NextLine
  BY <1>35 DEF Cook!NextLine, Cook!Yield
<1>35b. CASE Cook!NoteJobId
  BY <1>35b DEF Cook!NoteJobId
<1>36. CASE Cook!WorkerEnds
  BY <1>36 DEF Cook!WorkerEnds
<1>37. CASE Cook!CancelTap
  BY <1>37 DEF Cook!CancelTap, Cook!Note
<1>38. CASE Cook!Raise
  BY <1>38 DEF Cook!Raise, Cook!Note
<1>39. CASE Cook!HostDies
  BY <1>39 DEF Cook!HostDies, Cook!Note, Cook!NoTap
<1>40. CASE UNCHANGED Cook!vars
  BY <1>40 DEF Cook!vars
<1>41. QED
  BY <1>1, <1>2, <1>3, <1>4, <1>5, <1>6, <1>7, <1>8, <1>9, <1>10, <1>11, <1>12, <1>13,
     <1>14, <1>15, <1>16, <1>17, <1>18, <1>19, <1>20, <1>21, <1>22, <1>23, <1>24, <1>25,
     <1>26, <1>27, <1>28, <1>29, <1>30, <1>31, <1>32, <1>33, <1>34, <1>35, <1>36, <1>37,
     <1>38, <1>39, <1>40, <1>8b, <1>22b, <1>24b, <1>27b, <1>34b, <1>35b
  DEF Cook!Next, Cook!CookStep, Cook!TapStep, Cook!FaultStep

(* UntouchedStep: only a tap brings a Cancel into the run.                   *)
LEMMA UntouchedStep == ASSUME CookBounds, CookInv, [Cook!Next]_(Cook!vars) PROVE Untouched'
<1> USE DEF CookBounds, CookInv, Cook!TypeOK, Places, Stages, Cook!Goto, Cook!vars,
     Cook!procVars, Cook!statusVars, Cook!tapVars, Cook!faultVars, Cook!Blocks, Cook!Retry,
     Cook!Statuses, Cook!Final, Cook!Ended, Cook!HostUp, Untouched, Said
<1>1. CASE Cook!PaintStart
  BY <1>1 DEF Cook!PaintStart
<1>2. CASE Cook!ThreadFails
  BY <1>2 DEF Cook!ThreadFails
<1>3. CASE Cook!CloseWithoutWorker
  BY <1>3 DEF Cook!CloseWithoutWorker
<1>4. CASE Cook!Open
  BY <1>4 DEF Cook!Open
<1>5. CASE Cook!SpawnFails
  BY <1>5 DEF Cook!SpawnFails
<1>6. CASE Cook!Spawn
  BY <1>6 DEF Cook!Spawn
<1>7. CASE Cook!Register
  BY <1>7 DEF Cook!Register
<1>8. CASE Cook!WriteSidecar
  BY <1>8 DEF Cook!WriteSidecar
<1>8b. CASE Cook!WriteSidecarFails
  BY <1>8b DEF Cook!WriteSidecarFails, Cook!Note
<1>9. CASE Cook!LastEvent
  BY <1>9 DEF Cook!LastEvent, Cook!Yield
<1>10. CASE Cook!Deadline
  BY <1>10 DEF Cook!Deadline, Cook!Terminate, Cook!Yield
<1>11. CASE Cook!Handle
  BY <1>11 DEF Cook!Handle
<1>12. CASE Cook!LastLook
  BY <1>12 DEF Cook!LastLook
<1>13. CASE Cook!Communicate
  BY <1>13 DEF Cook!Communicate, Cook!Terminate, Cook!Outcome
<1>14. CASE Cook!Close
  BY <1>14 DEF Cook!Close, Cook!ClearSidecar
<1>15. CASE Cook!AnswerRetry
  BY <1>15 DEF Cook!AnswerRetry
<1>16. CASE Cook!AnswerRole
  BY <1>16 DEF Cook!AnswerRole
<1>17. CASE Cook!MakeResult
  BY <1>17 DEF Cook!MakeResult
<1>18. CASE Cook!RetryDispatch
  BY <1>18 DEF Cook!RetryDispatch
<1>19. CASE Cook!Settle
  BY <1>19 DEF Cook!Settle
<1>20. CASE Cook!WriteRow
  BY <1>20 DEF Cook!WriteRow
<1>21. CASE Cook!MarkRun
  BY <1>21 DEF Cook!MarkRun
<1>22. CASE Cook!PaintReceipt
  BY <1>22 DEF Cook!PaintReceipt
<1>22b. CASE Cook!ReceiptLost
  BY <1>22b DEF Cook!ReceiptLost, Cook!Note
<1>23. CASE Cook!Release
  BY <1>23 DEF Cook!Release
<1>24. CASE Cook!SettleCrashed
  BY <1>24 DEF Cook!SettleCrashed
<1>24b. CASE Cook!SettleLoses
  BY <1>24b DEF Cook!SettleLoses
<1>25. CASE Cook!Unwind
  BY <1>25 DEF Cook!Unwind, Cook!ClearSidecar
<1>26. CASE Cook!FailStale
  BY <1>26 DEF Cook!FailStale
<1>27. CASE Cook!ReapOrphans
  BY <1>27 DEF Cook!ReapOrphans
<1>27b. CASE Cook!SpareOrphan
  BY <1>27b DEF Cook!SpareOrphan, Cook!Note
<1>28. CASE Cook!CancelKills
  BY <1>28 DEF Cook!CancelKills, Cook!TapGoto
<1>29. CASE Cook!CancelMisses
  BY <1>29 DEF Cook!CancelMisses, Cook!TapGoto, Cook!Note
<1>30. CASE Cook!CancelUnconfirmed
  BY <1>30 DEF Cook!CancelUnconfirmed, Cook!NoTap
<1>31. CASE Cook!CancelNoted
  BY <1>31 DEF Cook!CancelNoted, Cook!TapGoto
<1>32. CASE Cook!CancelMarks
  BY <1>32 DEF Cook!CancelMarks, Cook!TapGoto
<1>33. CASE Cook!CancelWritesRow
  BY <1>33 DEF Cook!CancelWritesRow, Cook!TapGoto
<1>34. CASE Cook!CancelPaints
  BY <1>34 DEF Cook!CancelPaints, Cook!NoTap
<1>34b. CASE Cook!CancelLoses
  BY <1>34b DEF Cook!CancelLoses, Cook!TapGoto, Cook!NoTap
<1>35. CASE Cook!NextLine
  BY <1>35 DEF Cook!NextLine, Cook!Yield
<1>35b. CASE Cook!NoteJobId
  BY <1>35b DEF Cook!NoteJobId
<1>36. CASE Cook!WorkerEnds
  BY <1>36 DEF Cook!WorkerEnds
<1>37. CASE Cook!CancelTap
  BY <1>37 DEF Cook!CancelTap, Cook!Note
<1>38. CASE Cook!Raise
  BY <1>38 DEF Cook!Raise, Cook!Note
<1>39. CASE Cook!HostDies
  BY <1>39 DEF Cook!HostDies, Cook!Note, Cook!NoTap
<1>40. CASE UNCHANGED Cook!vars
  BY <1>40 DEF Cook!vars
<1>41. QED
  BY <1>1, <1>2, <1>3, <1>4, <1>5, <1>6, <1>7, <1>8, <1>9, <1>10, <1>11, <1>12, <1>13,
     <1>14, <1>15, <1>16, <1>17, <1>18, <1>19, <1>20, <1>21, <1>22, <1>23, <1>24, <1>25,
     <1>26, <1>27, <1>28, <1>29, <1>30, <1>31, <1>32, <1>33, <1>34, <1>35, <1>36, <1>37,
     <1>38, <1>39, <1>40, <1>8b, <1>22b, <1>24b, <1>27b, <1>34b, <1>35b
  DEF Cook!Next, Cook!CookStep, Cook!TapStep, Cook!FaultStep

(* HeardStep: a Cancel that found the child is on its way to the thread too: *)
(* by the flag while it reads, by the event and the marks after that.        *)
LEMMA HeardStep == ASSUME CookBounds, CookInv, [Cook!Next]_(Cook!vars) PROVE Heard'
<1> USE DEF CookBounds, CookInv, Cook!TypeOK, Places, Stages, Cook!Goto, Cook!vars,
     Cook!procVars, Cook!statusVars, Cook!tapVars, Cook!faultVars, Cook!Blocks, Cook!Retry,
     Cook!Statuses, Cook!Final, Cook!Ended, Cook!HostUp, Heard, Results, WorkerDone,
     Untouched, Calm, Sure, Said, Certain, Cooking, Left, Shot
<1>1. CASE Cook!PaintStart
  BY <1>1 DEF Cook!PaintStart
<1>2. CASE Cook!ThreadFails
  BY <1>2 DEF Cook!ThreadFails
<1>3. CASE Cook!CloseWithoutWorker
  BY <1>3 DEF Cook!CloseWithoutWorker
<1>4. CASE Cook!Open
  BY <1>4 DEF Cook!Open
<1>5. CASE Cook!SpawnFails
  BY <1>5 DEF Cook!SpawnFails
<1>6. CASE Cook!Spawn
  BY <1>6 DEF Cook!Spawn
<1>7. CASE Cook!Register
  BY <1>7 DEF Cook!Register
<1>8. CASE Cook!WriteSidecar
  BY <1>8 DEF Cook!WriteSidecar
<1>8b. CASE Cook!WriteSidecarFails
  BY <1>8b DEF Cook!WriteSidecarFails, Cook!Note
<1>9. CASE Cook!LastEvent
  BY <1>9 DEF Cook!LastEvent, Cook!Yield
<1>10. CASE Cook!Deadline
  BY <1>10 DEF Cook!Deadline, Cook!Terminate, Cook!Yield
<1>11. CASE Cook!Handle
  BY <1>11 DEF Cook!Handle
<1>12. CASE Cook!LastLook
  BY <1>12 DEF Cook!LastLook
<1>13. CASE Cook!Communicate
  BY <1>13 DEF Cook!Communicate, Cook!Terminate, Cook!Outcome
<1>14. CASE Cook!Close
  BY <1>14 DEF Cook!Close, Cook!ClearSidecar
<1>15. CASE Cook!AnswerRetry
  BY <1>15 DEF Cook!AnswerRetry
<1>16. CASE Cook!AnswerRole
  BY <1>16 DEF Cook!AnswerRole
<1>17. CASE Cook!MakeResult
  BY <1>17 DEF Cook!MakeResult
<1>18. CASE Cook!RetryDispatch
  BY <1>18 DEF Cook!RetryDispatch
<1>19. CASE Cook!Settle
  BY <1>19 DEF Cook!Settle
<1>20. CASE Cook!WriteRow
  BY <1>20 DEF Cook!WriteRow
<1>21. CASE Cook!MarkRun
  BY <1>21 DEF Cook!MarkRun
<1>22. CASE Cook!PaintReceipt
  BY <1>22 DEF Cook!PaintReceipt
<1>22b. CASE Cook!ReceiptLost
  BY <1>22b DEF Cook!ReceiptLost, Cook!Note
<1>23. CASE Cook!Release
  BY <1>23 DEF Cook!Release
<1>24. CASE Cook!SettleCrashed
  BY <1>24 DEF Cook!SettleCrashed
<1>24b. CASE Cook!SettleLoses
  BY <1>24b DEF Cook!SettleLoses
<1>25. CASE Cook!Unwind
  BY <1>25 DEF Cook!Unwind, Cook!ClearSidecar
<1>26. CASE Cook!FailStale
  BY <1>26 DEF Cook!FailStale
<1>27. CASE Cook!ReapOrphans
  BY <1>27 DEF Cook!ReapOrphans
<1>27b. CASE Cook!SpareOrphan
  BY <1>27b DEF Cook!SpareOrphan, Cook!Note
<1>28. CASE Cook!CancelKills
  BY <1>28 DEF Cook!CancelKills, Cook!TapGoto
<1>29. CASE Cook!CancelMisses
  BY <1>29 DEF Cook!CancelMisses, Cook!TapGoto, Cook!Note
<1>30. CASE Cook!CancelUnconfirmed
  BY <1>30 DEF Cook!CancelUnconfirmed, Cook!NoTap
<1>31. CASE Cook!CancelNoted
  BY <1>31 DEF Cook!CancelNoted, Cook!TapGoto
<1>32. CASE Cook!CancelMarks
  BY <1>32 DEF Cook!CancelMarks, Cook!TapGoto
<1>33. CASE Cook!CancelWritesRow
  BY <1>33 DEF Cook!CancelWritesRow, Cook!TapGoto
<1>34. CASE Cook!CancelPaints
  BY <1>34 DEF Cook!CancelPaints, Cook!NoTap
<1>34b. CASE Cook!CancelLoses
  BY <1>34b DEF Cook!CancelLoses, Cook!TapGoto, Cook!NoTap
<1>35. CASE Cook!NextLine
  BY <1>35 DEF Cook!NextLine, Cook!Yield
<1>35b. CASE Cook!NoteJobId
  BY <1>35b DEF Cook!NoteJobId
<1>36. CASE Cook!WorkerEnds
  BY <1>36 DEF Cook!WorkerEnds
<1>37. CASE Cook!CancelTap
  BY <1>37 DEF Cook!CancelTap, Cook!Note
<1>38. CASE Cook!Raise
  BY <1>38 DEF Cook!Raise, Cook!Note
<1>39. CASE Cook!HostDies
  BY <1>39 DEF Cook!HostDies, Cook!Note, Cook!NoTap
<1>40. CASE UNCHANGED Cook!vars
  BY <1>40 DEF Cook!vars
<1>41. QED
  BY <1>1, <1>2, <1>3, <1>4, <1>5, <1>6, <1>7, <1>8, <1>9, <1>10, <1>11, <1>12, <1>13,
     <1>14, <1>15, <1>16, <1>17, <1>18, <1>19, <1>20, <1>21, <1>22, <1>23, <1>24, <1>25,
     <1>26, <1>27, <1>28, <1>29, <1>30, <1>31, <1>32, <1>33, <1>34, <1>35, <1>36, <1>37,
     <1>38, <1>39, <1>40, <1>8b, <1>22b, <1>24b, <1>27b, <1>34b, <1>35b
  DEF Cook!Next, Cook!CookStep, Cook!TapStep, Cook!FaultStep

(* AgreedStep: from the row to the card the thread and such a Cancel write   *)
(* the same; one that finds the thread past its last look is excused.        *)
LEMMA AgreedStep == ASSUME CookBounds, CookInv, [Cook!Next]_(Cook!vars) PROVE Agreed'
<1> USE DEF CookBounds, CookInv, Cook!TypeOK, Places, Stages, Cook!Goto, Cook!vars,
     Cook!procVars, Cook!statusVars, Cook!tapVars, Cook!faultVars, Cook!Blocks, Cook!Retry,
     Cook!Statuses, Cook!Final, Cook!Ended, Cook!HostUp, Agreed, Heard, Untouched, Calm, Sure,
     Said, Certain, Cooking
<1>1. CASE Cook!PaintStart
  BY <1>1 DEF Cook!PaintStart
<1>2. CASE Cook!ThreadFails
  BY <1>2 DEF Cook!ThreadFails
<1>3. CASE Cook!CloseWithoutWorker
  BY <1>3 DEF Cook!CloseWithoutWorker
<1>4. CASE Cook!Open
  BY <1>4 DEF Cook!Open
<1>5. CASE Cook!SpawnFails
  BY <1>5 DEF Cook!SpawnFails
<1>6. CASE Cook!Spawn
  BY <1>6 DEF Cook!Spawn
<1>7. CASE Cook!Register
  BY <1>7 DEF Cook!Register
<1>8. CASE Cook!WriteSidecar
  BY <1>8 DEF Cook!WriteSidecar
<1>8b. CASE Cook!WriteSidecarFails
  BY <1>8b DEF Cook!WriteSidecarFails, Cook!Note
<1>9. CASE Cook!LastEvent
  BY <1>9 DEF Cook!LastEvent, Cook!Yield
<1>10. CASE Cook!Deadline
  BY <1>10 DEF Cook!Deadline, Cook!Terminate, Cook!Yield
<1>11. CASE Cook!Handle
  BY <1>11 DEF Cook!Handle
<1>12. CASE Cook!LastLook
  BY <1>12 DEF Cook!LastLook
<1>13. CASE Cook!Communicate
  BY <1>13 DEF Cook!Communicate, Cook!Terminate, Cook!Outcome
<1>14. CASE Cook!Close
  BY <1>14 DEF Cook!Close, Cook!ClearSidecar
<1>15. CASE Cook!AnswerRetry
  BY <1>15 DEF Cook!AnswerRetry
<1>16. CASE Cook!AnswerRole
  BY <1>16 DEF Cook!AnswerRole
<1>17. CASE Cook!MakeResult
  BY <1>17 DEF Cook!MakeResult
<1>18. CASE Cook!RetryDispatch
  BY <1>18 DEF Cook!RetryDispatch
<1>19. CASE Cook!Settle
  BY <1>19 DEF Cook!Settle
<1>20. CASE Cook!WriteRow
  BY <1>20 DEF Cook!WriteRow
<1>21. CASE Cook!MarkRun
  BY <1>21 DEF Cook!MarkRun
<1>22. CASE Cook!PaintReceipt
  BY <1>22 DEF Cook!PaintReceipt
<1>22b. CASE Cook!ReceiptLost
  BY <1>22b DEF Cook!ReceiptLost, Cook!Note
<1>23. CASE Cook!Release
  BY <1>23 DEF Cook!Release
<1>24. CASE Cook!SettleCrashed
  BY <1>24 DEF Cook!SettleCrashed
<1>24b. CASE Cook!SettleLoses
  <2>1. PICK lost \in SUBSET {"unwritten", "unpainted"} :
           lost # {} /\ history' = history \cup lost
    BY <1>24b DEF Cook!SettleLoses
  <2>2. "unwritten" \in lost \/ "unpainted" \in lost
    <3>1. \A x \in lost : x = "unwritten" \/ x = "unpainted"
      OBVIOUS
    <3>2. PICK x : x \in lost
      BY <2>1
    <3>3. QED
      BY <3>1, <3>2
  <2>3. QED
    BY <2>1, <2>2
<1>25. CASE Cook!Unwind
  BY <1>25 DEF Cook!Unwind, Cook!ClearSidecar
<1>26. CASE Cook!FailStale
  BY <1>26 DEF Cook!FailStale
<1>27. CASE Cook!ReapOrphans
  BY <1>27 DEF Cook!ReapOrphans
<1>27b. CASE Cook!SpareOrphan
  BY <1>27b DEF Cook!SpareOrphan, Cook!Note
<1>28. CASE Cook!CancelKills
  BY <1>28 DEF Cook!CancelKills, Cook!TapGoto
<1>29. CASE Cook!CancelMisses
  BY <1>29 DEF Cook!CancelMisses, Cook!TapGoto, Cook!Note
<1>30. CASE Cook!CancelUnconfirmed
  BY <1>30 DEF Cook!CancelUnconfirmed, Cook!NoTap
<1>31. CASE Cook!CancelNoted
  BY <1>31 DEF Cook!CancelNoted, Cook!TapGoto
<1>32. CASE Cook!CancelMarks
  BY <1>32 DEF Cook!CancelMarks, Cook!TapGoto
<1>33. CASE Cook!CancelWritesRow
  BY <1>33 DEF Cook!CancelWritesRow, Cook!TapGoto
<1>34. CASE Cook!CancelPaints
  BY <1>34 DEF Cook!CancelPaints, Cook!NoTap
<1>34b. CASE Cook!CancelLoses
  BY <1>34b DEF Cook!CancelLoses, Cook!TapGoto, Cook!NoTap
<1>35. CASE Cook!NextLine
  BY <1>35 DEF Cook!NextLine, Cook!Yield
<1>35b. CASE Cook!NoteJobId
  BY <1>35b DEF Cook!NoteJobId
<1>36. CASE Cook!WorkerEnds
  BY <1>36 DEF Cook!WorkerEnds
<1>37. CASE Cook!CancelTap
  BY <1>37 DEF Cook!CancelTap, Cook!Note
<1>38. CASE Cook!Raise
  BY <1>38 DEF Cook!Raise, Cook!Note
<1>39. CASE Cook!HostDies
  BY <1>39 DEF Cook!HostDies, Cook!Note, Cook!NoTap
<1>40. CASE UNCHANGED Cook!vars
  BY <1>40 DEF Cook!vars
<1>41. QED
  BY <1>1, <1>2, <1>3, <1>4, <1>5, <1>6, <1>7, <1>8, <1>9, <1>10, <1>11, <1>12, <1>13,
     <1>14, <1>15, <1>16, <1>17, <1>18, <1>19, <1>20, <1>21, <1>22, <1>23, <1>24, <1>25,
     <1>26, <1>27, <1>28, <1>29, <1>30, <1>31, <1>32, <1>33, <1>34, <1>35, <1>36, <1>37,
     <1>38, <1>39, <1>40, <1>8b, <1>22b, <1>24b, <1>27b, <1>34b, <1>35b
  DEF Cook!Next, Cook!CookStep, Cook!TapStep, Cook!FaultStep

-----------------------------------------------------------------------------
(* CookInvInit, CookInvStep: the invariant holds at first and every step     *)
(* preserves it.                                                             *)
LEMMA CookInvInit == ASSUME CookBounds, Cook!Init PROVE CookInv
<1> USE DEF CookBounds, Cook!Init, Cook!NoTap, Cook!Final
<1>1. Cook!TypeOK
  <2>1. 0 \in 0..0 /\ 0 \in 0..(Roles + 2) /\ 0 \in 0..MaxTaps /\ 0 \in 0..MaxRaises
        /\ 0 \in 0..MaxCrashes
    OBVIOUS
  <2>2. turn = 0 /\ child = 0 /\ tap.step = "off" /\ tap.found = 0
    OBVIOUS
  <2>3. QED
    BY <2>1, <2>2 DEF Cook!TypeOK, Cook!Statuses, Cook!Ended
<1>2. Places /\ Results /\ WorkerDone
  BY DEF Places, Stages, Taps, Results, WorkerDone, Cook!Blocks, Cook!Retry
<1>3. FlagEarly /\ Filed
  BY DEF FlagEarly, Filed
<1>4. Untouched /\ Heard /\ Agreed
  BY DEF Untouched, Heard, Agreed, Calm, Sure, Said, Certain, Cooking, Cook!Blocks, Cook!Retry
<1>5. QED
  BY <1>1, <1>2, <1>3, <1>4 DEF CookInv

LEMMA CookInvStep == ASSUME CookBounds, CookInv, [Cook!Next]_(Cook!vars) PROVE CookInv'
  BY CookTypeStep, PlacesStep, ResultsStep, WorkerDoneStep, FlagEarlyStep, FiledStep,
     UntouchedStep, HeardStep, AgreedStep DEF CookInv

(* CookInvHolds: the inductive invariant of the whole run.                   *)
THEOREM CookInvHolds == ASSUME CookBounds PROVE Cook!Spec => []CookInv
<1>1. Cook!Init => CookInv
  BY CookInvInit
<1>2. CookInv /\ [Cook!Next]_(Cook!vars) => CookInv'
  BY CookInvStep
<1>3. QED
  BY <1>1, <1>2, PTL DEF Cook!Spec

(* CookTypes: every variable keeps to its kind.                              *)
THEOREM CookTypes == ASSUME CookBounds PROVE Cook!Spec => []Cook!TypeOK
<1>1. CookInv => Cook!TypeOK
  BY DEF CookInv
<1>2. QED
  BY <1>1, CookInvHolds, PTL

(* NoWorkerAfterRun: a job that is given back leaves no worker behind, but   *)
(* for the excused ways.  At "gone" a worker that is alive was left alive,   *)
(* or a Cancel is at its kill: WorkerDone.                                   *)
THEOREM NoWorkerAfterRun == ASSUME CookBounds PROVE Cook!Spec => []Cook!StoppedWhenSettled
<1>1. CookInv => Cook!StoppedWhenSettled
  BY DEF CookInv, WorkerDone, Cook!StoppedWhenSettled, Cook!LeftBehind, Left, Shot
<1>2. QED
  BY <1>1, CookInvHolds, PTL

(* StoriesAgree: the run's row, its status in memory and its card agree at   *)
(* rest, however a Cancel met the end of the worker: Agreed at "gone".       *)
THEOREM StoriesAgree == ASSUME CookBounds PROVE Cook!Spec => []Cook!OneStory
<1>1. CookInv => Cook!OneStory
  BY DEF CookInv, Agreed, Cook!OneStory, Calm
<1>2. QED
  BY <1>1, CookInvHolds, PTL

(* NoOrphanAfterBoot: after a restart no worker of the dead host is alive,   *)
(* but for the excused ways: Filed at "booted".                              *)
THEOREM NoOrphanAfterBoot == ASSUME CookBounds PROVE Cook!Spec => []Cook!OrphanReaped
<1>1. CookInv => Cook!OrphanReaped
  BY DEF CookInv, Filed, Cook!OrphanReaped, Cook!LeftBehind, Lost, Left
<1>2. QED
  BY <1>1, CookInvHolds, PTL
=============================================================================
