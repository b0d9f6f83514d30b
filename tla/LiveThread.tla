----------------------------- MODULE LiveThread -----------------------------
(***************************************************************************)
(* Follow-ups in the Discord thread of a job.                              *)
(*                                                                         *)
(* While a run of the thread is live, a follow-up is written to            *)
(* inbound_queue, handed to the running worker (orchestrator.py: steer,    *)
(* _deliver_steers) and its row marked applied; if the run cannot take it, *)
(* the row waits, and a later round of the listen loop flushes it          *)
(* (listen.py: _flush_inbound_queue) into the worker or into a new run of  *)
(* the thread.  In an idle thread a follow-up is a new run at once.        *)
(*                                                                         *)
(* Two threads hand steers to the worker: the listen loop inside steer and *)
(* the cook thread at each event of its stream.  The cook thread also ends *)
(* the run, in steps others can come between: it writes the run's status,  *)
(* takes what was not delivered, releases the thread and leaves the pool.  *)
(*                                                                         *)
(* One thread; a follow-up is its number.  Run 1 is the ask the thread was *)
(* opened for, the pool does not know its thread id.                       *)
(***************************************************************************)
EXTENDS Naturals, Sequences, FiniteSets, Functions

CONSTANTS
    MaxMsgs,    \* bound of the model: follow-ups
    MaxFaults,  \* bound of the model: rows that cannot be written or marked
    MaxCrashes, \* bound of the model: host crashes
    None        \* no run, no message

Msgs == 1..MaxMsgs
Runs == 1..(1 + MaxMsgs + MaxFaults + MaxCrashes)
Deliverers == {"loop", "cook"}

VARIABLES
    taken,    \* follow-ups the loop has claimed
    row,      \* inbound_queue: none, queued, applied
    at,       \* the loop: idle, claimed, check, append, deliver, mark
    todo,     \* rows the flush has listed and still to go through, oldest first
    pc,       \* each run: none, pool, live, status, last, released, gone
    carries,  \* the follow-up a run was started for
    durable,  \* the run's ask is in pending_intake until it is live
    worker,   \* each run's worker: starting (no job id), known, ended
    pending,  \* _steer_pending of each run
    deliver,  \* _deliver_steers of the loop and of the cook thread
    mark,     \* _live_threads: the run that owns the thread
    origin,   \* the thread is in _ORIGIN_THREADS
    got,      \* history: what each worker was given
    steered,  \* history: follow-ups a steer accepted
    late,     \* history: those it appended after the run's last look
    reported, \* follow-ups a receipt names as not delivered
    told,     \* follow-ups answered with "Could not steer this run."
    unmarked, \* history: those whose row could not be marked applied
    faults, crashes

runVars  == <<pc, carries, durable, worker>>
markVars == <<mark, origin>>
histVars == <<got, steered, late, reported, told, unmarked>>
vars == <<taken, row, at, todo, runVars, pending, deliver, markVars, histVars,
          faults, crashes>>

-----------------------------------------------------------------------------
IdleLoop == [step |-> "idle", msg |-> None, run |-> None]
Off      == [step |-> "off", msg |-> None, run |-> None]
Idle     == at.step = "idle"
Goto(s)  == at' = [at EXCEPT !.step = s]

\* The runs the pool has a thread id for: submit to the end of the job.
InPool == {r \in Runs \ {1} : pc[r] \in {"pool", "live", "status", "last", "released"}}

\* Mutant of ThreadRunning: only a run that has marked the thread counts.
ThreadMarked == mark # None

\* _thread_has_running_job
ThreadRunning == mark # None \/ InPool # {} \/ origin

\* The run steer would find: the one that owns the thread, if it is live.
Steerable == {r \in Runs : r = mark /\ pc[r] = "live"}

\* The runs are made in the order of their numbers.
NewRun(r) == pc[r] = "none" /\ \A q \in Runs : q < r => pc[q] # "none"

\* JobPool.submit of an intake with the thread's id.
SubmitRun(m, kept) ==
    /\ \E r \in Runs :
         /\ NewRun(r)
         /\ pc' = [pc EXCEPT ![r] = "pool"]
         /\ carries' = [carries EXCEPT ![r] = m]
         /\ durable' = [durable EXCEPT ![r] = kept]
    /\ UNCHANGED worker

Init ==
    /\ taken = 0
    /\ row = [m \in Msgs |-> "none"]
    /\ at = IdleLoop
    /\ todo = {}
    /\ pc = [r \in Runs |-> IF r = 1 THEN "live" ELSE "none"]
    /\ carries = [r \in Runs |-> None]
    /\ durable = [r \in Runs |-> FALSE]
    /\ worker = [r \in Runs |-> "starting"]
    /\ pending = [r \in Runs |-> <<>>]
    /\ deliver = [a \in Deliverers |-> Off]
    /\ mark = 1 /\ origin = TRUE
    /\ got = [r \in Runs |-> <<>>]
    /\ steered = {} /\ late = {} /\ reported = {} /\ told = {} /\ unmarked = {}
    /\ faults = 0 /\ crashes = 0

-----------------------------------------------------------------------------
(* The listen loop: drain_inbound on the thread.                           *)

\* The thread is running: claim the follow-up, _handle_live_thread_followup.
TakeLive ==
    /\ Idle /\ todo = {}
    /\ taken < MaxMsgs
    /\ ThreadRunning
    /\ taken' = taken + 1
    /\ at' = [step |-> "claimed", msg |-> taken + 1, run |-> None]
    /\ UNCHANGED <<row, todo, runVars, pending, deliver, markVars, histVars, faults, crashes>>

\* The thread is idle: the follow-up is an ask of its own (see Intake).
TakeIdle ==
    /\ Idle /\ todo = {}
    /\ taken < MaxMsgs
    /\ ~ThreadRunning
    /\ taken' = taken + 1
    /\ SubmitRun(taken + 1, TRUE)
    /\ UNCHANGED <<row, at, todo, pending, deliver, markVars, histVars, faults, crashes>>

\* enqueue_inbound
Enqueue ==
    /\ at.step = "claimed"
    /\ row' = [row EXCEPT ![at.msg] = "queued"]
    /\ Goto("check")
    /\ UNCHANGED <<taken, todo, runVars, pending, deliver, markVars, histVars, faults, crashes>>

\* The row cannot be written, the exception is swallowed: steer or miss.
EnqueueFails ==
    /\ at.step = "claimed"
    /\ faults < MaxFaults
    /\ faults' = faults + 1
    /\ Goto("check")
    /\ UNCHANGED <<taken, row, todo, runVars, pending, deliver, markVars, histVars, crashes>>

\* Mutant of CheckHit: whatever run the thread has is taken for live.
CheckHitAnyway ==
    /\ at.step = "check"
    /\ at' = [at EXCEPT !.step = "append", !.run = mark]
    /\ UNCHANGED <<taken, row, todo, runVars, pending, deliver, markVars, histVars, faults,
                   crashes>>

\* _steer_running_job finds a run, and steer finds it live.
CheckHit ==
    /\ at.step = "check"
    /\ Steerable # {}
    /\ at' = [at EXCEPT !.step = "append", !.run = mark]
    /\ UNCHANGED <<taken, row, todo, runVars, pending, deliver, markVars, histVars, faults,
                   crashes>>

\* No run takes it: the row waits, or the user is told.
CheckMiss ==
    /\ at.step = "check"
    /\ Steerable = {}
    /\ told' = IF row[at.msg] = "none" THEN told \cup {at.msg} ELSE told
    /\ at' = IdleLoop
    /\ UNCHANGED <<taken, row, todo, runVars, pending, deliver, markVars, got, steered, late,
                   reported, unmarked, faults, crashes>>

\* steer appends to _steer_pending, whatever became of the run meanwhile.
AppendSteer ==
    /\ at.step = "append"
    /\ pending' = [pending EXCEPT ![at.run] = Append(@, at.msg)]
    /\ steered' = steered \cup {at.msg}
    /\ late' = IF pc[at.run] \in {"live", "status"} THEN late ELSE late \cup {at.msg}
    /\ deliver' = [deliver EXCEPT !["loop"] =
                     [step |-> "look", msg |-> None, run |-> at.run]]
    /\ Goto("deliver")
    /\ UNCHANGED <<taken, row, todo, runVars, markVars, got, reported, told, unmarked, faults,
                   crashes>>

SteerReturns ==
    /\ at.step = "deliver" /\ deliver["loop"].step = "off"
    /\ Goto("mark")
    /\ UNCHANGED <<taken, row, todo, runVars, pending, deliver, markVars, histVars, faults,
                   crashes>>

\* mark_inbound_applied, if there is a row.
MarkApplied ==
    /\ at.step = "mark"
    /\ row' = [row EXCEPT ![at.msg] = IF @ = "queued" THEN "applied" ELSE @]
    /\ at' = IdleLoop
    /\ UNCHANGED <<taken, todo, runVars, pending, deliver, markVars, histVars, faults, crashes>>

\* _mark_queue swallows the failing write: the row is still queued.
MarkFails ==
    /\ at.step = "mark" /\ row[at.msg] = "queued"
    /\ faults < MaxFaults
    /\ faults' = faults + 1
    /\ unmarked' = unmarked \cup {at.msg}
    /\ at' = IdleLoop
    /\ UNCHANGED <<taken, row, todo, runVars, pending, deliver, markVars, got, steered, late,
                   reported, told, crashes>>

-----------------------------------------------------------------------------
(* The listen loop: _flush_inbound_queue.                                  *)

\* list_queued_inbound
FlushList ==
    /\ Idle /\ todo = {}
    /\ \E m \in Msgs : row[m] = "queued"
    /\ todo' = {m \in Msgs : row[m] = "queued"}
    /\ UNCHANGED <<taken, row, at, runVars, pending, deliver, markVars, histVars, faults,
                   crashes>>

Oldest(m) == m \in todo /\ \A n \in todo : m <= n

\* The thread runs: try to steer again.
FlushSteer ==
    /\ Idle /\ ThreadRunning
    /\ \E m \in todo :
         /\ Oldest(m)
         /\ at' = [step |-> "check", msg |-> m, run |-> None]
         /\ todo' = todo \ {m}
    /\ UNCHANGED <<taken, row, runVars, pending, deliver, markVars, histVars, faults, crashes>>

\* The thread is idle: a new run, without a message id and so without a
\* pending_intake row; the queue row is marked afterwards.
FlushSubmit ==
    /\ Idle /\ ~ThreadRunning
    /\ \E m \in todo :
         /\ Oldest(m)
         /\ SubmitRun(m, FALSE)
         /\ at' = [step |-> "mark", msg |-> m, run |-> None]
         /\ todo' = todo \ {m}
    /\ UNCHANGED <<taken, row, pending, deliver, markVars, histVars, faults, crashes>>

-----------------------------------------------------------------------------
(* _deliver_steers, by either thread.                                      *)

\* Under the lock: the head of the queue, or nothing is left.
Look(a) ==
    /\ deliver[a].step = "look"
    /\ LET queued == pending[deliver[a].run]
       IN  deliver' = [deliver EXCEPT ![a] =
               IF queued = <<>> THEN Off ELSE [@ EXCEPT !.step = "call", !.msg = Head(queued)]]
    /\ UNCHANGED <<taken, row, at, todo, runVars, pending, markVars, histVars, faults, crashes>>

\* The worker has no job id yet, is gone, or its CLI refuses: the rest waits.
HookRefuses(a) ==
    /\ deliver[a].step = "call"
    /\ deliver' = [deliver EXCEPT ![a] = Off]
    /\ UNCHANGED <<taken, row, at, todo, runVars, pending, markVars, histVars, faults, crashes>>

\* The worker has it: it leaves the queue, unless the other thread popped it.
HookAccepts(a) ==
    /\ deliver[a].step = "call"
    /\ worker[deliver[a].run] = "known"
    /\ LET r == deliver[a].run
           m == deliver[a].msg
       IN  /\ got' = [got EXCEPT ![r] = Append(@, m)]
           /\ pending' = [pending EXCEPT ![r] =
                             IF @ # <<>> /\ Head(@) = m THEN Tail(@) ELSE @]
    /\ deliver' = [deliver EXCEPT ![a].step = "look"]
    /\ UNCHANGED <<taken, row, at, todo, runVars, markVars, steered, late, reported, told,
                   unmarked, faults, crashes>>

-----------------------------------------------------------------------------
(* The cook thread of a run.                                               *)

\* note_origin_thread, _mark_thread_live
Live(r) ==
    /\ pc[r] = "pool"
    /\ pc' = [pc EXCEPT ![r] = "live"]
    /\ mark' = r /\ origin' = TRUE
    /\ UNCHANGED <<taken, row, at, todo, carries, durable, worker, pending, deliver, histVars,
                   faults, crashes>>

\* The stream names the worker's job.
JobKnown(r) ==
    /\ pc[r] = "live" /\ worker[r] = "starting"
    /\ worker' = [worker EXCEPT ![r] = "known"]
    /\ UNCHANGED <<taken, row, at, todo, pc, carries, durable, pending, deliver, markVars,
                   histVars, faults, crashes>>

\* At each event of the stream: _deliver_steers.
StreamEvent(r) ==
    /\ pc[r] = "live" /\ worker[r] # "ended"
    /\ deliver["cook"].step = "off"
    /\ pending[r] # <<>>
    /\ deliver' = [deliver EXCEPT !["cook"] = [step |-> "look", msg |-> None, run |-> r]]
    /\ UNCHANGED <<taken, row, at, todo, runVars, pending, markVars, histVars, faults, crashes>>

StreamEnd(r) ==
    /\ pc[r] = "live" /\ worker[r] # "ended"
    /\ deliver["cook"].step = "off"
    /\ worker' = [worker EXCEPT ![r] = "ended"]
    /\ UNCHANGED <<taken, row, at, todo, pc, carries, durable, pending, deliver, markVars,
                   histVars, faults, crashes>>

\* The stream's status in _run_status: no steer is accepted from here on.
SetStatus(r) ==
    /\ pc[r] = "live" /\ worker[r] = "ended"
    /\ pc' = [pc EXCEPT ![r] = "status"]
    /\ UNCHANGED <<taken, row, at, todo, carries, durable, worker, pending, deliver, markVars,
                   histVars, faults, crashes>>

\* _undelivered_steers: what is left is named in the receipt.
LastLook(r) ==
    /\ pc[r] = "status"
    /\ pc' = [pc EXCEPT ![r] = "last"]
    /\ reported' = reported \cup Range(pending[r])
    /\ pending' = [pending EXCEPT ![r] = <<>>]
    /\ UNCHANGED <<taken, row, at, todo, carries, durable, worker, deliver, markVars, got,
                   steered, late, told, unmarked, faults, crashes>>

\* _release_live_thread forgets the run's steers, its mark and the origin.
Release(r) ==
    /\ pc[r] = "last"
    /\ pc' = [pc EXCEPT ![r] = "released"]
    /\ mark' = IF mark = r THEN None ELSE mark
    /\ origin' = FALSE
    /\ pending' = [pending EXCEPT ![r] = <<>>]
    /\ UNCHANGED <<taken, row, at, todo, carries, durable, worker, deliver, histVars, faults,
                   crashes>>

\* The job's finally block in the pool.
LeavePool(r) ==
    /\ pc[r] = "released"
    /\ pc' = [pc EXCEPT ![r] = "gone"]
    /\ UNCHANGED <<taken, row, at, todo, carries, durable, worker, pending, deliver, markVars,
                   histVars, faults, crashes>>

\* The host dies and starts again; asks in pending_intake are replayed.
HostRestart ==
    /\ crashes < MaxCrashes
    /\ crashes' = crashes + 1
    /\ at' = IdleLoop /\ todo' = {}
    /\ deliver' = [a \in Deliverers |-> Off]
    /\ pending' = [r \in Runs |-> <<>>]
    /\ mark' = None /\ origin' = FALSE
    /\ pc' = [r \in Runs |-> IF pc[r] = "none" \/ (pc[r] = "pool" /\ durable[r])
                             THEN pc[r] ELSE "gone"]
    /\ worker' = [r \in Runs |-> IF pc[r] \in {"none", "pool"} THEN worker[r] ELSE "ended"]
    /\ UNCHANGED <<taken, row, carries, durable, histVars, faults>>

-----------------------------------------------------------------------------
LoopStep ==
    \/ TakeLive \/ TakeIdle \/ Enqueue \/ EnqueueFails \/ CheckHit \/ CheckMiss
    \/ AppendSteer \/ SteerReturns \/ MarkApplied \/ MarkFails
    \/ FlushList \/ FlushSteer \/ FlushSubmit

DeliverStep(a) == Look(a) \/ HookRefuses(a) \/ HookAccepts(a)

SettleStep(r) == Live(r) \/ SetStatus(r) \/ LastLook(r) \/ Release(r) \/ LeavePool(r)

Next ==
    \/ LoopStep
    \/ \E a \in Deliverers : DeliverStep(a)
    \/ \E r \in Runs : JobKnown(r) \/ StreamEvent(r) \/ StreamEnd(r) \/ SettleStep(r)
    \/ HostRestart

Spec == Init /\ [][Next]_vars

(* The loop goes round, a steer call returns, a job gets its thread, and a *)
(* stream ends (its worker has a timeout) whatever steers come in between. *)
Fairness ==
    /\ WF_vars(LoopStep)
    /\ \A a \in Deliverers : WF_vars(DeliverStep(a))
    /\ SF_vars(\E r \in Runs : StreamEnd(r))
    /\ WF_vars(\E r \in Runs : SettleStep(r))

FairSpec == Spec /\ Fairness

-----------------------------------------------------------------------------
(* TypeOK: rows, runs, queues and marks are of their kinds, and there is    *)
(* always a run left for a follow-up.                                       *)
Steps == {"idle", "claimed", "check", "append", "deliver", "mark"}
TypeOK ==
    /\ taken \in 0..MaxMsgs
    /\ row \in [Msgs -> {"none", "queued", "applied"}]
    /\ at \in [step : Steps, msg : Msgs \cup {None}, run : Runs \cup {None}]
    /\ at.step # "idle" => at.msg \in Msgs
    /\ at.step \in {"append", "deliver"} => at.run \in Runs
    /\ todo \subseteq Msgs
    /\ pc \in [Runs -> {"none", "pool", "live", "status", "last", "released", "gone"}]
    /\ carries \in [Runs -> Msgs \cup {None}]
    /\ durable \in [Runs -> BOOLEAN]
    /\ worker \in [Runs -> {"starting", "known", "ended"}]
    /\ pending \in [Runs -> Seq(Msgs)] /\ got \in [Runs -> Seq(Msgs)]
    /\ deliver \in [Deliverers -> [step : {"off", "look", "call"}, msg : Msgs \cup {None},
                                   run : Runs \cup {None}]]
    /\ mark \in Runs \cup {None}
    /\ origin \in BOOLEAN
    /\ steered \subseteq 1..taken /\ late \subseteq steered
    /\ reported \subseteq steered /\ told \subseteq 1..taken
    /\ unmarked \subseteq 1..taken
    /\ faults \in 0..MaxFaults /\ crashes \in 0..MaxCrashes

(* OneRun: "Never mint a sibling write" (listen.py:1299): two runs of one   *)
(* thread are never at work or on their way to it at the same time, whether *)
(* the orchestrator, the pool or the origin mark knows of the first one.    *)
Alive(r) == pc[r] \in {"pool", "live", "status", "last"}
OneRun == \A q, r \in Runs : Alive(q) /\ Alive(r) => q = r

(* TakenOnce: in the life of one host a follow-up is steered into a worker  *)
(* or cooked as a run of its own, never both and never twice; one whose row *)
(* cannot be marked is taken again.                                         *)
Carriers(m) == {r \in Runs : carries[r] = m}
TakenOnce ==
    crashes = 0 =>
        \A m \in Msgs \ unmarked :
            Cardinality(Carriers(m)) + (IF m \in steered THEN 1 ELSE 0) <= 1

(* LostOnlyLate: in the life of one host a claimed follow-up is always      *)
(* somewhere a user can find it: in the queue, with a worker, in a run of   *)
(* its own, named in a receipt or refused aloud.  The one way to lose it is *)
(* a steer that finds the run live and appends after its last look.         *)
Delivered(m) == \E r \in Runs : m \in Range(got[r])
Waiting(m)   == \E r \in Runs : pc[r] \in {"live", "status"} /\ m \in Range(pending[r])
LostOnlyLate ==
    crashes = 0 =>
        \A m \in 1..taken :
            \/ at.msg = m \/ row[m] = "queued" \/ Carriers(m) # {}
            \/ Waiting(m) \/ Delivered(m)
            \/ m \in reported \cup told \cup late

(* NoneQueued: a queued follow-up is taken in the end, over crashes and     *)
(* however long its thread stays busy.                                      *)
NoneQueued == \A m \in Msgs : row[m] # "queued"
=============================================================================
