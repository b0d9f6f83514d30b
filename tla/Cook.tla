--------------------------------- MODULE Cook ---------------------------------
(***************************************************************************)
(* One run at work: the cook thread of the orchestrator                    *)
(* (orchestration/orchestrator.py, run_task), the agentic backend that     *)
(* starts and reads the worker process (puppetmaster/agentic.py,           *)
(* puppetmaster/backend.py), the Cancel button on the gateway thread       *)
(* (_cancel_live_cook, cancel_honesty.terminate_process_group) and the     *)
(* reap of local orphans when the host starts again.                       *)
(*                                                                         *)
(* Steps of the cook thread (pc):                                          *)
(*   "created"    the run has a row, its card is not painted               *)
(*   "carded"     the card with Cancel is up, nothing is spawned           *)
(*   "open"       stream() or dispatch() was entered                       *)
(*   "spawned"    Popen returned                                           *)
(*   "listed"     the child is in _children, its sidecar is not written    *)
(*   "read"       waits for the next event, or for the child to end        *)
(*   "event"      the orchestrator handles the event it was given          *)
(*   "last"       the events are over, the cancel flag is read once more   *)
(*   "close"      the finally block of the backend                         *)
(*   "answer"     dispatch() makes its result                              *)
(*   "result"     the orchestrator has the events and makes the result     *)
(*   "backoff"    sleeps before the retry of a rate-limited run            *)
(*   "settle"     compares the result with a Cancel                        *)
(*   "write", "mark", "paint", "release"   row, _run_status, card, thread  *)
(*   "crash", "unwind"                     _settle_crashed_run             *)
(*   "gone"       the thread is back in the pool                           *)
(*   "down", "boot", "booted"              the host died and starts again  *)
(***************************************************************************)
EXTENDS Naturals, FiniteSets

CONSTANTS
    Shapes,      \* of {"stream", "swarm"}: one worker, or one per role
    Roles,       \* dispatches of a swarm: its roles and the implement hand-over
    MaxTaps,     \* bound of the model: Cancel taps
    MaxRaises,   \* bound of the model: files, rows and posts that fail
    MaxCrashes   \* bound of the model: host deaths

VARIABLES
    shape,       \* swarm_worker_count: which of the two ways the run cooks
    pc,          \* the cook thread
    turn,        \* stream() and dispatch() calls so far
    worker,      \* the newest process, the leader of its group: "none", "alive", or
                 \* how it ended; what it leaves behind in its group nobody looks for
    child,       \* the call whose process _children[run_id] holds, 0 for none
    sidecar,     \* the newest worker's pid file is on disk
    requested,   \* run_id \in _cancel_requested
    backend,     \* backend._statuses[run_id]
    event,       \* what stream() yielded last
    result,      \* DispatchResult.status
    mark,        \* orchestrator._run_status[run_id]
    row,         \* runs.status
    card,        \* what the run's card shows
    tap,         \* the gateway thread inside _cancel_live_cook
    taps, raises, crashes,
    history      \* which of the excused things have happened

vars == <<shape, pc, turn, worker, child, sidecar, requested, backend, event,
          result, mark, row, card, tap, taps, raises, crashes, history>>

procVars   == <<turn, worker, child, sidecar>>
statusVars == <<mark, row, card>>
tapVars    == <<tap, taps>>
faultVars  == <<raises, crashes>>

-----------------------------------------------------------------------------
Final  == {"completed", "failed", "cancelled"}
Ended  == {"ok", "bad", "limit", "killed"}
NoTap  == [step |-> "off", found |-> 0]
HostUp == pc \notin {"down", "boot", "booted"}
Retry  == shape = "stream" /\ turn = 2
Blocks == shape = "swarm" \/ Retry       \* dispatch(), not stream()

\* What the exit of a worker says of its run.
Outcome(w) == IF w = "ok" THEN "completed" ELSE "failed"

Goto(step) == pc' = step
Note(what) == history' = history \cup {what}

Init ==
    /\ shape \in Shapes
    /\ pc = "created" /\ turn = 0 /\ worker = "none" /\ child = 0
    /\ sidecar = FALSE /\ requested = FALSE
    /\ backend = "pending" /\ event = "none" /\ result = "none"
    /\ mark = "running" /\ row = "running" /\ card = "none"
    /\ tap = NoTap /\ taps = 0 /\ raises = 0 /\ crashes = 0
    /\ history = {}

-----------------------------------------------------------------------------
(* The orchestrator before the worker.                                     *)

\* The thread is bound, _LiveCard paints "On it." with its Cancel button.
PaintStart ==
    /\ pc = "created"
    /\ card' = "working"
    /\ Goto("carded")
    /\ UNCHANGED <<shape, procVars, requested, backend, event, result, mark, row, tapVars,
                   faultVars, history>>

\* Discord gives no thread: the run fails closed.
ThreadFails ==
    /\ pc = "created"
    /\ row' = "failed" /\ mark' = "failed" /\ card' = "failed"
    /\ Goto("gone")
    /\ UNCHANGED <<shape, procVars, requested, backend, event, result, tapVars, faultVars,
                   history>>

\* _close_without_worker: the host's own report, or a host that is not allowed.
CloseWithoutWorker ==
    /\ pc = "carded"
    /\ row' = "completed" /\ mark' = "completed" /\ card' = "completed"
    /\ Goto("gone")
    /\ UNCHANGED <<shape, procVars, requested, backend, event, result, tapVars, faultVars,
                   history>>

\* stream(request) or dispatch(request): the backend's own status is set first.
Open ==
    /\ pc = "carded"
    /\ turn' = 1
    /\ backend' = IF shape = "stream" THEN "running" ELSE backend
    /\ Goto("open")
    /\ UNCHANGED <<shape, worker, child, sidecar, requested, event, result, statusVars,
                   tapVars, faultVars, history>>

\* No CLI, no adapter, or Popen raises: an ERROR event or a FAILED result, and
\* no finally block, so a cancel flag set before stays set.
SpawnFails ==
    /\ pc = "open"
    /\ event' = "error" /\ result' = "failed"
    /\ backend' = IF shape = "stream" THEN "failed" ELSE backend
    /\ mark' = IF Retry THEN "failed" ELSE mark
    /\ Goto(CASE shape = "swarm" -> "answer" [] Retry -> "settle" [] OTHER -> "result")
    /\ UNCHANGED <<shape, procVars, requested, row, card, tapVars, faultVars, history>>

\* _spawn_agentic_popen
Spawn ==
    /\ pc = "open"
    /\ worker' = "alive" /\ sidecar' = FALSE
    /\ event' = "none"
    /\ Goto("spawned")
    /\ UNCHANGED <<shape, turn, child, requested, backend, result, statusVars, tapVars,
                   faultVars, history>>

\* Under _child_lock.  A swarm lists its children under ids of their own.
Register ==
    /\ pc = "spawned"
    /\ child' = IF shape = "stream" THEN turn ELSE 0
    /\ Goto("listed")
    /\ UNCHANGED <<shape, turn, worker, sidecar, requested, backend, event, result,
                   statusVars, tapVars, faultVars, history>>

\* Mutant of WriteSidecar: only the first worker gets a pid file.
WriteFirstSidecar ==
    /\ pc = "listed"
    /\ sidecar' = (turn = 1)
    /\ Goto("read")
    /\ UNCHANGED <<shape, turn, worker, child, requested, backend, event, result, statusVars,
                   tapVars, faultVars, history>>

\* _write_pid_sidecar
WriteSidecar ==
    /\ pc = "listed"
    /\ sidecar' = TRUE
    /\ Goto("read")
    /\ UNCHANGED <<shape, turn, worker, child, requested, backend, event, result, statusVars,
                   tapVars, faultVars, history>>

\* The file cannot be written, and the failure is swallowed.
WriteSidecarFails ==
    /\ pc = "listed"
    /\ raises < MaxRaises
    /\ raises' = raises + 1
    /\ Note("unfiled")
    /\ Goto("read")
    /\ UNCHANGED <<shape, procVars, requested, backend, event, result, statusVars, tapVars,
                   crashes>>

-----------------------------------------------------------------------------
(* The worker and its events.                                              *)

\* The process ends by itself; "limit" is an exit the provider's 429 caused.
WorkerEnds ==
    /\ worker = "alive"
    /\ \E how \in {"ok", "bad", "limit"} : worker' = how
    /\ UNCHANGED <<shape, pc, turn, child, sidecar, requested, backend, event, result,
                   statusVars, tapVars, faultVars, history>>

\* _note_job_id: the worker names its job, and its file is written again.
NoteJobId ==
    /\ pc = "read" /\ ~Blocks
    /\ event \in {"none", "progress"} /\ ~sidecar
    /\ sidecar' = TRUE
    /\ UNCHANGED <<shape, pc, turn, worker, child, requested, backend, event, result,
                   statusVars, tapVars, faultVars, history>>

\* terminate_process_group, where its answer is thrown away: it polls the leader
\* alone, does nothing when that is dead, and may not kill it.
Terminate(notes) ==
    \/ /\ worker' = IF worker = "alive" THEN "killed" ELSE worker
       /\ history' = history \cup notes
    \/ /\ worker = "alive" /\ UNCHANGED worker
       /\ history' = history \cup notes \cup {"survived"}

\* An event that is yielded: the cancel flag is read, then the status is set.
Yield(kind) ==
    IF requested
    THEN backend' = "cancelled" /\ event' = "cancel"
    ELSE /\ backend' = CASE kind = "progress" -> backend
                         [] kind = "receipt"  -> "completed"
                         [] OTHER             -> "failed"
         /\ event' = kind

\* iter_cli_process_events gives a line of output.
NextLine ==
    /\ pc = "read" /\ ~Blocks
    /\ event \in {"none", "progress"}
    /\ Yield("progress")
    /\ Goto("event")
    /\ UNCHANGED <<shape, procVars, requested, result, statusVars, tapVars, faultVars, history>>

\* EOF of a worker that has ended: the last event is made of its exit.
LastEvent ==
    /\ pc = "read" /\ ~Blocks
    /\ worker \in Ended /\ event \in {"none", "progress"}
    /\ Yield(CASE worker = "ok" -> "receipt" [] worker = "limit" -> "limit" [] OTHER -> "error")
    /\ Goto("event")
    /\ UNCHANGED <<shape, procVars, requested, result, statusVars, tapVars, faultVars, history>>

DeadlineNever == FALSE /\ UNCHANGED vars

\* timeout_seconds are over, be it that the leader has ended and another process
\* holds its pipes: an ERROR is yielded.
Deadline ==
    /\ pc = "read" /\ ~Blocks
    /\ event \in {"none", "progress"}
    /\ Terminate({})
    /\ Yield("error")
    /\ Goto("event")
    /\ UNCHANGED <<shape, turn, child, sidecar, requested, result, statusVars, tapVars,
                   faultVars>>

\* The event loop of _run_task; a progress event repaints the card.
Handle ==
    /\ pc = "event"
    /\ mark' = IF event = "cancel" THEN "cancelled" ELSE mark
    /\ card' = IF event = "progress" THEN "working" ELSE card
    /\ Goto(CASE event = "progress" -> "read" [] event = "cancel" -> "close" [] OTHER -> "last")
    /\ UNCHANGED <<shape, procVars, requested, backend, event, result, row, tapVars, faultVars,
                   history>>

\* Mutant of LastLook: the flag is not read again.
LastLookSkipped ==
    /\ pc = "last"
    /\ Goto("close")
    /\ UNCHANGED <<shape, procVars, requested, backend, event, result, statusVars, tapVars,
                   faultVars, history>>

\* After the last event stream() reads the flag once more and, if it is set,
\* yields CANCEL_REQUESTED.
LastLook ==
    /\ pc = "last"
    /\ IF requested
       THEN backend' = "cancelled" /\ event' = "cancel" /\ mark' = "cancelled"
       ELSE UNCHANGED <<backend, event, mark>>
    /\ Goto("close")
    /\ UNCHANGED <<shape, procVars, requested, result, row, card, tapVars, faultVars, history>>

\* dispatch() waits in communicate(); past its timeout it terminates the worker
\* and returns FAILED, whatever became of it and whatever the cancel flag says.
Communicate ==
    /\ pc = "read" /\ Blocks
    /\ \/ /\ worker # "alive"
          /\ result' = Outcome(worker) /\ UNCHANGED <<worker, event, history>>
       \/ /\ Terminate(IF tap.step = "off" THEN {} ELSE {"late"})
          /\ event' = "timeout" /\ result' = "failed"
    /\ Goto("close")
    /\ UNCHANGED <<shape, turn, child, sidecar, requested, backend, statusVars, tapVars,
                   faultVars>>

\* clear_local_pid_sidecar: a file that cannot be removed stays.
ClearSidecar ==
    \/ sidecar' = FALSE /\ UNCHANGED raises
    \/ raises < MaxRaises /\ raises' = raises + 1 /\ UNCHANGED sidecar

\* _unregister_child and the rest of the finally block.
Close ==
    /\ pc = "close"
    /\ child' = 0 /\ ClearSidecar
    /\ requested' = (requested /\ Blocks)
    /\ Goto(IF Blocks THEN "answer" ELSE "result")
    /\ UNCHANGED <<shape, turn, worker, backend, event, result, statusVars, tapVars,
                   crashes, history>>

\* dispatch() after its finally block, for the retry of a run.
AnswerRetry ==
    /\ pc = "answer" /\ Retry
    /\ result' = IF requested /\ event # "timeout" THEN "cancelled" ELSE result
    /\ backend' = result' /\ mark' = result'
    /\ requested' = (requested /\ event = "timeout")
    /\ Goto("settle")
    /\ UNCHANGED <<shape, procVars, event, row, card, tapVars, faultVars, history>>

\* dispatch_swarm goes on to its next role whatever this one answered; only
\* the implement hand-over decides the status of the run.
AnswerRole ==
    /\ pc = "answer" /\ shape = "swarm"
    /\ IF turn < Roles
       THEN turn' = turn + 1 /\ Goto("open") /\ UNCHANGED result
       ELSE /\ \E status \in {"completed", result} : result' = status
            /\ Goto("write") /\ UNCHANGED turn
    /\ UNCHANGED <<shape, worker, child, sidecar, requested, backend, event, statusVars,
                   tapVars, faultVars, history>>

-----------------------------------------------------------------------------
(* The orchestrator after the worker.                                      *)

\* The DispatchResult of a stream is what the backend says of the run; an
\* answer can be salvaged from a failed one.
MakeResult ==
    /\ pc = "result"
    /\ \E status \in {backend} \cup (IF backend = "failed" THEN {"completed"} ELSE {}) :
         result' = status /\ mark' = status
    /\ Goto(IF result' = "failed" /\ event = "limit" THEN "backoff" ELSE "settle")
    /\ UNCHANGED <<shape, procVars, requested, backend, event, row, card, tapVars, faultVars,
                   history>>

\* _sleep_retry, then dispatch() of the same run.
RetryDispatch ==
    /\ pc = "backoff"
    /\ turn' = turn + 1
    /\ backend' = "running"
    /\ Goto("open")
    /\ UNCHANGED <<shape, worker, child, sidecar, requested, event, result, statusVars,
                   tapVars, faultVars, history>>

\* A provider failure in the answer fails the run, a Cancel wins over both.
Settle ==
    /\ pc = "settle"
    /\ IF "cancelled" \in {mark, backend}
       THEN result' = "cancelled"
       ELSE \E status \in {result, "failed"} : result' = status
    /\ Goto("write")
    /\ UNCHANGED <<shape, procVars, requested, backend, event, statusVars, tapVars, faultVars,
                   history>>

WriteRow ==
    /\ pc = "write"
    /\ row' = result
    /\ Goto("mark")
    /\ UNCHANGED <<shape, procVars, requested, backend, event, result, mark, card, tapVars,
                   faultVars, history>>

MarkRun ==
    /\ pc = "mark"
    /\ mark' = result
    /\ Goto("paint")
    /\ UNCHANGED <<shape, procVars, requested, backend, event, result, row, card, tapVars,
                   faultVars, history>>

\* live.finish(card)
PaintReceipt ==
    /\ pc = "paint"
    /\ card' = result
    /\ Goto("release")
    /\ UNCHANGED <<shape, procVars, requested, backend, event, result, mark, row, tapVars,
                   faultVars, history>>

\* Discord takes neither the edit nor a new card, which is swallowed.
ReceiptLost ==
    /\ pc = "paint"
    /\ raises < MaxRaises
    /\ raises' = raises + 1
    /\ Note("unpainted")
    /\ Goto("release")
    /\ UNCHANGED <<shape, procVars, requested, backend, event, result, statusVars, tapVars,
                   crashes>>

\* _release_live_thread; the job's lock and slot go with the thread.
Release ==
    /\ pc = "release"
    /\ Goto("gone")
    /\ UNCHANGED <<shape, procVars, requested, backend, event, result, statusVars, tapVars,
                   faultVars, history>>

\* A store or Discord call of the cook thread raises.
Raise ==
    /\ raises < MaxRaises
    /\ pc \in {"created", "carded", "event", "result", "settle", "write", "paint"}
    /\ raises' = raises + 1
    /\ Goto("crash")
    /\ Note(CASE pc = "event" -> "broken" [] pc = "paint" -> "unpainted" [] OTHER -> "raised")
    /\ UNCHANGED <<shape, procVars, requested, backend, event, result, statusVars, tapVars,
                   crashes>>

\* _settle_crashed_run: a run that has a final row keeps it, and its card.
SettleCrashed ==
    /\ pc = "crash"
    /\ IF row \in Final
       THEN UNCHANGED statusVars
       ELSE row' = "failed" /\ mark' = "failed"
            /\ card' = IF card = "none" THEN card ELSE "failed"
    /\ Goto("unwind")
    /\ UNCHANGED <<shape, procVars, requested, backend, event, result, tapVars, faultVars,
                   history>>

\* The store or Discord is still failing: the row or the card that cannot be
\* written is swallowed, a row that cannot be read raises.
SettleLoses ==
    /\ pc = "crash" /\ row \notin Final
    /\ \E lost \in SUBSET {"unwritten", "unpainted"} :
          /\ lost # {}
          /\ history' = history \cup lost
          /\ row' = IF "unwritten" \in lost THEN row ELSE "failed"
          /\ card' = IF "unpainted" \in lost \/ card = "none" THEN card ELSE "failed"
          /\ mark' = "failed" \/ (Cardinality(lost) = 2 /\ mark' = mark)
    /\ Goto("unwind")
    /\ UNCHANGED <<shape, procVars, requested, backend, event, result, tapVars, faultVars>>

\* The exception is gone and with it the generator: its finally block runs.
Unwind ==
    /\ pc = "unwind"
    /\ requested' = (requested /\ child = 0)
    /\ child' = 0 /\ ClearSidecar
    /\ Goto("gone")
    /\ UNCHANGED <<shape, turn, worker, backend, event, result, statusVars, tapVars,
                   crashes, history>>

-----------------------------------------------------------------------------
(* Cancel, on the gateway thread.                                          *)

TapGoto(step) == tap' = [tap EXCEPT !.step = step]

\* The button is on the card while it shows the run at work.  Under the lock
\* the request is noted and the child looked up.
CancelTap ==
    /\ tap.step = "off" /\ taps < MaxTaps /\ HostUp
    /\ card = "working"
    /\ taps' = taps + 1
    /\ requested' = TRUE
    /\ tap' = [step |-> IF child = 0 THEN "unsure" ELSE "kill", found |-> child]
    /\ Note(IF child = 0 THEN "early" ELSE IF pc = "close" THEN "late" ELSE "timely")
    /\ UNCHANGED <<shape, pc, procVars, backend, event, result, statusVars, faultVars>>

\* terminate_process_group says True: the leader is dead, by this signal or
\* before it, and cancel() takes that for the group.
CancelKills ==
    /\ tap.step = "kill"
    /\ worker' = IF tap.found = turn /\ worker = "alive" THEN "killed" ELSE worker
    /\ TapGoto("note")
    /\ UNCHANGED <<shape, pc, turn, child, sidecar, requested, backend, event, result,
                   statusVars, taps, faultVars, history>>

\* The leader survives SIGKILL for longer than cancel() waits.
CancelMisses ==
    /\ tap.step = "kill"
    /\ tap.found = turn /\ worker = "alive"
    /\ TapGoto("unsure")
    /\ Note("missed")
    /\ UNCHANGED <<shape, pc, procVars, requested, backend, event, result, statusVars, taps,
                   faultVars>>

\* "Cancel unconfirmed" is spoken; run and card are left alone.
CancelUnconfirmed ==
    /\ tap.step = "unsure"
    /\ tap' = NoTap
    /\ UNCHANGED <<shape, pc, procVars, requested, backend, event, result, statusVars, taps,
                   faultVars, history>>

\* cancel() sets the backend's status and returns True.
CancelNoted ==
    /\ tap.step = "note"
    /\ backend' = "cancelled"
    /\ TapGoto("mark")
    /\ UNCHANGED <<shape, pc, procVars, requested, event, result, statusVars, taps, faultVars,
                   history>>

CancelMarks ==
    /\ tap.step = "mark"
    /\ mark' = "cancelled"
    /\ TapGoto("row")
    /\ UNCHANGED <<shape, pc, procVars, requested, backend, event, result, row, card, taps,
                   faultVars, history>>

CancelWritesRow ==
    /\ tap.step = "row"
    /\ row' = "cancelled"
    /\ TapGoto("paint")
    /\ UNCHANGED <<shape, pc, procVars, requested, backend, event, result, mark, card, taps,
                   faultVars, history>>

\* _paint_cancel_outcome
CancelPaints ==
    /\ tap.step = "paint"
    /\ card' = "cancelled"
    /\ tap' = NoTap
    /\ UNCHANGED <<shape, pc, procVars, requested, backend, event, result, mark, row, taps,
                   faultVars, history>>

\* The row cannot be written, and the card is painted all the same; or what is
\* read for the card, or the card itself, fails.
CancelLoses ==
    /\ raises < MaxRaises
    /\ raises' = raises + 1
    /\ \/ tap.step = "row" /\ TapGoto("paint")
       \/ tap.step = "paint" /\ tap' = NoTap
    /\ UNCHANGED <<shape, pc, procVars, requested, backend, event, result, statusVars, taps,
                   crashes, history>>

-----------------------------------------------------------------------------
(* The host dies; cmd_listen starts again.                                 *)

HostDies ==
    /\ crashes < MaxCrashes /\ HostUp
    /\ crashes' = crashes + 1
    /\ Goto("down")
    /\ child' = 0 /\ requested' = FALSE /\ tap' = NoTap
    /\ IF pc \in {"spawned", "listed"} \/ tap.step = "kill" THEN Note("unrecorded") ELSE UNCHANGED history
    /\ UNCHANGED <<shape, turn, worker, sidecar, backend, event, result, statusVars, taps,
                   raises>>

\* fail_stale_runs
FailStale ==
    /\ pc = "down"
    /\ row' = IF row = "running" THEN "failed" ELSE row
    /\ Goto("boot")
    /\ UNCHANGED <<shape, procVars, requested, backend, event, result, mark, card, tapVars,
                   faultVars, history>>

\* reap_orphaned_local_pids: a recorded group is killed, its file removed.
ReapOrphans ==
    /\ pc = "boot"
    /\ worker' = IF sidecar /\ worker = "alive" THEN "killed" ELSE worker
    /\ sidecar' = FALSE
    /\ Goto("booted")
    /\ UNCHANGED <<shape, turn, child, requested, backend, event, result, statusVars,
                   tapVars, faultVars, history>>

\* The file is removed and nobody is signalled: it is too old or cannot be read, ps
\* does not answer or shows another start time, or the group survives.
SpareOrphan ==
    /\ pc = "boot"
    /\ sidecar /\ worker = "alive"
    /\ sidecar' = FALSE
    /\ Note("spared")
    /\ Goto("booted")
    /\ UNCHANGED <<shape, turn, worker, child, requested, backend, event, result, statusVars,
                   tapVars, faultVars>>

-----------------------------------------------------------------------------
CookStep ==
    \/ PaintStart \/ ThreadFails \/ CloseWithoutWorker \/ Open \/ SpawnFails \/ Spawn
    \/ Register \/ WriteSidecar
    \/ LastEvent \/ Deadline \/ Handle \/ LastLook \/ Communicate
    \/ Close \/ AnswerRetry \/ AnswerRole \/ MakeResult \/ RetryDispatch \/ Settle
    \/ WriteRow \/ MarkRun \/ PaintReceipt \/ Release
    \/ SettleCrashed \/ Unwind \/ FailStale \/ ReapOrphans

TapStep ==
    \/ CancelKills \/ CancelMisses \/ CancelUnconfirmed \/ CancelNoted
    \/ CancelMarks \/ CancelWritesRow \/ CancelPaints

\* What fails on the way.
FaultStep ==
    \/ Raise \/ WriteSidecarFails \/ ReceiptLost \/ SettleLoses \/ CancelLoses
    \/ SpareOrphan \/ HostDies

Next ==
    \/ CookStep \/ TapStep
    \/ NextLine \/ NoteJobId \/ WorkerEnds \/ CancelTap \/ FaultStep

Spec == Init /\ [][Next]_vars

(* The threads run; the deadline is looked at on every turn of the read    *)
(* loop, however many lines the worker prints in between.                  *)
Fairness ==
    /\ WF_vars(CookStep) /\ WF_vars(TapStep)
    /\ SF_vars(Deadline \/ LastEvent)

FairSpec == Spec /\ Fairness

-----------------------------------------------------------------------------
(* TypeOK: process, statuses and threads are of their kinds; only a stream  *)
(* lists its child under the run's id, and only while it reads it.          *)
Statuses == {"running", "completed", "failed", "cancelled"}
TypeOK ==
    /\ shape \in Shapes
    /\ turn \in 0..(Roles + 2)
    /\ worker \in {"none", "alive"} \cup Ended
    /\ child \in 0..turn /\ (child # 0 => shape = "stream")
    /\ sidecar \in BOOLEAN /\ requested \in BOOLEAN
    /\ backend \in Statuses \cup {"pending"}
    /\ event \in {"none", "progress", "receipt", "error", "limit", "cancel", "timeout"}
    /\ result \in Statuses \cup {"none"}
    /\ mark \in Statuses /\ row \in Statuses
    /\ card \in {"none", "working"} \cup Final
    /\ tap.step \in {"off", "unsure", "kill", "note", "mark", "row", "paint"}
    /\ tap.found \in 0..turn
    /\ taps \in 0..MaxTaps /\ raises \in 0..MaxRaises /\ crashes \in 0..MaxCrashes

(* StoppedWhenSettled: when the cook thread has given its job back, and     *)
(* with it the write lock of the checkout, and no Cancel is still at its    *)
(* kill, the worker (the leader of its group) is no longer there.           *)
(* Excused are the ways the code does leave one behind: a Cancel that was   *)
(* not confirmed (its flag ends the stream all the same), an exception of   *)
(* the orchestrator while it read the stream, and a worker that survived    *)
(* the kill at its deadline, whose answer nobody reads.                     *)
LeftBehind == {"early", "missed", "broken", "survived"}
StoppedWhenSettled ==
    /\ pc = "gone" /\ tap.step = "off" /\ history \cap LeftBehind = {}
    => worker # "alive"

(* OneStory: at rest the run's row, the orchestrator's mark and the card    *)
(* say the same of it, however a Cancel met the end of the worker.  Excused *)
(* are a Cancel after the backend's last look or beside the deadline of a   *)
(* retry, a row or a card of a crashed run that could not be written, and a *)
(* failing call beside a Cancel.                                            *)
OneStory ==
    /\ pc = "gone" /\ tap.step = "off" /\ (raises = 0 \/ taps = 0)
    /\ history \cap {"late", "unpainted", "unwritten"} = {}
    => mark = row /\ card \in {row, "none"}

(* OrphanReaped: after a restart no worker of the dead host is alive: a pid *)
(* file covers every worker, the retry's and each role's, from its listing  *)
(* to its end.  Excused are a host that died between Popen and the file, or *)
(* during the kill of a Cancel, a file that could not be written, an orphan *)
(* the reap does not kill, and the workers of StoppedWhenSettled.           *)
OrphanReaped ==
    pc = "booted" /\ history \cap (LeftBehind \cup {"unrecorded", "unfiled", "spared"}) = {}
    => worker # "alive"

(* RunEnded: in the end every run leaves its thread, hung worker or not,    *)
(* unless the host dies; then it has a final row when the host is up again. *)
(* (The row of a crashed run that could not be written waits for that.)     *)
RunEnded ==
    /\ pc \in {"gone", "booted"}
    /\ row # "running" \/ (pc = "gone" /\ "unwritten" \in history)
=============================================================================
