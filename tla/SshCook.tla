------------------------------- MODULE SshCook -------------------------------
(***************************************************************************)
(* A run cooked on another machine over SSH (host/remote_cook.py), with    *)
(* DISCORD_OS_SSH_GATES=bridge: the remote worker's tool calls hold on a   *)
(* queue of their own, their markers come over the progress pipe, are      *)
(* mirrored into this host's gate queue, and the phone's answers are       *)
(* written back over SSH (orchestration/ssh_gate.py).  GateHold is the     *)
(* host's queue: here its answers just come.                               *)
(*                                                                         *)
(* Who acts: the cook thread (pc), the gateway thread in Cancel (tap), the *)
(* remote worker, the network, and the next SSH cook of the host, which    *)
(* reaps what pid files are on record.                                     *)
(*                                                                         *)
(*   "start" -> "armed" -> "spawned" -> "drain" <-> "mirror", "flush"      *)
(*   -> "last" -> "look" -> "close" -> "gone";  "down" the host is dead,   *)
(*   "next" it runs again.                                                 *)
(***************************************************************************)
EXTENDS Naturals, FiniteSets

CONSTANTS
    Reqs,        \* gate requests of the remote worker
    MaxAnswers,  \* bound of the model: answers the host's queue files
    MaxFaults,   \* bound of the model: SSH calls that fail, links that drop
    MaxCrashes,  \* bound of the model: host deaths
    None         \* no answer, no request

\* What the theorems assume of the constants.
ConstantsOK ==
    /\ IsFiniteSet(Reqs) /\ None \notin Reqs \cup {"allow", "deny"}
    /\ {MaxAnswers, MaxFaults, MaxCrashes} \subseteq Nat

VARIABLES
    bridge,      \* ssh_gates_cross(): the live bridge, or the deny-only gap
    pc,          \* the cook thread
    ssh,         \* the local ssh child: "none", "up", "gone"
    remote,      \* the remote worker: "none", "alive", "ended", "killed"
    hold,        \* remote: each request, as GateQueue has it
    sent,        \* remote results/<request>.json
    pipe,        \* lines on their way: <<"pid" or a request, copy>>
    line,        \* the request whose marker is handled
    listed,      \* run_id \in _children
    pid,         \* run_id \in _remote_pids
    sidecar,     \* the pid file: "none", "fresh" (30 s), "old"
    known,       \* _bridge_pending
    mirrored,    \* requests in the host's own gate queue
    answer,      \* the host's results/<request>.json
    written,     \* _bridge_written
    push,        \* flush_bridge_writebacks of the two threads
    requested,   \* run_id \in _cancel_requested
    status,      \* _statuses[run_id]
    tap,         \* the gateway thread inside cancel()
    answers, faults, crashes,
    history      \* consents so far, the Cancel, and what excuses what

vars == <<bridge, pc, ssh, remote, hold, sent, pipe, line, listed, pid, sidecar, known,
          mirrored, answer, written, push, requested, status, tap, answers, faults,
          crashes, history>>

remoteVars == <<ssh, remote, hold, sent, pipe>>
childVars  == <<listed, pid, sidecar>>
queueVars  == <<known, mirrored, answer, written, answers>>
boundVars  == <<faults, crashes>>

-----------------------------------------------------------------------------
Threads == {"cook", "cancel"}
NoPush  == [step |-> "idle", todo |-> {}, done |-> {}, req |-> None, held |-> None]
Lines(r) == {<<r, copy>> : copy \in 1..2}   \* a marker goes to stdout and stderr
PidLine  == <<"pid", 1>>                    \* so does the pid, to the same effect
HostUp  == pc # "down"

\* From here on the worker need not be on record (see Recorded).
Excuse == history' = [history EXCEPT !.record = "excused"]

\* Killing the worker's process group ends every hold it is in.
KillRemote ==
    /\ remote' = "killed"
    /\ hold' = [r \in Reqs |-> IF hold[r] = "held" THEN "gone" ELSE hold[r]]

SshFails == faults < MaxFaults /\ faults' = faults + 1

Init ==
    /\ bridge \in BOOLEAN
    /\ pc = "start" /\ ssh = "none" /\ remote = "none"
    /\ hold = [r \in Reqs |-> "none"] /\ sent = [r \in Reqs |-> None]
    /\ pipe = {} /\ line = None
    /\ listed = FALSE /\ pid = FALSE /\ sidecar = "none"
    /\ known = {} /\ mirrored = {} /\ answer = [r \in Reqs |-> None] /\ written = {}
    /\ push = [t \in Threads |-> NoPush]
    /\ requested = FALSE /\ status = "running" /\ tap = "off"
    /\ answers = 0 /\ faults = 0 /\ crashes = 0
    /\ history = [consents |-> {}, cancelled |-> FALSE, raced |-> FALSE, record |-> "none"]

-----------------------------------------------------------------------------
(* The cook thread: stream().                                              *)

\* preflight, hand-over too large, or the bridge cannot be armed: no ungated cook.
Refuse ==
    /\ pc = "start"
    /\ status' = "failed" /\ pc' = "gone"
    /\ UNCHANGED <<bridge, remoteVars, line, childVars, queueVars, push, requested, tap,
                   boundVars, history>>

Arm ==
    /\ pc = "start"
    /\ pc' = "armed"
    /\ UNCHANGED <<bridge, remoteVars, line, childVars, queueVars, push, requested, status,
                   tap, boundVars, history>>

\* The remote shell prints its pid on both pipes before the worker starts.
SpawnSsh ==
    /\ pc = "armed"
    /\ ssh' = "up" /\ remote' = "alive"
    /\ pipe' = {PidLine}
    /\ pc' = "spawned"
    /\ UNCHANGED <<bridge, hold, sent, line, childVars, queueVars, push, requested, status, tap,
                   boundVars, history>>

RegisterChild ==
    /\ pc = "spawned"
    /\ listed' = TRUE
    /\ pc' = "drain"
    /\ UNCHANGED <<bridge, remoteVars, line, pid, sidecar, queueVars, push, requested, status,
                   tap, boundVars, history>>

\* _note_remote_pid: the pid is kept and put on file.
TakePid ==
    /\ pc = "drain"
    /\ PidLine \in pipe /\ pipe' = pipe \ {PidLine}
    /\ pid' = TRUE /\ sidecar' = "fresh"
    /\ history' = [history EXCEPT !.record = IF @ = "none" THEN "owed" ELSE @]
    /\ UNCHANGED <<bridge, pc, ssh, remote, hold, sent, line, listed, queueVars, push, requested,
                   status, tap, boundVars>>

\* _note_bridge_pending, also of a run that is being cancelled.
TakeMarker ==
    /\ pc = "drain"
    /\ \E l \in pipe \ {PidLine} :
         /\ pipe' = pipe \ {l}
         /\ line' = l[1]
         /\ known' = known \cup {l[1]}
    /\ pc' = "mirror"
    /\ UNCHANGED <<bridge, ssh, remote, hold, sent, childVars, mirrored, answer, written,
                   answers, push, requested, status, tap, boundVars, history>>

\* mirror_gate_pending_to_local, then a flush.
Mirror ==
    /\ pc = "mirror"
    /\ mirrored' = mirrored \cup {line}
    /\ line' = None
    /\ pc' = "flush"
    /\ UNCHANGED <<bridge, remoteVars, childVars, known, answer, written, answers, push,
                   requested, status, tap, boundVars, history>>

\* A line of output, or none for 50 ms.
Turn ==
    /\ pc = "drain" /\ ~requested
    /\ known \ written # {}
    /\ pc' = "flush"
    /\ UNCHANGED <<bridge, remoteVars, line, childVars, queueVars, push, requested, status, tap,
                   boundVars, history>>

\* Mutant of FlushBegin: a Cancel does not stop it.
FlushBeginAlways ==
    /\ pc = "flush" /\ push["cook"].step = "idle"
    /\ push' = [push EXCEPT !["cook"] = [NoPush EXCEPT !.step = "each", !.todo = known \ written]]
    /\ pc' = "flushing"
    /\ UNCHANGED <<bridge, remoteVars, line, childVars, queueVars, requested, status, tap,
                   boundVars, history>>

\* _flush_bridge_writebacks: nothing is written once a Cancel is requested.
FlushBegin ==
    /\ pc = "flush"
    /\ IF requested \/ known \ written = {}
       THEN pc' = "drain" /\ UNCHANGED push
       ELSE /\ pc' = "flushing"
            /\ push' = [push EXCEPT !["cook"] =
                           [NoPush EXCEPT !.step = "each", !.todo = known \ written]]
    /\ UNCHANGED <<bridge, remoteVars, line, childVars, queueVars, requested, status, tap,
                   boundVars, history>>

\* The loop is left: a Cancel, the end of the ssh child, or the deadline.
BreakCancelled ==
    /\ pc = "drain" /\ requested
    /\ pc' = "last"
    /\ UNCHANGED <<bridge, remoteVars, line, childVars, queueVars, push, requested, status, tap,
                   boundVars, history>>

BreakEnded ==
    /\ pc = "drain" /\ ssh = "gone" /\ pipe = {}
    /\ pc' = "last"
    /\ UNCHANGED <<bridge, remoteVars, line, childVars, queueVars, push, requested, status, tap,
                   boundVars, history>>

BreakDeadline ==
    /\ pc = "drain" /\ ssh = "up" /\ pipe = {}
    /\ ssh' = "gone"
    /\ Excuse
    /\ pc' = "last"
    /\ UNCHANGED <<bridge, remote, hold, sent, pipe, line, childVars, queueVars, push, requested,
                   status, tap, boundVars>>

\* The last event, and stream()'s look at the cancel flag before and after it.
LastEvent ==
    /\ pc = "last"
    /\ IF requested THEN status' = "cancelled"
       ELSE status' \in IF remote = "ended" THEN {"completed", "failed"} ELSE {"failed"}
    /\ pc' = "look"
    /\ UNCHANGED <<bridge, remoteVars, line, childVars, queueVars, push, requested, tap,
                   boundVars, history>>

LastLook ==
    /\ pc = "look"
    /\ status' = IF requested THEN "cancelled" ELSE status
    /\ pc' = "close"
    /\ UNCHANGED <<bridge, remoteVars, line, childVars, queueVars, push, requested, tap,
                   boundVars, history>>

\* Mutant of Close: the pid file goes with the child.
CloseForgets ==
    /\ pc = "close"
    /\ listed' = FALSE /\ pid' = FALSE /\ sidecar' = "none"
    /\ requested' = FALSE
    /\ pc' = "gone"
    /\ UNCHANGED <<bridge, remoteVars, line, queueVars, push, status, tap, boundVars, history>>

\* _unregister_child: the pid and its file are kept for a Cancel under way.
Close ==
    /\ pc = "close"
    /\ listed' = FALSE
    /\ IF requested THEN UNCHANGED <<pid, sidecar>> ELSE pid' = FALSE /\ sidecar' = "none"
    /\ requested' = FALSE
    /\ pc' = "gone"
    /\ UNCHANGED <<bridge, remoteVars, line, queueVars, push, status, tap, boundVars, history>>

-----------------------------------------------------------------------------
(* flush_bridge_writebacks, on the cook thread or in Cancel.               *)

\* read_result
FlushRead(t) ==
    /\ push[t].step = "each"
    /\ \E r \in push[t].todo :
         IF answer[r] = None
         THEN push' = [push EXCEPT ![t].todo = @ \ {r}]
         ELSE push' = [push EXCEPT ![t].step = "write", ![t].todo = @ \ {r},
                                   ![t].req = r, ![t].held = answer[r]]
    /\ UNCHANGED <<bridge, pc, remoteVars, line, childVars, queueVars, requested, status, tap,
                   boundVars, history>>

\* ssh_write_gate_result
FlushWrite(t) ==
    /\ push[t].step = "write"
    /\ sent' = [sent EXCEPT ![push[t].req] = push[t].held]
    /\ push' = [push EXCEPT ![t].step = "each", ![t].done = @ \cup {push[t].req}]
    /\ UNCHANGED <<bridge, pc, ssh, remote, hold, pipe, line, childVars, queueVars, requested,
                   status, tap, boundVars, history>>

\* Mutant of FlushFails: a write that failed is not tried again.
FlushFailsDone(t) ==
    /\ push[t].step = "write"
    /\ SshFails
    /\ push' = [push EXCEPT ![t].step = "each", ![t].done = @ \cup {push[t].req}]
    /\ UNCHANGED <<bridge, pc, remoteVars, line, childVars, queueVars, requested, status, tap,
                   crashes, history>>

FlushFails(t) ==
    /\ push[t].step = "write"
    /\ SshFails
    /\ push' = [push EXCEPT ![t].step = "each"]
    /\ UNCHANGED <<bridge, pc, remoteVars, line, childVars, queueVars, requested, status, tap,
                   crashes, history>>

FlushEnd(t) ==
    /\ push[t].step = "each" /\ push[t].todo = {}
    /\ written' = written \cup push[t].done
    /\ push' = [push EXCEPT ![t] = NoPush]
    /\ IF t = "cook" THEN pc' = "drain" /\ UNCHANGED tap ELSE tap' = "terminate" /\ UNCHANGED pc
    /\ UNCHANGED <<bridge, remoteVars, line, childVars, known, mirrored, answer, answers,
                   requested, status, boundVars, history>>

-----------------------------------------------------------------------------
(* Cancel, on the gateway thread.                                          *)

CancelTap ==
    /\ tap = "off" /\ HostUp /\ ~history.cancelled
    /\ history' = [history EXCEPT !.cancelled = TRUE, !.raced = (push["cook"] # NoPush)]
    /\ requested' = TRUE
    /\ tap' = IF listed THEN "signal" ELSE "off"     \* no child: "Cancel unconfirmed"
    /\ UNCHANGED <<bridge, pc, remoteVars, line, childVars, queueVars, push, status, boundVars>>

\* ssh_remote_signal, if the pid is known within 0.45 s.
SignalRemote ==
    /\ tap = "signal" /\ pid
    /\ IF remote = "alive" THEN KillRemote ELSE UNCHANGED <<remote, hold>>
    /\ tap' = "deny"
    /\ UNCHANGED <<bridge, pc, ssh, sent, pipe, line, childVars, queueVars, push, requested,
                   status, boundVars, history>>

SignalLost ==
    /\ tap = "signal"
    /\ IF pid THEN SshFails ELSE UNCHANGED faults
    /\ tap' = "deny"
    /\ Excuse
    /\ UNCHANGED <<bridge, pc, remoteVars, line, childVars, queueVars, push, requested, status,
                   crashes>>

\* _deny_pending_bridge_gates: a deny over whatever the phone has answered.
DenyPending ==
    /\ tap = "deny"
    /\ answer' = [r \in Reqs |-> IF r \in known \ written THEN "deny" ELSE answer[r]]
    /\ IF known \ written = {}
       THEN tap' = "terminate" /\ UNCHANGED push
       ELSE /\ tap' = "denying"
            /\ push' = [push EXCEPT !["cancel"] =
                           [NoPush EXCEPT !.step = "each", !.todo = known \ written]]
    /\ UNCHANGED <<bridge, pc, remoteVars, line, childVars, known, mirrored, written, answers,
                   requested, status, boundVars, history>>

\* ssh -O exit, terminate_process_group: the local child decides, not the remote.
Confirm ==
    /\ tap = "terminate"
    /\ ssh' = "gone"
    /\ status' = "cancelled" /\ sidecar' = "none"
    /\ IF remote = "alive" THEN Excuse ELSE UNCHANGED history
    /\ tap' = "off"
    /\ UNCHANGED <<bridge, pc, remote, hold, sent, pipe, line, listed, pid, queueVars, push,
                   requested, boundVars>>

Unconfirmed ==
    /\ tap = "terminate" /\ ssh = "up"
    /\ tap' = "off"
    /\ UNCHANGED <<bridge, pc, remoteVars, line, childVars, queueVars, push, requested, status,
                   boundVars, history>>

-----------------------------------------------------------------------------
(* The remote worker, the phone and the network.                           *)

\* _hold of the injected hook: the request file, then its marker on both pipes.
RemoteHold(r) ==
    /\ bridge /\ remote = "alive" /\ hold[r] = "none"
    /\ hold' = [hold EXCEPT ![r] = "held"]
    /\ pipe' = IF ssh = "up" THEN pipe \cup Lines(r) ELSE pipe
    /\ UNCHANGED <<bridge, pc, ssh, remote, sent, line, childVars, queueVars, push, requested,
                   status, tap, boundVars, history>>

\* Mutant of RemoteRead: whatever is on file, for any request, is an answer.
RemoteReadAny(r) ==
    /\ remote = "alive" /\ hold[r] = "held"
    /\ \E q \in Reqs :
         /\ sent[q] # None
         /\ hold' = [hold EXCEPT ![r] = IF sent[q] = "allow" THEN "allowed" ELSE "denied"]
    /\ UNCHANGED <<bridge, pc, ssh, remote, sent, pipe, line, childVars, queueVars, push,
                   requested, status, tap, boundVars, history>>

\* _wait_result
RemoteRead(r) ==
    /\ remote = "alive" /\ hold[r] = "held" /\ sent[r] # None
    /\ hold' = [hold EXCEPT ![r] = IF sent[r] = "allow" THEN "allowed" ELSE "denied"]
    /\ UNCHANGED <<bridge, pc, ssh, remote, sent, pipe, line, childVars, queueVars, push,
                   requested, status, tap, boundVars, history>>

RemoteTimeout(r) ==
    /\ remote = "alive" /\ hold[r] = "held"
    /\ hold' = [hold EXCEPT ![r] = "denied"]
    /\ UNCHANGED <<bridge, pc, ssh, remote, sent, pipe, line, childVars, queueVars, push,
                   requested, status, tap, boundVars, history>>

\* The worker is done, and with it the ssh child.
RemoteEnds ==
    /\ remote = "alive" /\ \A r \in Reqs : hold[r] # "held"
    /\ remote' = "ended" /\ ssh' = "gone"
    /\ UNCHANGED <<bridge, pc, hold, sent, pipe, line, childVars, queueVars, push, requested,
                   status, tap, boundVars, history>>

\* The remote shell is gone: its channel is closed.
SshExits ==
    /\ remote = "killed" /\ ssh = "up"
    /\ ssh' = "gone"
    /\ UNCHANGED <<bridge, pc, remote, hold, sent, pipe, line, childVars, queueVars, push,
                   requested, status, tap, boundVars, history>>

\* The connection breaks; what was on its way may be lost.
LinkDrops ==
    /\ ssh = "up" /\ SshFails
    /\ ssh' = "gone"
    /\ pipe' \in {pipe, {}}
    /\ Excuse
    /\ UNCHANGED <<bridge, pc, remote, hold, sent, line, childVars, queueVars, push, requested,
                   status, tap, crashes>>

\* The trap and the parent watchdog of the remote shell, when they work.
Watchdog ==
    /\ remote = "alive" /\ ssh = "gone"
    /\ KillRemote
    /\ UNCHANGED <<bridge, pc, ssh, sent, pipe, line, childVars, queueVars, push, requested,
                   status, tap, boundVars, history>>

\* The host's gate queue files an answer; a later one replaces it.
PhoneAnswers(r, verdict) ==
    /\ HostUp /\ r \in mirrored
    /\ answers < MaxAnswers
    /\ answers' = answers + 1
    /\ answer' = [answer EXCEPT ![r] = verdict]
    /\ history' = [history EXCEPT
           !.consents = IF verdict = "allow" THEN @ \cup {r} ELSE @,
           !.raced = @ \/ history.cancelled]
    /\ UNCHANGED <<bridge, pc, remoteVars, line, childVars, known, mirrored, written, push,
                   requested, status, tap, boundVars>>

-----------------------------------------------------------------------------
(* Pid files, and the end of the host.                                     *)

\* Only the files NextCook looks at need age.
SidecarAges ==
    /\ ~bridge /\ sidecar = "fresh"
    /\ sidecar' = "old"
    /\ UNCHANGED <<bridge, pc, remoteVars, line, listed, pid, queueVars, push, requested, status,
                   tap, boundVars, history>>

\* The next SSH cook of the host begins with reap_orphaned_remote_pids.  It looks
\* in the workspace; a bridged cook has put its file under the gate root.
NextCook(reached) ==
    /\ HostUp /\ ~bridge
    /\ sidecar = "old"
    /\ sidecar' = "none"
    /\ IF ~reached THEN SshFails /\ UNCHANGED <<remote, hold>>
       ELSE /\ IF remote = "alive" THEN KillRemote ELSE UNCHANGED <<remote, hold>>
            /\ UNCHANGED faults
    /\ Excuse
    /\ UNCHANGED <<bridge, pc, ssh, sent, pipe, line, listed, pid, queueVars, push, requested,
                   status, tap, crashes>>

HostDies ==
    /\ HostUp /\ crashes < MaxCrashes
    /\ crashes' = crashes + 1
    /\ pc' = "down" /\ tap' = "off"
    /\ listed' = FALSE /\ pid' = FALSE /\ requested' = FALSE
    /\ known' = {} /\ written' = {} /\ line' = None
    /\ push' = [t \in Threads |-> NoPush]
    /\ pipe' = {}
    /\ ssh' = IF ssh = "up" THEN "gone" ELSE ssh
    /\ UNCHANGED <<bridge, remote, hold, sent, sidecar, mirrored, answer, answers, status,
                   faults, history>>

HostStarts ==
    /\ pc = "down"
    /\ pc' = "next"
    /\ status' = IF status = "running" THEN "failed" ELSE status
    /\ UNCHANGED <<bridge, remoteVars, line, childVars, queueVars, push, requested, tap,
                   boundVars, history>>

-----------------------------------------------------------------------------
CookStep ==
    \/ Refuse \/ Arm \/ SpawnSsh \/ RegisterChild \/ TakePid \/ TakeMarker \/ Mirror \/ Turn
    \/ FlushBegin \/ BreakCancelled \/ BreakEnded
    \/ LastEvent \/ LastLook \/ Close
    \/ FlushRead("cook") \/ FlushWrite("cook") \/ FlushFails("cook") \/ FlushEnd("cook")

CancelStep ==
    \/ SignalRemote \/ SignalLost \/ DenyPending \/ Confirm \/ Unconfirmed
    \/ FlushRead("cancel") \/ FlushWrite("cancel") \/ FlushFails("cancel") \/ FlushEnd("cancel")

RemoteStep(r) == RemoteHold(r) \/ RemoteRead(r) \/ RemoteTimeout(r)

Next ==
    \/ CookStep \/ BreakDeadline \/ CancelTap \/ CancelStep
    \/ \E r \in Reqs : RemoteStep(r) \/ \E verdict \in {"allow", "deny"} : PhoneAnswers(r, verdict)
    \/ RemoteEnds \/ SshExits \/ LinkDrops \/ Watchdog
    \/ SidecarAges \/ \E reached \in BOOLEAN : NextCook(reached)
    \/ HostDies \/ HostStarts

Spec == Init /\ [][Next]_vars

(* The two threads of the host run, and the remote hook reads and times     *)
(* out; nobody need answer, no connection need last.                       *)
Fairness ==
    /\ WF_vars(CookStep) /\ WF_vars(CancelStep)
    /\ \A r \in Reqs : WF_vars(RemoteRead(r) \/ RemoteTimeout(r))

FairSpec == Spec /\ Fairness

-----------------------------------------------------------------------------
(* TypeOK: threads, processes and files are of their kinds; what was        *)
(* written back was known, and only listed children are signalled.          *)
Verdicts == {"allow", "deny"}
TypeOK ==
    /\ bridge \in BOOLEAN
    /\ pc \in {"start", "armed", "spawned", "drain", "mirror", "flush", "flushing", "last",
               "look", "close", "gone", "down", "next"}
    /\ ssh \in {"none", "up", "gone"} /\ remote \in {"none", "alive", "ended", "killed"}
    /\ hold \in [Reqs -> {"none", "held", "allowed", "denied", "gone"}]
    /\ sent \in [Reqs -> Verdicts \cup {None}] /\ answer \in [Reqs -> Verdicts \cup {None}]
    /\ pipe \subseteq {PidLine} \cup UNION {Lines(r) : r \in Reqs}
    /\ line \in Reqs \cup {None} /\ (line # None <=> pc = "mirror")
    /\ listed \in BOOLEAN /\ pid \in BOOLEAN /\ sidecar \in {"none", "fresh", "old"}
    /\ known \subseteq Reqs /\ mirrored \subseteq Reqs /\ written \subseteq known
    /\ push \in [Threads -> [step : {"idle", "each", "write"}, todo : SUBSET Reqs,
                             done : SUBSET Reqs, req : Reqs \cup {None},
                             held : Verdicts \cup {None}]]
    /\ requested \in BOOLEAN
    /\ status \in {"running", "completed", "failed", "cancelled"}
    /\ tap \in {"off", "signal", "deny", "denying", "terminate"}
    /\ answers \in 0..MaxAnswers /\ faults \in 0..MaxFaults /\ crashes \in 0..MaxCrashes

(* ImplementsQueue: behind SSH a worker's holds are the same GateQueue: it  *)
(* goes on with a tool only if this host's queue once allowed that very     *)
(* request, over lost and doubled lines, failed write-backs, a Cancel and a *)
(* dead host.                                                               *)
Queue == INSTANCE GateQueue WITH hold <- hold, consented <- history.consents

ImplementsQueue == Queue!Safe

(* AllowStops: once a Cancel is requested no Allow is written to the remote *)
(* any more ("Cancel Denies pending holds; skips Allow SSH writeback",      *)
(* docs/compute/README.md:81).  Excused are a write-back that had begun     *)
(* before the Cancel, and an answer the host's queue files after it.        *)
Allowing == \E r \in Reqs : sent'[r] = "allow" /\ sent[r] # "allow"
AllowStops == [][Allowing => ~history.cancelled \/ history.raced]_vars

(* Recorded: a remote worker that is alive is on file for the next cook's   *)
(* reap from the moment its pid was read, whatever became of its run: an    *)
(* unconfirmed Cancel, a dead host.  Excused are a broken link or deadline, *)
(* a signal that did not arrive, and the reap itself.                       *)
Recorded ==
    remote = "alive" /\ history.record = "owed" => sidecar # "none"

(* OrphansOnly: "reap remote pids left behind after a prior Mac crash"      *)
(* (host/remote_cook.py:627): a worker whose cook thread reads it is killed *)
(* by nobody but a Cancel.                                                  *)
OrphansOnly ==
    [][pc = "drain" /\ tap = "off" /\ remote = "alive" /\ ssh = "up" => remote' # "killed"]_vars

(* NoneUndelivered: in the end no answer is on file for a hold the cook     *)
(* thread knows of and not written to the remote, also when a write-back    *)
(* failed before, unless the run is cancelled or ends.                      *)
Reading == pc \in {"drain", "mirror", "flush", "flushing"} /\ ~requested
NoneUndelivered ==
    Reading => \A r \in known : answer[r] # None => sent[r] # None
=============================================================================
