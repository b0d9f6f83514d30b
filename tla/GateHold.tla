------------------------------ MODULE GateHold ------------------------------
(***************************************************************************)
(* Phone approval of the tool calls of one live run.                       *)
(*                                                                         *)
(* The worker is a subprocess: before each tool it starts a gate-hook      *)
(* process (orchestration/gate_hook.py: run_hook) that puts a request file *)
(* into pending/ and blocks until results/ has an answer, or denies after  *)
(* the approval timeout.  The listen loop drains pending/ and parks one    *)
(* card in the task's metadata; a tap of that card, on the gateway thread  *)
(* or spoken in the thread and absorbed by the loop, finishes it           *)
(* (orchestrator.py: _finish_gate) in three steps that other threads can   *)
(* come between: the metadata, the result file, the run's status.  The     *)
(* cook thread settles the run when the worker is gone, Cancel kills the   *)
(* worker, and the host may die and start again at any point.              *)
(*                                                                         *)
(* The request files of a run are never deleted, so `pending' is the set   *)
(* of requests whose hook has been started.                                *)
(***************************************************************************)
EXTENDS Naturals, FiniteSets

CONSTANTS
    Reqs,         \* request ids: the gate-hook processes the run can start
    Calls,        \* the tool calls a worker can ask for
    Tools,        \* exact tool names (for a shell command, its prefix)
    Rememberable, \* the tools "Always allow" can remember: no compound commands
    GateOn,       \* the write gate (writes_need_approval) is on
    MaxTaps,      \* bound of the model: taps on cards in a behaviour
    MaxCrashes,   \* bound of the model: host crashes in a behaviour
    None          \* no request, no answer, no tool

Kinds       == {"tool", "ask", "plan"}
CallRecords == [kind : Kinds, tool : Tools]
Approvals   == {"allow", "always"}
Answers     == Approvals \cup {"deny"}
Verbs       == {"approve", "always", "deny"}

\* "phone" is the gateway thread, "loop" the listen loop; each does one
\* operation on a card at a time.
Actors == {"phone", "loop"}

\* What the theorems assume of the constants.
ConstantsOK ==
    /\ None \notin Reqs \cup Answers
    /\ Calls \subseteq CallRecords /\ Rememberable \subseteq Tools
    /\ GateOn \in BOOLEAN
    /\ MaxTaps \in Nat /\ MaxCrashes \in Nat

VARIABLES
    call,       \* the tool call of each request
    hook,       \* each gate-hook process: idle, waiting, done, killed
    age,        \* of each request: fresh, old (the drain sees it aged), over
                \* (the hook's own deadline, which starts later, has passed)
    result,     \* results/<request>.json
    said,       \* the decision each hook printed for the worker
    gate,       \* the gate fields of the task's metadata
    card,       \* history: the request the parked card was raised for
    tapped,     \* history: what was tapped on each request's own card
    taps,       \* taps so far
    remembered, \* tools the channel or thread always allows
    op,         \* the operation each actor is in the middle of
    status,     \* runs.status
    worker,     \* cooking, returned, settled, orphan (its host is dead)
    cancelled,  \* the backend confirmed a Cancel
    host,       \* the host process: up, down
    crashes     \* host crashes so far

hookVars == <<call, hook, age, said>>
cardVars == <<card, tapped, taps, remembered>>
runVars  == <<status, worker, cancelled>>
hostVars == <<host, crashes>>
vars == <<hookVars, result, gate, cardVars, op, runVars, hostVars>>

-----------------------------------------------------------------------------
NoCall == [kind |-> None, tool |-> None]
NoGate == [awaiting |-> FALSE, approval |-> FALSE, kind |-> None, tool |-> None,
           live |-> FALSE, req |-> None, result |-> None, aged |-> FALSE]
IdleOp == [step |-> "idle", answer |-> None, live |-> FALSE, req |-> None]

Idle(a)    == host = "up" /\ op[a].step = "idle"
Step(a, s) == op[a].step = s
Goto(a, s) == op' = [op EXCEPT ![a].step = s]
Leave(a)   == op' = [op EXCEPT ![a] = IdleOp]

\* list_pending: requests on file that have no answer yet.
Unanswered(r) == hook[r] # "idle" /\ result[r] = None

\* tool_class_decision: what is allowed without a card.
AutoAllowed(r) ==
    call[r].kind = "tool" /\ (~GateOn \/ call[r].tool \in remembered)

\* The metadata patch of raise_tool_gate and raise_ask_user; the one of
\* raise_plan_approve leaves gate_tool, gate_live and gate_request_id alone.
Raised(r) ==
    LET parked == [gate EXCEPT !.awaiting = TRUE, !.approval = TRUE,
                               !.kind = call[r].kind, !.result = None, !.aged = FALSE]
    IN  IF call[r].kind = "plan" THEN parked
        ELSE [parked EXCEPT !.tool = call[r].tool, !.live = TRUE, !.req = r]

\* _resolve_tool_gate and _resolve_plan_gate: the answer a verb stands for.
AnswerOf(verb) ==
    CASE verb = "approve" -> "allow"
      [] verb = "deny"    -> "deny"
      [] verb = "always"  -> IF gate.kind = "tool" /\ gate.tool \notin Rememberable
                             THEN "allow" ELSE "always"

KillHooks == hook' = [r \in Reqs |-> IF hook[r] = "waiting" THEN "killed" ELSE hook[r]]

-----------------------------------------------------------------------------
Init ==
    /\ call = [r \in Reqs |-> NoCall]
    /\ hook = [r \in Reqs |-> "idle"]
    /\ age = [r \in Reqs |-> "fresh"]
    /\ result = [r \in Reqs |-> None]
    /\ said = [r \in Reqs |-> None]
    /\ gate = NoGate
    /\ card = None
    /\ tapped = [r \in Reqs |-> {}]
    /\ taps = 0
    /\ remembered \in SUBSET Rememberable
    /\ op = [a \in Actors |-> IdleOp]
    /\ status = "running"
    /\ worker = "cooking"
    /\ cancelled = FALSE
    /\ host = "up"
    /\ crashes = 0

(* The gate-hook process.                                                  *)

\* run_hook: enqueue the request, then wait.
HookCall(r, c) ==
    /\ worker \in {"cooking", "orphan"}
    /\ hook[r] = "idle"
    /\ hook' = [hook EXCEPT ![r] = "waiting"]
    /\ call' = [call EXCEPT ![r] = c]
    /\ UNCHANGED <<age, said, result, gate, cardVars, op, runVars, hostVars>>

\* wait_for_result finds an answer.
HookRead(r) ==
    /\ hook[r] = "waiting"
    /\ result[r] # None
    /\ said' = [said EXCEPT ![r] = result[r]]
    /\ hook' = [hook EXCEPT ![r] = "done"]
    /\ UNCHANGED <<call, age, result, gate, cardVars, op, runVars, hostVars>>

\* Mutant of HookTimeout: no answer counts as an allow.
HookTimeoutOpen(r) ==
    /\ hook[r] = "waiting"
    /\ age[r] = "over"
    /\ result' = [result EXCEPT ![r] = "allow"]
    /\ said' = [said EXCEPT ![r] = "allow"]
    /\ hook' = [hook EXCEPT ![r] = "done"]
    /\ UNCHANGED <<call, age, gate, cardVars, op, runVars, hostVars>>

\* wait_for_result gives up: it writes a deny without another look at results/.
HookTimeout(r) ==
    /\ hook[r] = "waiting"
    /\ age[r] = "over"
    /\ result' = [result EXCEPT ![r] = "deny"]
    /\ said' = [said EXCEPT ![r] = "deny"]
    /\ hook' = [hook EXCEPT ![r] = "done"]
    /\ UNCHANGED <<call, age, gate, cardVars, op, runVars, hostVars>>

\* Time passes: created_at_ms ages first, then the hook's own deadline.
AgeRequest(r) ==
    /\ hook[r] = "waiting" \/ Unanswered(r)
    /\ age[r] # "over"
    /\ age' = [age EXCEPT ![r] = IF @ = "fresh" THEN "old" ELSE "over"]
    /\ UNCHANGED <<call, hook, said, result, gate, cardVars, op, runVars, hostVars>>

\* parked_at_ms is never older than the request the card was raised for.
AgeCard ==
    /\ gate.awaiting /\ ~gate.aged
    /\ age[card] # "fresh"
    /\ gate' = [gate EXCEPT !.aged = TRUE]
    /\ UNCHANGED <<hookVars, result, cardVars, op, runVars, hostVars>>

-----------------------------------------------------------------------------
(* Answering a card: apply_job_action up to _finish_gate.                  *)

\* _finish_gate reads gate_live and gate_request_id once, before it writes.
BeginFinish(a, answer) ==
    op' = [op EXCEPT ![a] = [step |-> "merge", answer |-> answer,
                             live |-> gate.live, req |-> gate.req]]

\* Allow, Always, Deny or an option of the parked card; Cancel on a plan card is
\* Deny, and a plan card has no Always.
Tap(a, verb) ==
    /\ Idle(a)
    /\ gate.awaiting
    /\ gate.kind = "plan" => verb # "always"
    /\ BeginFinish(a, AnswerOf(verb))
    /\ taps < MaxTaps
    /\ taps' = taps + 1
    /\ tapped' = [tapped EXCEPT ![card] = @ \cup {IF verb = "deny" THEN "deny" ELSE "allow"}]
    /\ remembered' = IF AnswerOf(verb) = "always" /\ gate.kind = "tool"
                     THEN remembered \cup {gate.tool} ELSE remembered
    /\ UNCHANGED <<hookVars, result, gate, card, runVars, hostVars>>

\* Deny on a card that has just been answered falls through to _deny_parked_run.
TapLateDeny ==
    /\ Idle("phone")
    /\ card # None /\ ~gate.awaiting
    /\ taps < MaxTaps
    /\ taps' = taps + 1
    /\ Goto("phone", "deny")
    /\ UNCHANGED <<hookVars, result, gate, card, tapped, remembered, runVars,
                   hostVars>>

\* Mutant of MergeAnswer: the answer is left to the file alone.
MergeNoResult(a) ==
    /\ Step(a, "merge")
    /\ gate' = [gate EXCEPT !.awaiting = FALSE, !.approval = FALSE]
    /\ Goto(a, IF op[a].live /\ op[a].req # None THEN "file" ELSE "run")
    /\ UNCHANGED <<hookVars, result, cardVars, runVars, hostVars>>

\* merge_task_metadata(gate_result, awaiting_gate off)
MergeAnswer(a) ==
    /\ Step(a, "merge")
    /\ gate' = [gate EXCEPT !.awaiting = FALSE, !.approval = FALSE,
                            !.result = op[a].answer]
    /\ Goto(a, IF op[a].live /\ op[a].req # None THEN "file" ELSE "run")
    /\ UNCHANGED <<hookVars, result, cardVars, runVars, hostVars>>

\* _write_live_gate_result
FileAnswer(a) ==
    /\ Step(a, "file")
    /\ result' = [result EXCEPT ![op[a].req] = op[a].answer]
    /\ Goto(a, "run")
    /\ UNCHANGED <<hookVars, gate, cardVars, runVars, hostVars>>

\* update_run: a live hold goes on running, any other is settled here.
RunAnswer(a) ==
    /\ Step(a, "run")
    /\ status' = IF op[a].live THEN "running"
                 ELSE IF op[a].answer = "deny" THEN "failed" ELSE "completed"
    /\ Leave(a)
    /\ UNCHANGED <<hookVars, result, gate, cardVars, worker, cancelled, hostVars>>

\* _deny_parked_run: it does not ask whether anything is parked.
DenyMerge(a) ==
    /\ Step(a, "deny")
    /\ gate' = [gate EXCEPT !.approval = FALSE]
    /\ Goto(a, "denyrun")
    /\ UNCHANGED <<hookVars, result, cardVars, runVars, hostVars>>

DenyRun(a) ==
    /\ Step(a, "denyrun")
    /\ status' = "failed"
    /\ Leave(a)
    /\ UNCHANGED <<hookVars, result, gate, cardVars, worker, cancelled, hostVars>>

-----------------------------------------------------------------------------
(* The listen loop: expire_parked_approvals, then drain_gate_queue.        *)

\* expire_parked_approvals lists the run.
ExpireParked ==
    /\ Idle("loop")
    /\ status = "pending" /\ gate.approval /\ gate.aged
    /\ Goto("loop", "expire")
    /\ UNCHANGED <<hookVars, result, gate, cardVars, runVars, hostVars>>

\* expire_parked_run looks again whether a card waits.
ExpireCard ==
    /\ Step("loop", "expire")
    /\ IF gate.awaiting THEN BeginFinish("loop", "deny") ELSE Goto("loop", "deny")
    /\ UNCHANGED <<hookVars, result, gate, cardVars, runVars, hostVars>>

\* drain_gate_queue, one unanswered request; the last answer of the run goes first.
DrainResolve(r) ==
    /\ Idle("loop") /\ Unanswered(r)
    /\ gate.result # None
    /\ result' = [result EXCEPT ![r] = gate.result]
    /\ UNCHANGED <<hookVars, gate, cardVars, op, runVars, hostVars>>

\* A request older than the timeout is denied and the parked card expires.
DrainAged(r) ==
    /\ Idle("loop") /\ Unanswered(r)
    /\ gate.result = None
    /\ age[r] # "fresh"
    /\ result' = [result EXCEPT ![r] = "deny"]
    /\ IF gate.awaiting THEN Goto("loop", "expire") ELSE UNCHANGED op
    /\ UNCHANGED <<hookVars, gate, cardVars, runVars, hostVars>>

\* Mutant of Drainable: a parked card does not hold the others back.
DrainableAnyway(r) ==
    /\ Idle("loop") /\ Unanswered(r)
    /\ gate.result = None
    /\ age[r] = "fresh"

\* No card is parked: the request can be decided or raised.
Drainable(r) ==
    /\ Idle("loop") /\ Unanswered(r)
    /\ gate.result = None
    /\ age[r] = "fresh"
    /\ ~gate.awaiting

DrainAllow(r) ==
    /\ Drainable(r) /\ AutoAllowed(r)
    /\ result' = [result EXCEPT ![r] = "allow"]
    /\ UNCHANGED <<hookVars, gate, cardVars, op, runVars, hostVars>>

\* Mutant of DrainRaise: the run is parked and its card not posted.
DrainRaiseNoCard(r) ==
    /\ Drainable(r) /\ ~AutoAllowed(r)
    /\ gate' = Raised(r)
    /\ Goto("loop", "park")
    /\ UNCHANGED <<hookVars, result, cardVars, runVars, hostVars>>

DrainRaise(r) ==
    /\ Drainable(r) /\ ~AutoAllowed(r)
    /\ gate' = Raised(r)
    /\ card' = r
    /\ Goto("loop", "park")
    /\ UNCHANGED <<hookVars, result, tapped, taps, remembered, runVars,
                   hostVars>>

\* Raising fails (the store is locked): "park failed" is a deny.
DrainParkFails(r) ==
    /\ Drainable(r) /\ ~AutoAllowed(r)
    /\ result' = [result EXCEPT ![r] = "deny"]
    /\ UNCHANGED <<hookVars, gate, cardVars, op, runVars, hostVars>>

\* The rest of raise_tool_gate: update_run(PENDING).
ParkRun ==
    /\ Step("loop", "park")
    /\ status' = "pending"
    /\ Leave("loop")
    /\ UNCHANGED <<hookVars, result, gate, cardVars, worker, cancelled, hostVars>>

-----------------------------------------------------------------------------
(* The run around the hold.                                                *)

\* Cancel on the card of a live cook: the worker is killed, the run cancelled.
CancelCook ==
    /\ Idle("phone")
    /\ worker = "cooking"
    /\ ~(gate.awaiting /\ gate.kind = "plan")
    /\ cancelled' = TRUE
    /\ status' = "cancelled"
    /\ worker' = "returned"
    /\ KillHooks
    /\ UNCHANGED <<call, age, said, result, gate, cardVars, op, hostVars>>

\* The worker ends by itself, or its own timeout kills it.
WorkerReturn ==
    /\ worker = "cooking"
    /\ worker' = "returned"
    /\ KillHooks
    /\ UNCHANGED <<call, age, said, result, gate, cardVars, op, status, cancelled,
                   hostVars>>

\* The cook thread asks whether the run was cancelled and settles it.
Settle ==
    /\ worker = "returned"
    /\ status' \in IF cancelled THEN {"cancelled"} ELSE {"completed", "failed"}
    /\ worker' = "settled"
    /\ UNCHANGED <<hookVars, result, gate, cardVars, op, cancelled, hostVars>>

\* The host process dies; an agentic worker has a session of its own and lives on.
HostDie ==
    /\ host = "up"
    /\ crashes < MaxCrashes
    /\ host' = "down"
    /\ crashes' = crashes + 1
    /\ op' = [a \in Actors |-> IdleOp]
    /\ worker' = IF worker = "cooking" THEN "orphan" ELSE "settled"
    /\ UNCHANGED <<hookVars, result, gate, cardVars, status, cancelled>>

\* cmd_listen: fail_stale_runs, then reap_orphaned_local_pids, which is best effort.
HostStart(reaped) ==
    /\ host = "down"
    /\ host' = "up"
    /\ status' = IF status \in {"running", "pending"} THEN "failed" ELSE status
    /\ IF worker = "orphan" /\ reaped
       THEN worker' = "settled" /\ KillHooks
       ELSE UNCHANGED <<worker, hook>>
    /\ UNCHANGED <<call, age, said, result, gate, cardVars, op, cancelled, crashes>>

OrphanEnd ==
    /\ worker = "orphan"
    /\ worker' = "settled"
    /\ KillHooks
    /\ UNCHANGED <<call, age, said, result, gate, cardVars, op, status, cancelled,
                   hostVars>>

-----------------------------------------------------------------------------
HookStep(r) ==
    \/ \E c \in Calls : HookCall(r, c)
    \/ HookRead(r) \/ HookTimeout(r) \/ AgeRequest(r)

DrainStep(r) ==
    \/ DrainResolve(r) \/ DrainAged(r) \/ DrainAllow(r)
    \/ DrainRaise(r) \/ DrainParkFails(r)

ActorStep(a) ==
    \/ \E verb \in Verbs : Tap(a, verb)
    \/ MergeAnswer(a) \/ FileAnswer(a) \/ RunAnswer(a) \/ DenyMerge(a) \/ DenyRun(a)

RunStep ==
    \/ CancelCook \/ WorkerReturn \/ Settle
    \/ HostDie \/ \E reaped \in BOOLEAN : HostStart(reaped)
    \/ OrphanEnd

Next ==
    \/ \E r \in Reqs : HookStep(r) \/ DrainStep(r)
    \/ \E a \in Actors : ActorStep(a)
    \/ AgeCard \/ TapLateDeny \/ ExpireParked \/ ExpireCard \/ ParkRun
    \/ RunStep

Spec == Init /\ [][Next]_vars

(* Only the hook process and the clock are fair: nobody need tap, and the  *)
(* host may be dead.                                                       *)
Fairness ==
    \A r \in Reqs : WF_vars(AgeRequest(r)) /\ WF_vars(HookRead(r) \/ HookTimeout(r))

FairSpec == Spec /\ Fairness

-----------------------------------------------------------------------------
(* TypeOK: the request files, the card in the task's metadata and the run  *)
(* hold values of their kinds, and a parked card belongs to a request.     *)
TypeOK ==
    /\ call \in [Reqs -> Calls \cup {NoCall}]
    /\ hook \in [Reqs -> {"idle", "waiting", "done", "killed"}]
    /\ \A r \in Reqs : hook[r] # "idle" => call[r] \in Calls
    /\ age \in [Reqs -> {"fresh", "old", "over"}]
    /\ result \in [Reqs -> Answers \cup {None}]
    /\ said \in [Reqs -> Answers \cup {None}]
    /\ gate \in [awaiting : BOOLEAN, approval : BOOLEAN, kind : Kinds \cup {None},
                 tool : Tools \cup {None}, live : BOOLEAN, req : Reqs \cup {None},
                 result : Answers \cup {None}, aged : BOOLEAN]
    /\ card \in Reqs \cup {None}
    /\ gate.awaiting => card \in Reqs
    /\ tapped \in [Reqs -> SUBSET {"allow", "deny"}]
    /\ taps \in 0..MaxTaps
    /\ remembered \subseteq Tools
    /\ op \in [Actors -> [step : {"idle", "merge", "file", "run", "deny", "denyrun",
                                  "expire", "park"},
                          answer : Answers \cup {None}, live : BOOLEAN,
                          req : Reqs \cup {None}]]
    /\ \A a \in Actors : /\ op[a].step \in {"merge", "file", "run"} => op[a].answer \in Answers
                         /\ op[a].step = "file" => op[a].req \in Reqs
    /\ status \in {"running", "pending", "completed", "failed", "cancelled"}
    /\ worker \in {"cooking", "returned", "settled", "orphan"}
    /\ cancelled \in BOOLEAN
    /\ host \in {"up", "down"}
    /\ crashes \in 0..MaxCrashes

(* FailClosed: a worker is told to run a tool only if someone tapped Allow  *)
(* in this run, or the tool needs no card; timeouts, expiries, failed parks *)
(* and host crashes never turn into an allow.                               *)
SomeoneApproved == \E r \in Reqs : "allow" \in tapped[r]
FailClosed ==
    \A r \in Reqs : said[r] \in Approvals => SomeoneApproved \/ AutoAllowed(r)

(* DenyHolds: a request whose own card was answered with Deny only is never *)
(* allowed, whatever the drain, the expiry and the other requests do.       *)
DenyHolds ==
    \A r \in Reqs : tapped[r] = {"deny"} => said[r] \notin Approvals

(* AllowHolds: a call whose own card was tapped Allow and nothing else is   *)
(* denied only by a clock: while no call of the run has waited its time, no *)
(* drain, park that fails, second actor or next request turns it round,     *)
(* although the answer is three writes away from the hook.                  *)
ClockRan == \E r \in Reqs : age[r] # "fresh"
AllowHolds ==
    \A r \in Reqs : tapped[r] = {"allow"} /\ result[r] = "deny" => ClockRan

(* ImplementsQueue: to its worker the hold is a GateQueue, whose consent is *)
(* a tap of Allow in this run or a tool that needs no card; a hook process *)
(* decides once and keeps to it.                                           *)
HoldOf(r) ==
    CASE hook[r] = "idle"    -> "none"
      [] hook[r] = "waiting" -> "held"
      [] hook[r] = "killed"  -> "gone"
      [] hook[r] = "done"    -> IF said[r] \in Approvals THEN "allowed" ELSE "denied"

Consented(r) == hook[r] # "idle" /\ (SomeoneApproved \/ AutoAllowed(r))

Queue == INSTANCE GateQueue WITH hold <- [r \in Reqs |-> HoldOf(r)],
                                 consented <- {r \in Reqs : Consented(r)}

ImplementsQueue == Queue!Safe

(* OwnCard: "surgical approve: one tool class" and "`ask` parks a Discord   *)
(* card" (docs/cards/ask-gate.md:4,29): a tool that needs a card runs only  *)
(* after an approval of its own card.                                       *)
OwnCard ==
    \A r \in Reqs :
        said[r] \in Approvals => "allow" \in tapped[r] \/ AutoAllowed(r)

=============================================================================
