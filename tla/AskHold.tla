------------------------------ MODULE AskHold ------------------------------
(***************************************************************************)
(* The hold of a worker that runs inside the host (request_tool_hold and   *)
(* request_plan_hold, gate_hook.py: hold_tool_decision,                    *)
(* hold_plan_decision), and the questions that take more than one tap.     *)
(*                                                                         *)
(* The worker's thread files its request like a gate hook does, and then   *)
(* raises the card itself, while the listen loop drains the same file and  *)
(* may raise it too.  It waits for a result file or for the answer in the  *)
(* task's metadata, whichever it sees first, and at its own deadline it    *)
(* expires the card.  A multi-select question is toggled option by option, *)
(* each tap reading the metadata, writing the new selection and painting   *)
(* the card anew, until Confirm reads the selection and answers with it.   *)
(* Three threads finish holds: phone (the gateway), loop and worker.       *)
(***************************************************************************)
EXTENDS Naturals, FiniteSets

CONSTANTS
    Kinds,     \* kinds of hold the worker asks for, of AllKinds
    MaxHolds,  \* bound of the model: holds of the worker in its life
    MaxTaps,   \* bound of the model: taps and spoken verbs
    None       \* no answer, no card

AllKinds == {"tool", "ask", "multi", "plan"}
Options  == {1, 2}
Actors   == {"phone", "loop", "worker"}
Holds    == 1..MaxHolds

Yes(d) == d \in {"allow", "always"}

VARIABLES
    hold,       \* the worker: its present hold, kind, step and the hold's age
    heard,      \* what it was told of each hold
    file,       \* results/<hold>.json
    gate,       \* the gate fields of the task's metadata
    status,     \* runs.status
    card,       \* what the card in the thread shows
    op,         \* the operation each thread is in the middle of
    taps,       \* taps so far
    history     \* the holds somebody said yes to, the options each hold's card
                \* showed when it was answered, and whether two threads raised
                \* one card or a tap met the card of the next hold

vars == <<hold, heard, file, gate, status, card, op, taps, history>>

-----------------------------------------------------------------------------
Said(d, a) == [decision |-> d, answer |-> a]
NoGate == [awaiting |-> FALSE, approval |-> FALSE, kind |-> None, of |-> 0, req |-> 0,
           live |-> FALSE, selected |-> {}, result |-> None, aged |-> FALSE]
NoCard == [of |-> 0, kind |-> None, selected |-> {}]
IdleOp == [step |-> "idle", said |-> None, live |-> FALSE, req |-> 0, of |-> 0,
           chosen |-> {}]

Idle(a)    == op[a].step = "idle"
Step(a, s) == op[a].step = s
Leave(a)   == op' = [op EXCEPT ![a] = IdleOp]

\* wait_for_result and list_pending: the present hold has no result file.
Unanswered == hold.step \in {"raise", "paint", "wait"} /\ file[hold.n] = None

\* plan_meta_payload leaves gate_live and gate_request_id alone.
Parked == [gate EXCEPT !.awaiting = TRUE, !.approval = TRUE, !.aged = FALSE,
                       !.kind = hold.kind, !.of = hold.n, !.result = None]

\* gate_meta_payload sets them and empties the selection.
ParkedLive == [Parked EXCEPT !.req = hold.n, !.live = TRUE, !.selected = {}]

Raised == IF hold.kind = "plan" THEN Parked ELSE ParkedLive

\* What the raised card shows.
Fresh == [of |-> hold.n, kind |-> hold.kind, selected |-> {}]

Init ==
    /\ hold = [n |-> 0, kind |-> None, step |-> "off", age |-> "fresh"]
    /\ heard = [n \in Holds |-> None]
    /\ file = [n \in Holds |-> None]
    /\ gate = NoGate
    /\ status = "running"
    /\ card = NoCard
    /\ op = [a \in Actors |-> IdleOp]
    /\ taps = 0
    /\ history = [yes |-> {}, picked |-> [n \in Holds |-> {}], crossed |-> FALSE]

-----------------------------------------------------------------------------
(* The worker.                                                             *)

Hears(d) ==
    /\ heard' = [heard EXCEPT ![hold.n] = d]
    /\ hold' = [hold EXCEPT !.step = "off"]

\* hold_tool_decision, hold_plan_decision: enqueue_request.
Call(k) ==
    /\ hold.step = "off" /\ hold.n < MaxHolds
    /\ hold' = [n |-> hold.n + 1, kind |-> k, step |-> "raise", age |-> "fresh"]
    /\ UNCHANGED <<heard, file, gate, status, card, op, taps, history>>

\* Decided without a request: allowed when the class is (a read, the gate off, an
\* Always of this thread, which a spoken one gives to questions too), denied when
\* nobody knows the class or the plan is empty.
CallDecided(d) ==
    /\ hold.step = "off" /\ hold.n < MaxHolds
    /\ hold' = [n |-> hold.n + 1, kind |-> None, step |-> "off", age |-> "fresh"]
    /\ heard' = [heard EXCEPT ![hold.n + 1] = Said(d, {})]
    /\ history' = IF Yes(d) THEN [history EXCEPT !.yes = @ \cup {hold.n + 1}] ELSE history
    /\ UNCHANGED <<file, gate, status, card, op, taps>>

\* raise_*: the metadata; the status and the card come after it.
Raise ==
    /\ hold.step = "raise"
    /\ gate' = Raised
    /\ hold' = [hold EXCEPT !.step = "paint"]
    /\ history' = [history EXCEPT !.crossed = @ \/ gate.of = hold.n]
    /\ UNCHANGED <<heard, file, status, card, op, taps>>

\* plan_ready_decision does not know the plan's status: no card, a deny on file.
RaiseRefused ==
    /\ hold.step = "raise" /\ hold.kind = "plan"
    /\ file' = [file EXCEPT ![hold.n] = Said("deny", {})]
    /\ Hears(Said("deny", {}))
    /\ UNCHANGED <<gate, status, card, op, taps, history>>

Paint ==
    /\ hold.step = "paint"
    /\ status' = "pending" /\ card' = Fresh
    /\ hold' = [hold EXCEPT !.step = "wait"]
    /\ UNCHANGED <<heard, file, gate, op, taps, history>>

\* wait_for_result: the file first.
Hear ==
    /\ hold.step = "wait" /\ file[hold.n] # None
    /\ Hears(file[hold.n])
    /\ UNCHANGED <<file, gate, status, card, op, taps, history>>

\* then _poll: the answer in the metadata, whose ever it is; a plan has no Always.
Poll ==
    /\ hold.step = "wait" /\ file[hold.n] = None /\ gate.result # None
    /\ LET said == IF hold.kind = "plan" /\ gate.result.decision = "always"
                   THEN [gate.result EXCEPT !.decision = "allow"] ELSE gate.result
       IN  /\ file' = [file EXCEPT ![hold.n] = said]
           /\ Hears(said)
    /\ UNCHANGED <<gate, status, card, op, taps, history>>

\* Mutant of Timeout: the answer that did not come counts as a yes.
TimeoutOpen ==
    /\ hold.step = "wait" /\ hold.age = "over"
    /\ file' = [file EXCEPT ![hold.n] = Said("allow", {})]
    /\ Hears(Said("allow", {}))
    /\ UNCHANGED <<gate, status, card, op, taps, history>>

\* The deadline: a deny is filed without another look, then the card is looked for.
Timeout ==
    /\ hold.step = "wait" /\ hold.age = "over"
    /\ file' = [file EXCEPT ![hold.n] = Said("deny", {})]
    /\ IF gate.awaiting
       THEN /\ op' = [op EXCEPT !["worker"].step = "expire"]
            /\ hold' = [hold EXCEPT !.step = "expire"]
            /\ UNCHANGED heard
       ELSE Hears(Said("deny", {})) /\ UNCHANGED op
    /\ UNCHANGED <<gate, status, card, taps, history>>

Expired ==
    /\ hold.step = "expire" /\ Idle("worker")
    /\ Hears(Said("deny", {}))
    /\ UNCHANGED <<file, gate, status, card, op, taps, history>>

\* Time passes: the request ages for the drain, then for the worker.
Age ==
    /\ Unanswered /\ hold.age # "over"
    /\ hold' = [hold EXCEPT !.age = IF @ = "fresh" THEN "old" ELSE "over"]
    /\ UNCHANGED <<heard, file, gate, status, card, op, taps, history>>

AgeCard ==
    /\ gate.awaiting /\ ~gate.aged
    /\ gate.of = hold.n => hold.age # "fresh" \/ ~Unanswered
    /\ gate' = [gate EXCEPT !.aged = TRUE]
    /\ UNCHANGED <<hold, heard, file, status, card, op, taps, history>>

-----------------------------------------------------------------------------
(* Taps and spoken verbs: apply_job_action up to _finish_gate.             *)

\* _finish_gate reads gate_live and gate_request_id once, before it writes.
BeginFinish(a, d, answer) ==
    op' = [op EXCEPT ![a] = [step |-> "merge", said |-> Said(d, answer), live |-> gate.live,
                             req |-> gate.req, of |-> gate.of, chosen |-> {}]]

\* _resolve_ask_option: one tap answers.
TapOption(o) ==
    /\ Idle("phone") /\ card.kind \in {"ask", "multi"}
    /\ gate.awaiting /\ gate.kind = "ask"
    /\ BeginFinish("phone", "allow", {o})
    /\ taps < MaxTaps
    /\ taps' = taps + 1
    /\ history' = [history EXCEPT !.yes = @ \cup {gate.of}, !.picked[gate.of] = {o}]
    /\ UNCHANGED <<hold, heard, file, gate, status, card>>

\* _toggle_ask_option reads the selection and turns one option.
TapToggle(o) ==
    /\ Idle("phone") /\ card.kind \in {"ask", "multi"}
    /\ gate.awaiting /\ gate.kind = "multi"
    /\ op' = [op EXCEPT !["phone"] = [IdleOp EXCEPT !.step = "toggle", !.of = gate.of,
                  !.chosen = IF o \in gate.selected THEN gate.selected \ {o}
                             ELSE gate.selected \cup {o}]]
    /\ taps < MaxTaps
    /\ taps' = taps + 1
    /\ history' = [history EXCEPT !.crossed = @ \/ card.of # gate.of]
    /\ UNCHANGED <<hold, heard, file, gate, status, card>>

\* It is written without another look at what is parked by now.
ToggleMerge ==
    /\ Step("phone", "toggle")
    /\ gate' = [gate EXCEPT !.selected = op["phone"].chosen]
    /\ op' = [op EXCEPT !["phone"].step = "show"]
    /\ history' = [history EXCEPT !.crossed = @ \/ gate.of # op["phone"].of]
    /\ UNCHANGED <<hold, heard, file, status, card, taps>>

ToggleShow ==
    /\ Step("phone", "show")
    /\ card' = [of |-> op["phone"].of, kind |-> "multi", selected |-> op["phone"].chosen]
    /\ Leave("phone")
    /\ UNCHANGED <<hold, heard, file, gate, status, taps, history>>

\* _confirm_ask_multi: an empty selection stays parked.
TapConfirm ==
    /\ Idle("phone") /\ card.kind = "multi"
    /\ gate.awaiting /\ gate.kind = "multi" /\ gate.selected # {}
    /\ BeginFinish("phone", "allow", gate.selected)
    /\ taps < MaxTaps
    /\ taps' = taps + 1
    /\ history' = [history EXCEPT !.yes = @ \cup {gate.of},
                                  !.picked[gate.of] = card.selected,
                                  !.crossed = @ \/ card.of # gate.of]
    /\ UNCHANGED <<hold, heard, file, gate, status, card>>

\* A question or a tool: any verb.  A plan: no Always.
ResolveTool(a, d) == gate.kind # "plan" /\ BeginFinish(a, d, {})
ResolvePlan(a, d) == gate.kind = "plan" /\ d # "always" /\ BeginFinish(a, d, {})

Resolve(a, d) ==
    /\ Idle(a) /\ gate.awaiting
    /\ ResolveTool(a, d) \/ ResolvePlan(a, d)
    /\ taps < MaxTaps
    /\ taps' = taps + 1
    /\ history' = IF Yes(d) THEN [history EXCEPT !.yes = @ \cup {gate.of}] ELSE history
    /\ UNCHANGED <<hold, heard, file, gate, status, card>>

\* The buttons: Allow, Always and Deny of a tool's card, Approve and Cancel of a
\* plan's, Deny of a question's.
TapVerb(d) ==
    /\ card.kind # None /\ (card.kind \in {"ask", "multi"} => d = "deny")
    /\ Resolve("phone", d)

\* _absorb_spoken_gate: spoken in the thread a verb answers whatever waits there, a
\* question's Allow with no option at all.
SpokenVerb(d) == status = "pending" /\ Resolve("loop", d)

-----------------------------------------------------------------------------
(* _finish_gate: metadata, result file, run and card.                      *)

FinishMerge(a) ==
    /\ Step(a, "merge")
    /\ gate' = [gate EXCEPT !.awaiting = FALSE, !.approval = FALSE, !.result = op[a].said]
    /\ op' = [op EXCEPT ![a].step = IF op[a].live /\ op[a].req # 0 THEN "file" ELSE "run"]
    /\ UNCHANGED <<hold, heard, file, status, card, taps, history>>

FinishFile(a) ==
    /\ Step(a, "file")
    /\ file' = [file EXCEPT ![op[a].req] = op[a].said]
    /\ op' = [op EXCEPT ![a].step = "run"]
    /\ UNCHANGED <<hold, heard, gate, status, card, taps, history>>

\* The run goes on when the hold is live and is settled when it is not.
FinishRun(a) ==
    /\ Step(a, "run")
    /\ status' = IF op[a].live THEN "running"
                 ELSE IF Yes(op[a].said.decision) THEN "completed" ELSE "failed"
    /\ card' = NoCard
    /\ Leave(a)
    /\ UNCHANGED <<hold, heard, file, gate, taps, history>>

\* expire_parked_run looks again whether a card waits.
ExpireCard(a) ==
    /\ Step(a, "expire")
    /\ IF gate.awaiting THEN BeginFinish(a, "deny", {})
       ELSE op' = [op EXCEPT ![a].step = "failrun"]
    /\ UNCHANGED <<hold, heard, file, gate, status, card, taps, history>>

\* _deny_parked_run
FailRun(a) ==
    /\ Step(a, "failrun")
    /\ gate' = [gate EXCEPT !.approval = FALSE]
    /\ status' = "failed" /\ card' = NoCard
    /\ Leave(a)
    /\ UNCHANGED <<hold, heard, file, taps, history>>

-----------------------------------------------------------------------------
(* The listen loop: drain_gate_queue and expire_parked_approvals.          *)

DrainResolve ==
    /\ Idle("loop") /\ Unanswered /\ gate.result # None
    /\ file' = [file EXCEPT ![hold.n] = gate.result]
    /\ UNCHANGED <<hold, heard, gate, status, card, op, taps, history>>

DrainAged ==
    /\ Idle("loop") /\ Unanswered /\ gate.result = None /\ hold.age # "fresh"
    /\ file' = [file EXCEPT ![hold.n] = Said("deny", {})]
    /\ IF gate.awaiting THEN op' = [op EXCEPT !["loop"].step = "expire"] ELSE UNCHANGED op
    /\ UNCHANGED <<hold, heard, gate, status, card, taps, history>>

Drainable ==
    /\ Idle("loop") /\ Unanswered /\ gate.result = None
    /\ hold.age = "fresh" /\ ~gate.awaiting

\* An Always that was given since the call decides a tool, never a question or a
\* plan.
DrainAllow ==
    /\ Drainable /\ hold.kind = "tool"
    /\ file' = [file EXCEPT ![hold.n] = Said("allow", {})]
    /\ history' = [history EXCEPT !.yes = @ \cup {hold.n}]
    /\ UNCHANGED <<hold, heard, gate, status, card, op, taps>>

DrainRaise ==
    /\ Drainable
    /\ gate' = Raised
    /\ op' = [op EXCEPT !["loop"] = [IdleOp EXCEPT !.step = "park", !.of = hold.n,
                                                   !.said = hold.kind]]
    /\ UNCHANGED <<hold, heard, file, status, card, taps, history>>

DrainPark ==
    /\ Step("loop", "park")
    /\ status' = "pending"
    /\ card' = [of |-> op["loop"].of, kind |-> op["loop"].said, selected |-> {}]
    /\ Leave("loop")
    /\ UNCHANGED <<hold, heard, file, gate, taps, history>>

ExpireParked ==
    /\ Idle("loop") /\ status = "pending" /\ gate.approval /\ gate.aged
    /\ op' = [op EXCEPT !["loop"].step = "expire"]
    /\ UNCHANGED <<hold, heard, file, gate, status, card, taps, history>>

-----------------------------------------------------------------------------
WorkerStep == Raise \/ Paint \/ Hear \/ Poll \/ Timeout \/ Expired

ActorStep(a) == FinishMerge(a) \/ FinishFile(a) \/ FinishRun(a) \/ ExpireCard(a) \/ FailRun(a)

PhoneStep == ActorStep("phone") \/ ToggleMerge \/ ToggleShow
LoopStep  == ActorStep("loop") \/ DrainPark

Next ==
    \/ \E k \in Kinds : Call(k)
    \/ \E d \in {"allow", "deny"} : CallDecided(d)
    \/ WorkerStep \/ RaiseRefused \/ Age \/ AgeCard
    \/ \E o \in Options : TapOption(o) \/ TapToggle(o)
    \/ ToggleMerge \/ ToggleShow \/ TapConfirm
    \/ \E d \in {"allow", "always", "deny"} : TapVerb(d) \/ SpokenVerb(d)
    \/ \E a \in Actors : ActorStep(a)
    \/ DrainResolve \/ DrainAged \/ DrainAllow \/ DrainRaise \/ DrainPark \/ ExpireParked

Spec == Init /\ [][Next]_vars

\* Threads run on, the clock does, and the loop comes round to what has aged;
\* nobody has to call, tap or speak.
Fairness ==
    /\ WF_vars(WorkerStep) /\ WF_vars(Age) /\ WF_vars(AgeCard)
    /\ WF_vars(PhoneStep) /\ WF_vars(LoopStep) /\ WF_vars(ActorStep("worker"))
    /\ SF_vars(ExpireParked)

FairSpec == Spec /\ Fairness

-----------------------------------------------------------------------------
Replies == [decision : {"allow", "always", "deny"}, answer : SUBSET Options]

\* Each variable is of its kind.
TypeOK ==
    /\ hold.n \in 0..MaxHolds /\ hold.kind \in Kinds \cup {None}
    /\ hold.step \in {"off", "raise", "paint", "wait", "expire"}
    /\ hold.age \in {"fresh", "old", "over"}
    /\ \A n \in Holds : {heard[n], file[n]} \subseteq Replies \cup {None}
    /\ gate.kind \in Kinds \cup {None} /\ gate.result \in Replies \cup {None}
    /\ {gate.of, gate.req, card.of} \subseteq 0..MaxHolds
    /\ {gate.awaiting, gate.approval, gate.live, gate.aged} \subseteq BOOLEAN
    /\ gate.selected \cup card.selected \subseteq Options
    /\ card.kind \in Kinds \cup {None} /\ (card.kind = None => card = NoCard)
    /\ status \in {"running", "pending", "completed", "failed"}
    /\ \A a \in Actors : op[a].step \in {"idle", "merge", "file", "run", "toggle", "show",
                                         "park", "expire", "failrun"}
    /\ taps \in 0..MaxTaps

(* YesWasSaid: the worker goes on with a yes only when a rule allows the   *)
(* call or somebody said yes to a card of this run, its own or an earlier  *)
(* one whose answer still stands in the metadata (gate_hook.py:703-716): a *)
(* deadline, an expiry, an empty Confirm or a refused plan is no yes.      *)
YesWasSaid ==
    \A n \in Holds : heard[n] # None /\ Yes(heard[n].decision)
        => \E m \in 1..n : m \in history.yes

(* PickedHeard: the options a worker is told are those a card of its run   *)
(* showed ticked when it was answered.  Excused are a card that drain and  *)
(* worker both raised, and a tap that met the next hold's card.            *)
PickedHeard ==
    \A n \in Holds : heard[n] # None /\ heard[n].answer # {} /\ ~history.crossed
        => \E m \in 1..n : heard[n].answer = history.picked[m]

(* CardsRest: in the end nothing waits: no hold, no thread inside an       *)
(* answer, and no parked card, unless drain and worker both raised one:    *)
(* then an answer to the first leaves the second parked on a run that is   *)
(* settled, where expire_parked_approvals never looks.                     *)
CardsRest ==
    /\ hold.step = "off" /\ (gate.awaiting => history.crossed)
    /\ \A a \in Actors : Idle(a)
=============================================================================
