-------------------------------- MODULE RunDesk --------------------------------
(***************************************************************************)
(* The desk of the runs of one job thread: asks become runs, a write run   *)
(* parks for an Allow, and the phone answers with the buttons of a card    *)
(* (Allow, Always, Deny, Continue, Retry, Dismiss), the HOST Ask box or a  *)
(* spoken verb; a tick denies what nobody answers.                         *)
(*                                                                         *)
(* Two threads answer (orchestrator.apply_job_action runs on both):        *)
(*   "gw"    the gateway thread, one interaction after the other           *)
(*           (host/panel.py, cli.py on_dispatch, on_job, on_ask_here)      *)
(*   "loop"  the listen loop: spoken verbs, the expiry tick, asks          *)
(*           (orchestration/listen.py, orchestration/service.py)           *)
(* Each works on the parked run in several commits, so that the two can    *)
(* meet.  Pool threads are JobPool's, a run at work is Cook's: here it is  *)
(* a step that ends well or badly.                                         *)
(*                                                                         *)
(* A run r goes through pc[r]: "none", "pool" (submitted), "begun" (row    *)
(* and card), "park1", "park2", "park3" (_park_for_approval), "cook",      *)
(* "settle", "gone".                                                       *)
(***************************************************************************)
EXTENDS Naturals, Sequences, FiniteSets

CONSTANTS
    MaxRuns,     \* bound of the model: runs in a behaviour
    MaxTaps,     \* bound of the model: taps, typed asks and spoken verbs
    MaxHalts,    \* bound of the model: times the operator halts the spend
    MaxCrashes,  \* bound of the model: host restarts
    None         \* no run

Runs   == 1..MaxRuns
Actors == {"gw", "loop"}

VARIABLES
    gate,        \* writes_need_approval
    grant,       \* the thread's Always (write_session_allow)
    halted,      \* is_spend_halted
    made,        \* runs made so far
    intake,      \* the TaskIntake of each run
    pc,          \* where each run is
    row,         \* runs.status
    awaiting,    \* tasks.metadata.awaiting_approval
    lock,        \* the run inside the thread's write lock
    look,        \* each card: whose buttons it carries and what it shows
    act,         \* what each of the two threads is doing
    taps,        \* interactions the gateway thread has not taken yet
    asks,        \* the queue between button and loop (cli.py asks)
    aim,         \* pending_continue: the run the next HOST Ask continues
    todo,        \* rows the expiry tick listed
    old,         \* runs parked for longer than the approval timeout
    used, halts, crashes,
    history      \* which runs were allowed, who was raced, what was lost

vars == <<gate, grant, halted, made, intake, pc, row, awaiting, lock, look, act, taps,
          asks, aim, todo, old, used, halts, crashes, history>>

runVars   == <<made, intake, pc, row, awaiting, lock, look, old>>
phoneVars == <<taps, used>>
queueVars == <<asks, aim, todo>>
hostVars  == <<gate, halted, halts, crashes>>

-----------------------------------------------------------------------------
Idle     == [verb |-> "none", run |-> None, step |-> "idle"]
NoIntake == [writes |-> FALSE, approved |-> FALSE, from |-> None, pooled |-> FALSE]
Busy     == {"running", "pending"}

\* An approved run paints the card of the parked run, every other run its own.
Slot(r) == IF intake[r].approved THEN intake[r].from ELSE r

Show(c, r, what) == look' = [look EXCEPT ![c] = [run |-> r, shows |-> what]]

\* reactive_paint: the buttons of a card of this look.
Buttons(what) ==
    CASE what = "parked" -> {"approve", "always", "deny"}
      [] what \in {"failed", "denied"} -> {"continue", "retry", "dismiss"}
      [] what \in {"completed", "cancelled"} -> {"continue"}
      [] OTHER -> {}

Free(a) == act[a].step = "idle"
Step(a, step) == act' = [act EXCEPT ![a].step = step]
Done(a) == act' = [act EXCEPT ![a] = Idle]
At(a, verbs, step) == act[a].verb \in verbs /\ act[a].step = step

\* The other thread is at a verdict on the same run.
Meets(a, r) ==
    \E b \in Actors \ {a} :
        act[b].run = r /\ act[b].verb \in {"approve", "always", "deny"} /\ act[b].step # "idle"

\* A new run: in the pool, or begun at once by the thread that makes it.
Make(in, step) ==
    /\ made < MaxRuns
    /\ made' = made + 1
    /\ intake' = [intake EXCEPT ![made + 1] = in]
    /\ pc' = [pc EXCEPT ![made + 1] = step]

-----------------------------------------------------------------------------
Init ==
    /\ gate \in BOOLEAN /\ grant = FALSE /\ halted = FALSE
    /\ made = 0
    /\ intake = [r \in Runs |-> NoIntake]
    /\ pc = [r \in Runs |-> "none"]
    /\ row = [r \in Runs |-> "none"]
    /\ awaiting = [r \in Runs |-> FALSE]
    /\ lock = None
    /\ look = [r \in Runs |-> [run |-> None, shows |-> "none"]]
    /\ act = [a \in Actors |-> Idle]
    /\ taps = <<>> /\ asks = <<>> /\ aim = None /\ todo = {} /\ old = {}
    /\ used = 0 /\ halts = 0 /\ crashes = 0
    /\ history = [allowed |-> {}, raced |-> {}, lost |-> {}, denied |-> {}]

-----------------------------------------------------------------------------
(* The phone and the typed ask.                                            *)

\* Someone taps a button that some card shows now; the card may have changed
\* when the gateway thread takes the tap.
TapButton ==
    /\ used < MaxTaps
    /\ \E c \in Runs : \E verb \in Buttons(look[c].shows) :
         taps' = Append(taps, [verb |-> verb, run |-> look[c].run, writes |-> FALSE])
    /\ used' = used + 1
    /\ UNCHANGED <<runVars, queueVars, hostVars, grant, act, history>>

\* The HOST Ask box.
TapAsk ==
    /\ used < MaxTaps
    /\ \E writes \in BOOLEAN :
         taps' = Append(taps, [verb |-> "ask", run |-> None, writes |-> writes])
    /\ used' = used + 1
    /\ UNCHANGED <<runVars, queueVars, hostVars, grant, act, history>>

\* The loop drains a typed ask into the pool (Intake has the details).
TypedAsk ==
    /\ Free("loop") /\ todo = {}
    /\ used < MaxTaps
    /\ \E writes \in BOOLEAN : Make([NoIntake EXCEPT !.writes = writes, !.pooled = TRUE], "pool")
    /\ used' = used + 1
    /\ UNCHANGED <<row, awaiting, lock, look, old, taps, queueVars, hostVars, grant, act,
                   history>>

\* A spoken verb on the run the thread has parked (_absorb_spoken_gate).
Spoken ==
    /\ Free("loop") /\ todo = {}
    /\ used < MaxTaps
    /\ \E r \in Runs, verb \in {"approve", "always", "deny"} :
         /\ row[r] = "pending" /\ awaiting[r]
         /\ act' = [act EXCEPT !["loop"] = [verb |-> verb, run |-> r, step |-> "begin"]]
    /\ used' = used + 1
    /\ UNCHANGED <<runVars, taps, queueVars, hostVars, grant, history>>

\* Halt and Resume of the HOST panel.
SetHalt ==
    /\ halted \/ halts < MaxHalts
    /\ halted' = ~halted
    /\ halts' = IF halted THEN halts ELSE halts + 1
    /\ UNCHANGED <<gate, crashes, runVars, phoneVars, queueVars, grant, act, history>>

-----------------------------------------------------------------------------
(* The gateway thread takes an interaction (handle_gateway_interaction).   *)

TakeTap ==
    /\ Free("gw") /\ taps # <<>>
    /\ LET tap == Head(taps)
       IN  IF tap.verb = "ask"
           THEN IF aim = None
                THEN /\ asks' = Append(asks, [from |-> None, writes |-> tap.writes])
                     /\ UNCHANGED <<aim, act>>
                ELSE \* on_ask_here: the ask continues the armed run
                     /\ aim' = None
                     /\ act' = [act EXCEPT !["gw"] =
                                   [verb |-> IF tap.writes THEN "continue_write" ELSE "continue",
                                    run |-> aim, step |-> "begin"]]
                     /\ UNCHANGED asks
           ELSE /\ aim' = IF tap.verb = "continue" THEN tap.run ELSE aim
                /\ act' = [act EXCEPT !["gw"] = [verb |-> tap.verb, run |-> tap.run,
                                                 step |-> "begin"]]
                /\ UNCHANGED asks
    /\ taps' = Tail(taps)
    /\ UNCHANGED <<runVars, used, todo, hostVars, grant, history>>

\* _continue_idle_run: run_task on the gateway thread itself, without the pool
\* and its write lock; a run that is not idle is left alone.
Continue ==
    /\ At("gw", {"continue", "continue_write"}, "begin")
    /\ LET r == act["gw"].run
           in == [NoIntake EXCEPT !.writes = (act["gw"].verb = "continue_write"), !.from = r]
       IN  IF row[r] \in Busy
           THEN Done("gw") /\ UNCHANGED <<made, intake, pc>>
           ELSE /\ Make(in, "pool")
                /\ act' = [act EXCEPT !["gw"] = [verb |-> "continue", run |-> made + 1,
                                                 step |-> "inside"]]
    /\ UNCHANGED <<row, awaiting, lock, look, old, phoneVars, queueVars, hostVars, grant,
                   history>>

ContinueReturns ==
    /\ At("gw", {"continue"}, "inside")
    /\ pc[act["gw"].run] = "gone"
    /\ Done("gw")
    /\ UNCHANGED <<runVars, phoneVars, queueVars, hostVars, grant, history>>

\* Retry: the same ask again, through the queue of the loop.
RetryTap ==
    /\ At("gw", {"retry"}, "begin")
    /\ asks' = Append(asks, [from |-> act["gw"].run, writes |-> intake[act["gw"].run].writes])
    /\ Done("gw")
    /\ UNCHANGED <<runVars, phoneVars, aim, todo, hostVars, grant, history>>

\* _dismiss_failed_need
Dismiss ==
    /\ At("gw", {"dismiss"}, "begin")
    /\ LET r == act["gw"].run
       IN  IF row[r] = "failed"
           THEN row' = [row EXCEPT ![r] = "cancelled"] /\ Show(Slot(r), r, "cancelled")
           ELSE UNCHANGED <<row, look>>
    /\ Done("gw")
    /\ UNCHANGED <<made, intake, pc, awaiting, lock, old, phoneVars, queueVars, hostVars, grant,
                   history>>

\* The loop submits what the buttons queued; a halted host drops it aloud.
DrainAsk ==
    /\ Free("loop") /\ todo = {}
    /\ asks # <<>>
    /\ LET a == Head(asks)
       IN  IF halted
           THEN UNCHANGED <<made, intake, pc>>
           ELSE Make([writes |-> a.writes, approved |-> FALSE, from |-> a.from,
                      pooled |-> TRUE], "pool")
    /\ asks' = Tail(asks)
    /\ UNCHANGED <<row, awaiting, lock, look, old, phoneVars, aim, todo, hostVars, grant, act,
                   history>>

-----------------------------------------------------------------------------
(* Allow, Always and Deny of a parked write, by either thread.             *)

\* _always_allow_parked_run opens the session first.
Begin(a) ==
    /\ At(a, {"approve", "always", "deny"}, "begin")
    /\ grant' = (grant \/ act[a].verb = "always")
    /\ Step(a, IF act[a].verb = "deny" THEN "deny" ELSE "look")
    /\ history' = [history EXCEPT
           !.raced = IF Meets(a, act[a].run) THEN @ \cup {act[a].run} ELSE @,
           !.allowed = IF act[a].verb = "deny" THEN @ ELSE @ \cup {act[a].run},
           !.lost = IF pc[act[a].run] = "gone" THEN @ ELSE @ \cup {act[a].run}]
    /\ UNCHANGED <<runVars, phoneVars, queueVars, hostVars>>

\* Mutant of Look: the flag is not read.
LookAnyway(a) ==
    /\ At(a, {"approve", "always"}, "look")
    /\ Step(a, "take")
    /\ UNCHANGED <<runVars, phoneVars, queueVars, hostVars, grant, history>>

\* _approve_parked_run: a run that waits no more is left alone.
Look(a) ==
    /\ At(a, {"approve", "always"}, "look")
    /\ IF awaiting[act[a].run] THEN Step(a, "take") ELSE Done(a)
    /\ UNCHANGED <<runVars, phoneVars, queueVars, hostVars, grant, history>>

Take(a) ==
    /\ At(a, {"approve", "always"}, "take")
    /\ awaiting' = [awaiting EXCEPT ![act[a].run] = FALSE]
    /\ Step(a, "row")
    /\ UNCHANGED <<made, intake, pc, row, lock, look, old, phoneVars, queueVars, hostVars,
                   grant, history>>

\* "approved; write started"
CloseParked(a) ==
    /\ At(a, {"approve", "always"}, "row")
    /\ row' = [row EXCEPT ![act[a].run] = "completed"]
    /\ Step(a, "submit")
    /\ UNCHANGED <<made, intake, pc, awaiting, lock, look, old, phoneVars, queueVars, hostVars,
                   grant, history>>

SubmitApproved(a) ==
    /\ At(a, {"approve", "always"}, "submit")
    /\ Make([writes |-> TRUE, approved |-> TRUE, from |-> act[a].run, pooled |-> TRUE], "pool")
    /\ Done(a)
    /\ UNCHANGED <<row, awaiting, lock, look, old, phoneVars, queueVars, hostVars, grant,
                   history>>

\* _deny_parked_run takes the flag away without reading it.
DenyTake(a) ==
    /\ At(a, {"deny"}, "deny")
    /\ awaiting' = [awaiting EXCEPT ![act[a].run] = FALSE]
    /\ Step(a, "fail")
    /\ UNCHANGED <<made, intake, pc, row, lock, look, old, phoneVars, queueVars, hostVars,
                   grant, history>>

DenyFail(a) ==
    /\ At(a, {"deny"}, "fail")
    /\ row' = [row EXCEPT ![act[a].run] = "failed"]
    /\ history' = [history EXCEPT !.denied = @ \cup {act[a].run}]
    /\ Step(a, "paint")
    /\ UNCHANGED <<made, intake, pc, awaiting, lock, look, old, phoneVars, queueVars, hostVars,
                   grant>>

\* "Denied. Write was not started."
DenyPaint(a) ==
    /\ At(a, {"deny"}, "paint")
    /\ Show(Slot(act[a].run), act[a].run, "denied")
    /\ Done(a)
    /\ UNCHANGED <<made, intake, pc, row, awaiting, lock, old, phoneVars, queueVars, hostVars,
                   grant, history>>

-----------------------------------------------------------------------------
(* The expiry tick of the loop (expire_parked_approvals).                  *)

Age ==
    /\ \E r \in Runs \ old : row[r] = "pending" /\ awaiting[r] /\ old' = old \cup {r}
    /\ UNCHANGED <<made, intake, pc, row, awaiting, lock, look, phoneVars, queueVars, hostVars,
                   grant, act, history>>

\* list_parked_approvals
TickList ==
    /\ Free("loop") /\ todo = {}
    /\ todo' = {r \in old : row[r] = "pending" /\ awaiting[r]}
    /\ todo' # {}
    /\ UNCHANGED <<runVars, phoneVars, asks, aim, hostVars, grant, act, history>>

\* expire_parked_run for each listed row, without reading it again.
TickExpire ==
    /\ Free("loop") /\ todo # {}
    /\ \E r \in todo :
         /\ todo' = todo \ {r}
         /\ act' = [act EXCEPT !["loop"] = [verb |-> "deny", run |-> r, step |-> "begin"]]
    /\ UNCHANGED <<runVars, phoneVars, asks, aim, hostVars, grant, history>>

-----------------------------------------------------------------------------
(* A run.                                                                  *)

\* Mutant of NeedsAllow: a follow-up of an earlier run is not asked about.
NeedsAllowOnce(r) ==
    intake[r].writes /\ ~intake[r].approved /\ gate /\ ~grant /\ intake[r].from = None

\* writes_need_approval_for
NeedsAllow(r) == intake[r].writes /\ ~intake[r].approved /\ gate /\ ~grant

\* run_task: a halted host makes no run of it.
BeginHalted(r) ==
    /\ pc[r] = "pool" /\ halted
    /\ intake[r].pooled /\ intake[r].writes => lock = None
    /\ pc' = [pc EXCEPT ![r] = "gone"]
    /\ history' = [history EXCEPT !.lost = @ \cup {Slot(r)}]
    /\ UNCHANGED <<made, intake, row, awaiting, lock, look, old, phoneVars, queueVars, hostVars,
                   grant, act>>

\* The pool's write lock, the run's row and its "On it." card.
BeginRun(r) ==
    /\ pc[r] = "pool" /\ ~halted
    /\ intake[r].pooled /\ intake[r].writes => lock = None
    /\ lock' = IF intake[r].pooled /\ intake[r].writes THEN r ELSE lock
    /\ pc' = [pc EXCEPT ![r] = "begun"]
    /\ row' = [row EXCEPT ![r] = "running"]
    /\ Show(Slot(r), r, "onit")
    /\ UNCHANGED <<made, intake, awaiting, old, phoneVars, queueVars, hostVars, grant, act,
                   history>>

ParkOrCook(r) ==
    /\ pc[r] = "begun"
    /\ pc' = [pc EXCEPT ![r] = IF NeedsAllow(r) THEN "park1" ELSE "cook"]
    /\ UNCHANGED <<made, intake, row, awaiting, lock, look, old, phoneVars, queueVars, hostVars,
                   grant, act, history>>

\* _park_for_approval: metadata, then row, then card; the runner returns.
Park1(r) ==
    /\ pc[r] = "park1"
    /\ awaiting' = [awaiting EXCEPT ![r] = TRUE]
    /\ pc' = [pc EXCEPT ![r] = "park2"]
    /\ UNCHANGED <<made, intake, row, lock, look, old, phoneVars, queueVars, hostVars, grant,
                   act, history>>

Park2(r) ==
    /\ pc[r] = "park2"
    /\ row' = [row EXCEPT ![r] = "pending"]
    /\ pc' = [pc EXCEPT ![r] = "park3"]
    /\ UNCHANGED <<made, intake, awaiting, lock, look, old, phoneVars, queueVars, hostVars,
                   grant, act, history>>

\* Mutant of Leave: the write lock is not given back.
LeaveLocked(r) == pc' = [pc EXCEPT ![r] = "gone"] /\ UNCHANGED lock

Leave(r) ==
    /\ pc' = [pc EXCEPT ![r] = "gone"]
    /\ lock' = IF lock = r THEN None ELSE lock

Park3(r) ==
    /\ pc[r] = "park3"
    /\ Show(Slot(r), r, "parked")
    /\ Leave(r)
    /\ UNCHANGED <<made, intake, row, awaiting, old, phoneVars, queueVars, hostVars, grant, act,
                   history>>

CookEnds(r) ==
    /\ pc[r] = "cook"
    /\ \E status \in {"completed", "failed"} : row' = [row EXCEPT ![r] = status]
    /\ pc' = [pc EXCEPT ![r] = "settle"]
    /\ UNCHANGED <<made, intake, awaiting, lock, look, old, phoneVars, queueVars, hostVars,
                   grant, act, history>>

\* The receipt is painted and the thread released.
SettleCard(r) ==
    /\ pc[r] = "settle"
    /\ Show(Slot(r), r, IF row[r] = "completed" THEN "completed" ELSE "failed")
    /\ Leave(r)
    /\ UNCHANGED <<made, intake, row, awaiting, old, phoneVars, queueVars, hostVars, grant, act,
                   history>>

\* The host dies and starts again: fail_stale_runs fails what was running, a
\* parked write survives, stopped cards are repainted.
HostRestart ==
    /\ crashes < MaxCrashes
    /\ crashes' = crashes + 1
    /\ LET stale == {r \in Runs : row[r] = "running" \/ (row[r] = "pending" /\ ~awaiting[r])}
       IN  /\ row' = [r \in Runs |-> IF r \in stale THEN "failed" ELSE row[r]]
           /\ look' = [c \in Runs |->
                          IF look[c].run \in stale THEN [look[c] EXCEPT !.shows = "failed"]
                          ELSE look[c]]
    /\ history' = [history EXCEPT !.lost = @
           \cup {Slot(r) : r \in {q \in Runs : pc[q] \in {"pool", "park3"}}}
           \cup ({act[a].run : a \in Actors} \ {None})]
    /\ pc' = [r \in Runs |-> IF pc[r] = "none" THEN "none" ELSE "gone"]
    /\ lock' = None
    /\ act' = [a \in Actors |-> Idle]
    /\ taps' = <<>> /\ asks' = <<>> /\ todo' = {}
    /\ UNCHANGED <<made, intake, awaiting, old, used, aim, gate, grant, halted, halts>>

-----------------------------------------------------------------------------
Verdict(a) ==
    \/ Begin(a) \/ Look(a) \/ Take(a) \/ CloseParked(a) \/ SubmitApproved(a)
    \/ DenyTake(a) \/ DenyFail(a) \/ DenyPaint(a)

GatewayStep == TakeTap \/ Continue \/ ContinueReturns \/ RetryTap \/ Dismiss \/ Verdict("gw")

RunStep(r) ==
    \/ BeginHalted(r) \/ BeginRun(r) \/ ParkOrCook(r) \/ Park1(r) \/ Park2(r) \/ Park3(r)
    \/ CookEnds(r) \/ SettleCard(r)

Next ==
    \/ TapButton \/ TapAsk \/ TypedAsk \/ Spoken \/ SetHalt
    \/ GatewayStep
    \/ DrainAsk \/ TickList \/ TickExpire \/ Verdict("loop")
    \/ Age
    \/ \E r \in Runs : RunStep(r)
    \/ HostRestart

Spec == Init /\ [][Next]_vars

(* The gateway thread, the loop and the pool run; time passes.  Nothing     *)
(* makes the operator answer or lift a halt.                               *)
Fairness ==
    /\ WF_vars(GatewayStep)
    /\ WF_vars(Verdict("loop")) /\ WF_vars(TickExpire)
    /\ SF_vars(TickList) /\ WF_vars(Age)
    /\ \A r \in Runs : WF_vars(RunStep(r))

FairSpec == Spec /\ Fairness

-----------------------------------------------------------------------------
(* TypeOK: at most one run holds the thread's write lock, inside its run;   *)
(* flags, rows and looks are of their kinds.                               *)
TypeOK ==
    /\ gate \in BOOLEAN /\ grant \in BOOLEAN /\ halted \in BOOLEAN
    /\ made \in 0..MaxRuns
    /\ intake \in [Runs -> [writes : BOOLEAN, approved : BOOLEAN, from : Runs \cup {None},
                            pooled : BOOLEAN]]
    /\ pc \in [Runs -> {"none", "pool", "begun", "park1", "park2", "park3", "cook", "settle",
                        "gone"}]
    /\ row \in [Runs -> Busy \cup {"none", "completed", "failed", "cancelled"}]
    /\ awaiting \in [Runs -> BOOLEAN]
    /\ lock # None => lock \in Runs /\ pc[lock] \notin {"none", "pool", "gone"}
    /\ look \in [Runs -> [run : Runs \cup {None},
                          shows : {"none", "onit", "parked", "completed", "failed", "denied",
                                   "cancelled"}]]
    /\ \A a \in Actors : act[a].step = "idle" <=> act[a] = Idle
    /\ old \subseteq Runs /\ todo \subseteq old

(* AllowedWrites: with the gate on no write cooks that nobody allowed: the  *)
(* thread was granted Always, or the run is the one an Allow of its own     *)
(* parked run submitted, whichever way it was asked for (typed, Ask box,    *)
(* Continue, Retry) and whatever was tapped, spoken or expired meanwhile.   *)
AllowedWrites ==
    \A r \in Runs :
        pc[r] \in {"cook", "settle"} /\ intake[r].writes /\ gate
        => grant \/ (intake[r].approved /\ intake[r].from \in history.allowed)

StartedFrom(p) == {r \in Runs : pc[r] # "none" /\ intake[r].approved /\ intake[r].from = p}

(* StartOnce: a parked write is started once, however often Allow and       *)
(* Always are tapped and spoken.  Excused is an Allow that meets the other  *)
(* thread inside its own verdict of the same run (read, then taken).        *)
StartOnce == \A p \in Runs \ history.raced : Cardinality(StartedFrom(p)) <= 1

Asleep(a) == act[a] = Idle
Resting ==
    /\ \A a \in Actors : Asleep(a)
    /\ taps = <<>>
    /\ \A r \in Runs : pc[r] \in {"none", "gone"}

(* ParkedShown: when nothing moves, the buttons Allow and Deny stand on a   *)
(* card exactly when its run waits for them: no dead buttons, and no        *)
(* waiting write without any.  Excused are runs whose verdict or parking a  *)
(* halt or a death of the host cut short, and a verdict spoken between the *)
(* row and the card of the parking.                                        *)
ParkedShown ==
    Resting =>
        \A r \in Runs \ history.lost :
            (\E c \in Runs : look[c] = [run |-> r, shows |-> "parked"])
            <=> (row[r] = "pending" /\ awaiting[r])

(* NoneParked: in the end no write waits for an answer that does not come: *)
(* the tick denies it, also after a restart.                               *)
NoneParked == \A r \in Runs : ~(row[r] = "pending" /\ awaiting[r])
=============================================================================
