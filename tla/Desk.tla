--------------------------------- MODULE Desk ---------------------------------
(***************************************************************************)
(* The HOST panel and its slash and text twins (host/panel.py,             *)
(* discord/interactions.py, the text verbs of listen.py, service.py): who  *)
(* may operate the host, On and Off, the Always grants that Off revokes,   *)
(* Pair, Roles, Gate, Halt, and the asks that go to the listen loop.       *)
(*                                                                         *)
(* Two threads serve taps at the same time: the gateway thread and the     *)
(* listen loop, which also drains the queue of asks.  Every call of the    *)
(* store is one transaction; a handler makes several.                      *)
(***************************************************************************)
EXTENDS Naturals, FiniteSets

CONSTANTS
    Users,        \* who taps and types
    Holders,      \* the users with the Discord role that Roles may add
    Grants,       \* Always grants: write, tool class, exact tool
    Require,      \* require_operators
    MaxTaps,      \* bound of the model: taps, slash commands and text verbs
    MaxFaults,    \* bound of the model: store calls that raise
    MaxCrashes    \* bound of the model: host restarts

Threads == {"gateway", "loop"}
Acts == {"on", "off", "paint", "pair", "gate", "roles", "halt", "always", "ask", "continue"}
LoopActs == {"on", "off", "paint", "always"}     \* text verbs

VARIABLES
    armed,       \* host_control.armed of the channel
    operators,   \* the operators table
    roleOn,      \* the operator_roles table has the role
    gated,       \* the write gate
    halted,      \* the spend halt
    grants,      \* live Always grants
    pending,     \* a Continue aims the next Ask of the channel
    asks,        \* asks in the listen loop's queue
    at,          \* what each thread is doing
    said,        \* the last On or Off that was carried out, "none" while another goes on
    cooks,       \* jobs started from the desk
    taps, faults, crashes

vars == <<armed, operators, roleOn, gated, halted, grants, pending, asks, at, said, cooks,
          taps, faults, crashes>>

acl   == <<operators, roleOn>>
prefs == <<gated, halted, grants, pending>>
queue == <<asks, cooks>>

-----------------------------------------------------------------------------
Idle == [step |-> "idle", act |-> "none", user |-> "none", row |-> FALSE, listed |-> {},
         stale |-> {}, kept |-> {}, stranger |-> FALSE, blind |-> FALSE]

Fault == faults < MaxFaults /\ faults' = faults + 1

Goto(t, step) == at' = [at EXCEPT ![t].step = step]

IsOperator(u) == u \in operators \cup (IF roleOn THEN Holders ELSE {})

\* author_may_operate: with no operator configured the desk is open unless
\* operators are required; roles do not count as configured.
MayOperate(u, configured) == IF configured THEN IsOperator(u) ELSE ~Require

\* author_may_dispatch: with none configured the first user is seeded, if the
\* table is empty indeed.
MayDispatch(u, configured) ==
    IF configured THEN IsOperator(u) ELSE ~Require /\ operators = {}

Init ==
    /\ armed \in BOOLEAN /\ said = IF armed THEN "on" ELSE "off"
    /\ operators \in {{}} \cup {{u} : u \in Users \ Holders} /\ roleOn \in BOOLEAN
    /\ gated = TRUE /\ halted = FALSE /\ pending = FALSE
    /\ grants \in SUBSET Grants
    /\ asks = 0 /\ cooks = 0
    /\ at = [t \in Threads |-> Idle]
    /\ taps = 0 /\ faults = 0 /\ crashes = 0

-----------------------------------------------------------------------------
(* A tap arrives: who seeds the owner, who may go on.                      *)

Tap(t) ==
    /\ at[t].step = "idle" /\ taps < MaxTaps /\ taps' = taps + 1
    /\ \E u \in Users, a \in IF t = "loop" THEN LoopActs ELSE Acts :
         /\ at' = [at EXCEPT ![t] =
                     [Idle EXCEPT !.act = a, !.user = u,
                                  !.stranger = operators # {} /\ ~IsOperator(u),
                                  !.step = IF a \in {"on", "pair"} THEN "seed" ELSE "check"]]
         /\ said' = IF a = "on" THEN "none" ELSE said
    /\ UNCHANGED <<armed, acl, prefs, queue, faults, crashes>>

\* seed_owner_if_empty reads the table ...
SeedReads(t) ==
    /\ at[t].step = "seed"
    /\ Goto(t, IF (Require /\ at[t].act # "pair") \/ operators # {}
               THEN IF at[t].act = "pair" THEN "paint" ELSE "check"
               ELSE "insert")
    /\ UNCHANGED <<armed, acl, prefs, queue, said, taps, faults, crashes>>

\* ... and adds the owner in a second transaction.
SeedInserts(t) ==
    /\ at[t].step = "insert"
    /\ operators' = operators \cup {at[t].user}
    /\ at' = [u \in Threads |->
                IF u = t
                THEN [at[t] EXCEPT !.step = IF at[t].act = "pair" THEN "paint" ELSE "check"]
                ELSE IF at[u].user = at[t].user THEN [at[u] EXCEPT !.stranger = FALSE]
                ELSE at[u]]
    /\ UNCHANGED <<armed, roleOn, prefs, queue, said, taps, faults, crashes>>

\* The seed raises: nobody is added, and the tap goes on.
SeedFails(t) ==
    /\ at[t].step \in {"seed", "insert"} /\ Fault
    /\ Goto(t, IF at[t].act = "pair" THEN "paint" ELSE "check")
    /\ UNCHANGED <<armed, acl, prefs, queue, said, taps, crashes>>

\* The check ends: the tap goes on or is over; an ask by a first user seeds him.
Checked(t, may, blind) ==
    /\ at' = [at EXCEPT ![t] =
                IF ~may THEN Idle
                ELSE [@ EXCEPT !.blind = blind,
                               !.step = CASE at[t].act \in {"on", "off"} -> "read"
                                          [] at[t].act = "paint"         -> "paint"
                                          [] OTHER                       -> at[t].act]]
    /\ operators' = IF may /\ at[t].act = "ask" /\ operators = {}
                    THEN {at[t].user} ELSE operators
    /\ said' = IF ~may /\ at[t].act = "on" THEN IF armed THEN "on" ELSE "off" ELSE said
    /\ UNCHANGED <<armed, roleOn, prefs, queue, taps, crashes>>

\* _operator_may_click, _slash_author_may_operate; an ask dispatches.
Check(t) ==
    /\ at[t].step = "check"
    /\ LET May(u, configured) == IF at[t].act = "ask" THEN MayDispatch(u, configured)
                                 ELSE MayOperate(u, configured)
       IN  Checked(t, May(at[t].user, operators # {}), FALSE)
    /\ UNCHANGED faults

\* The operators cannot be listed and count as not configured ...
CheckBlind(t) ==
    /\ at[t].step = "check" /\ Fault
    /\ LET May(u) == IF at[t].act = "ask" THEN MayDispatch(u, FALSE) ELSE MayOperate(u, FALSE)
       IN  Checked(t, May(at[t].user), TRUE)

\* ... or the tapper cannot be looked up, or seeded by his ask, and is refused.
CheckFails(t) ==
    /\ at[t].step = "check" /\ (operators # {} \/ at[t].act = "ask") /\ Fault
    /\ Checked(t, FALSE, FALSE)

-----------------------------------------------------------------------------
(* On, Off and every repaint write the whole host_control row.             *)

\* set_host_control reads the row ...
ReadRow(t) ==
    /\ at[t].step \in {"read", "paint"}
    /\ at' = [at EXCEPT ![t].row = armed, ![t].step = IF @ = "read" THEN "write" ELSE "card"]
    /\ UNCHANGED <<armed, acl, prefs, queue, said, taps, faults, crashes>>

\* ... and writes it with the new power.  Off goes on to the grants.
WritePower(t) ==
    /\ at[t].step = "write"
    /\ armed' = (at[t].act = "on")
    /\ said' = IF \E u \in Threads \ {t} : at[u].act \in {"on", "off"} THEN "none" ELSE at[t].act
    /\ Goto(t, IF at[t].act = "on" THEN "paint" ELSE "list")
    /\ UNCHANGED <<acl, prefs, queue, taps, faults, crashes>>

\* _remember_panel_message, publish_host_card: the row is written with the new
\* card_message_id and the power that was read.
WriteCard(t) ==
    /\ at[t].step = "card"
    /\ armed' = at[t].row
    /\ at' = [at EXCEPT ![t] = Idle]
    /\ UNCHANGED <<acl, prefs, queue, said, taps, faults, crashes>>

\* The paint fails before the row is written, or it is a text verb's edit.
PaintOnly(t) ==
    /\ at[t].step = "card"
    /\ at' = [at EXCEPT ![t] = Idle]
    /\ UNCHANGED <<armed, acl, prefs, queue, said, taps, faults, crashes>>

\* clear_write_session_allows lists the preferences ...
ListGrants(t) ==
    /\ at[t].step = "list"
    /\ at' = [at EXCEPT ![t].listed = grants, ![t].stale = grants, ![t].step = "revoke"]
    /\ UNCHANGED <<armed, acl, prefs, queue, said, taps, faults, crashes>>

\* The list raises: the Off goes on and every grant stays.
ListFails(t) ==
    /\ at[t].step = "list" /\ Fault
    /\ at' = [at EXCEPT ![t].stale = grants, ![t].kept = grants, ![t].step = "revoke"]
    /\ UNCHANGED <<armed, acl, prefs, queue, said, taps, crashes>>

\* Mutant of Revoke: the loop ends after its first grant.
RevokeFirst(t) ==
    /\ at[t].step = "revoke"
    /\ \/ /\ at[t].listed = {} /\ Goto(t, "paint") /\ UNCHANGED grants
       \/ \E g \in at[t].listed :
            /\ grants' = grants \ {g}
            /\ at' = [at EXCEPT ![t].listed = {}, ![t].stale = @ \ {g}]
    /\ UNCHANGED <<armed, acl, gated, halted, pending, queue, said, taps, faults, crashes>>

\* ... and clears one after the other.
Revoke(t) ==
    /\ at[t].step = "revoke"
    /\ \/ /\ at[t].listed = {} /\ Goto(t, "paint") /\ UNCHANGED grants
       \/ \E g \in at[t].listed :
            /\ grants' = grants \ {g}
            /\ at' = [at EXCEPT ![t].listed = @ \ {g}, ![t].stale = @ \ {g}]
    /\ UNCHANGED <<armed, acl, gated, halted, pending, queue, said, taps, faults, crashes>>

\* The write of one grant raises: it stays, and the loop goes on to the next.
RevokeFails(t) ==
    /\ at[t].step = "revoke" /\ Fault
    /\ \E g \in at[t].listed :
         at' = [at EXCEPT ![t].listed = @ \ {g}, ![t].kept = @ \cup {g}]
    /\ UNCHANGED <<armed, acl, prefs, queue, said, taps, crashes>>

\* set_write_session_allow and its tool twins, from a card or a spoken Always.
Always(t) ==
    /\ at[t].step = "always"
    /\ \E g \in Grants :
         /\ grants' = grants \cup {g}
         /\ at' = [u \in Threads |-> IF u = t THEN Idle
                                     ELSE [at[u] EXCEPT !.stale = @ \ {g}]]
    /\ UNCHANGED <<armed, acl, gated, halted, pending, queue, said, taps, faults, crashes>>

\* A grant's TTL ends: the reader that finds it so clears it.
GrantEnds ==
    /\ \E g \in grants :
         /\ grants' = grants \ {g}
         /\ at' = [t \in Threads |-> [at[t] EXCEPT !.stale = @ \ {g}]]
    /\ UNCHANGED <<armed, acl, gated, halted, pending, queue, said, taps, faults, crashes>>

-----------------------------------------------------------------------------
(* The gateway's other taps.                                               *)

Gate(t) ==
    /\ at[t].step = "gate"
    /\ gated' = ~gated /\ Goto(t, "paint")
    /\ UNCHANGED <<armed, acl, halted, grants, pending, queue, said, taps, faults, crashes>>

Roles(t) ==
    /\ at[t].step = "roles"
    /\ \E on \in BOOLEAN :
         /\ roleOn' = on
         /\ at' = [u \in Threads |->
                     IF u = t THEN [at[t] EXCEPT !.step = "paint"]
                     ELSE IF on /\ at[u].user \in Holders THEN [at[u] EXCEPT !.stranger = FALSE]
                     ELSE at[u]]
    /\ UNCHANGED <<armed, operators, prefs, queue, said, taps, faults, crashes>>

HaltOrResume(t) ==
    /\ at[t].step = "halt"
    /\ halted' \in BOOLEAN /\ Goto(t, "paint")
    /\ UNCHANGED <<armed, acl, gated, grants, pending, queue, said, taps, faults, crashes>>

\* Continue aims the next Ask and runs the thread's next job on this thread, On
\* or Off; halted, run_task refuses it.
Continue(t) ==
    /\ at[t].step = "continue"
    /\ pending' = TRUE
    /\ \E busy \in BOOLEAN : cooks' = IF busy \/ halted THEN cooks ELSE cooks + 1
    /\ at' = [at EXCEPT ![t] = Idle]
    /\ UNCHANGED <<armed, acl, gated, halted, grants, asks, said, taps, faults, crashes>>

\* on_ask_here: an Ask that is aimed continues its job, or is lost when that is
\* busy; one that is not, or whose continue raised, is queued.
Asked(t) ==
    /\ \/ pending /\ UNCHANGED queue
       \/ pending /\ ~halted /\ cooks' = cooks + 1 /\ UNCHANGED asks
       \/ asks' = asks + 1 /\ UNCHANGED cooks
    /\ at' = [at EXCEPT ![t] = Idle]
    /\ UNCHANGED <<armed, acl, gated, halted, grants, said, taps, crashes>>

Ask(t) ==
    /\ at[t].step = "ask"
    /\ Asked(t)
    /\ pending' = FALSE
    /\ UNCHANGED faults

\* clear_pending_continue fails: the next Ask is aimed too.
AskStaysAimed(t) ==
    /\ at[t].step = "ask" /\ pending /\ Fault
    /\ Asked(t)
    /\ UNCHANGED pending

\* The loop drains one ask: Off and Halt answer it with a notice, once.
Drain ==
    /\ at["loop"].step = "idle" /\ asks > 0
    /\ asks' = asks - 1
    /\ cooks' = IF armed /\ ~halted THEN cooks + 1 ELSE cooks
    /\ UNCHANGED <<armed, acl, prefs, at, said, taps, faults, crashes>>

\* The host dies: the queue was in memory.
HostDies ==
    /\ crashes < MaxCrashes /\ crashes' = crashes + 1
    /\ at' = [t \in Threads |-> Idle]
    /\ asks' = 0 /\ said' = IF said = "none" THEN IF armed THEN "on" ELSE "off" ELSE said
    /\ UNCHANGED <<armed, acl, prefs, cooks, taps, faults>>

-----------------------------------------------------------------------------
ThreadStep(t) ==
    \/ SeedReads(t) \/ SeedInserts(t) \/ Check(t)
    \/ ReadRow(t) \/ WritePower(t) \/ WriteCard(t) \/ PaintOnly(t)
    \/ ListGrants(t) \/ Revoke(t) \/ Always(t)
    \/ Gate(t) \/ Roles(t) \/ HaltOrResume(t) \/ Continue(t) \/ Ask(t)

FaultStep(t) ==
    \/ SeedFails(t) \/ CheckBlind(t) \/ CheckFails(t)
    \/ ListFails(t) \/ RevokeFails(t) \/ AskStaysAimed(t)

Next ==
    \/ \E t \in Threads : Tap(t) \/ ThreadStep(t) \/ FaultStep(t)
    \/ GrantEnds \/ Drain \/ HostDies

Spec == Init /\ [][Next]_vars

\* Both threads run.
Fairness ==
    /\ \A t \in Threads : WF_vars(ThreadStep(t))
    /\ WF_vars(Drain)

FairSpec == Spec /\ Fairness

-----------------------------------------------------------------------------
(* TypeOK: the tables and the threads are of their kinds.                  *)
TypeOK ==
    /\ armed \in BOOLEAN /\ operators \subseteq Users /\ roleOn \in BOOLEAN
    /\ gated \in BOOLEAN /\ halted \in BOOLEAN /\ grants \subseteq Grants
    /\ pending \in BOOLEAN /\ asks \in 0..MaxTaps /\ cooks \in 0..MaxTaps
    /\ \A t \in Threads :
         /\ at[t].step \in {"idle", "seed", "insert", "check", "read", "write", "paint", "card",
                            "list", "revoke"} \cup Acts
         /\ at[t].act \in Acts \cup {"none"} /\ at[t].user \in Users \cup {"none"}
         /\ at[t].row \in BOOLEAN /\ at[t].stranger \in BOOLEAN
         /\ at[t].blind \in BOOLEAN /\ at[t].listed \subseteq Grants
         /\ at[t].stale \subseteq Grants /\ at[t].kept \subseteq Grants
    /\ said \in {"on", "off", "none"} /\ taps \in 0..MaxTaps
    /\ faults \in 0..MaxFaults /\ crashes \in 0..MaxCrashes

(* DeskHolds: the fail-closed side of the desk, whatever taps cross.       *)
(* Someone who is no operator when he taps, with an owner in the table,    *)
(* never gets past the check, unless he was made one meanwhile or the      *)
(* operators could not be listed (operators_configured then says there are *)
(* none and opens the desk): neither the seed of the first On nor one that *)
(* fails nor a role that is taken away lets him in.  With operators        *)
(* required no one dispatches before the Pair, listed or not.  And an Off  *)
(* that is through leaves of the Always that stood when it began ("Every   *)
(* Off path revokes all Always grants", service.py:305) those alone whose  *)
(* listing or clearing raised, also when new ones are given or old ones    *)
(* end beside it.                                                          *)
DeskHolds ==
    /\ \A t \in Threads :
         /\ at[t].stranger => \/ at[t].step \in {"idle", "seed", "check"}
                              \/ at[t].act = "pair" \/ (at[t].blind /\ ~Require)
         /\ at[t].act = "off" /\ at[t].step \in {"paint", "card"} =>
                at[t].stale \subseteq at[t].kept
    /\ Require /\ operators = {} => cooks = 0

(* OffSticks: a channel that was turned Off is Off until someone turns it  *)
(* On ("Off -> Confirm: Disarmed", docs/host/README.md:42).                *)
OffSticks == said = "off" => ~armed

(* DeskRests: in the end no thread is inside a tap and no ask is queued.   *)
DeskRests == asks = 0 /\ \A t \in Threads : at[t].step = "idle"
=============================================================================
