-------------------------------- MODULE Slash --------------------------------
(***************************************************************************)
(* Slash commands (discord/interactions.py): the life of an interaction    *)
(* from the tap to the reply, over the gateway socket or the HTTP server.  *)
(*                                                                         *)
(* Discord waits a few seconds for the reply and then tells the user that  *)
(* the application did not respond; the handler goes on.  Who may go on is *)
(* read from the roster of operators, which the first /on and the first    *)
(* ask of an open desk seed.  What /on, /bind, /features and /clear-needs  *)
(* change is in Desk, Wiring and Panel: here it is one effect of an        *)
(* operator's command.  The Continue aim that an ask in the panel's own    *)
(* channel goes through is in Panel.                                       *)
(***************************************************************************)
EXTENDS Naturals, FiniteSets

CONSTANTS
    Users,      \* who taps
    Taps,       \* interactions, numbers in the order they are sent in
    Chans,      \* channels that a realm can be bound to
    Require,    \* DISCORD_OS_REQUIRE_OPERATORS
    MaxMoves,   \* bound of the model: moves of the roster and of the realm
    MaxFaults,  \* bound of the model: refused posts, lost replies, restarts
    None        \* nothing

\* /ask, the message command, /on, the other commands that change something, /job, and
\* what anybody may look at: /status and an autocompletion.
Kinds == {"ask", "message", "on", "act", "job", "look"}

\* _OPERATOR_COMMANDS.
Guarded == {"ask", "on", "act", "job"}

VARIABLES
    mode,        \* AGENT_DISCORD_INTERACTIONS of the host
    operators,   \* the operators table
    realm,       \* the channel the realm is bound to
    tap,         \* each interaction
    queue,       \* asks in the memory of the host: interaction, channel
    cooked,      \* asks the listen loop took
    moves, faults

vars == <<mode, operators, realm, tap, queue, cooked, moves, faults>>

desk == <<operators, realm, queue, cooked>>

-----------------------------------------------------------------------------
NoTap == [step |-> "none", kind |-> None, user |-> None, outside |-> FALSE, aimed |-> FALSE,
          chan |-> None, reply |-> None, seen |-> FALSE, done |-> 0, roster |-> {}, homes |-> {},
          open |-> FALSE, blind |-> FALSE]

Fault == faults < MaxFaults /\ faults' = faults + 1

Init ==
    /\ mode \in {"gateway", "http"}
    /\ operators \in {{}, {CHOOSE u \in Users : TRUE}}    \* they differ in name only
    /\ realm = CHOOSE c \in Chans : TRUE    \* they differ in name only
    /\ tap = [i \in Taps |-> NoTap]
    /\ queue = {} /\ cooked = {}
    /\ moves = 0 /\ faults = 0

-----------------------------------------------------------------------------
(* The roster and the realm move beside the handlers.                      *)

\* What held at some moment since the tap: who was an operator, where the realm was,
\* whether nobody was an operator.
Sees(o, ops, chan) ==
    IF o.step \in {"none", "over"} THEN o
    ELSE [o EXCEPT !.roster = @ \cup ops, !.homes = @ \cup {chan}, !.open = @ \/ ops = {}]

Watched(ops, chan) == [i \in Taps |-> Sees(tap[i], ops, chan)]

Pair(u) ==
    /\ moves < MaxMoves /\ moves' = moves + 1
    /\ operators' = IF u \in operators /\ Cardinality(operators) > 1
                    THEN operators \ {u} ELSE operators \cup {u}
    /\ tap' = Watched(operators', realm)
    /\ UNCHANGED <<mode, realm, queue, cooked, faults>>

Rebind ==
    /\ moves < MaxMoves /\ moves' = moves + 1
    /\ \E c \in Chans \ {realm} : realm' = c
    /\ tap' = Watched(operators, realm')
    /\ UNCHANGED <<mode, operators, queue, cooked, faults>>

-----------------------------------------------------------------------------
(* One interaction.                                                        *)

Put(i, o) == tap' = [tap EXCEPT ![i] = o]

Tap(i) ==
    /\ tap[i].step = "none" /\ \A j \in Taps : j < i => tap[j].step # "none"
    /\ \E k \in Kinds, u \in Users, out \in BOOLEAN, aim \in BOOLEAN :
         /\ aim => k = "ask" /\ ~out
         /\ Put(i, [NoTap EXCEPT !.step = "sent", !.kind = k, !.user = u, !.outside = out,
                                 !.aimed = aim, !.roster = operators, !.homes = {realm},
                                 !.open = operators = {}])
    /\ UNCHANGED <<mode, desk, moves, faults>>

\* The gateway thread serves one after the other, the HTTP server each on its thread.
Served(i) == \E j \in Taps \ {i} : tap[j].step \notin {"none", "sent", "over"}

\* is_user_install_context.
Outside(i) == tap[i].outside

Denied(i)  == Put(i, [tap[i] EXCEPT !.step = "reply", !.reply = "denied"])
Goes(i, s) == Put(i, [tap[i] EXCEPT !.step = s])

\* handle_interaction_payload.  /on first seeds the owner, unless operators are required
\* or it comes from outside our server.
Open(i) ==
    /\ tap[i].step = "sent" /\ (mode = "gateway" => ~Served(i))
    /\ Goes(i, CASE tap[i].kind = "on" /\ ~Require /\ ~Outside(i) -> "seed"
                 [] tap[i].kind = "message" -> "aim"
                 [] tap[i].kind = "look" -> "look"
                 [] OTHER -> "check")
    /\ UNCHANGED <<mode, desk, moves, faults>>

\* /job and the choices of an autocompletion are read from the store.
LookUp(i) ==
    /\ tap[i].step = "look"
    /\ Put(i, [tap[i] EXCEPT !.step = "reply", !.reply = "done"])
    /\ UNCHANGED <<mode, desk, moves, faults>>

Paired(i) == tap[i].user \in operators

\* _slash_author_may_operate: outside our server the desk is never open.
MayOperate(i, configured) ==
    IF configured \/ Outside(i) THEN Paired(i) ELSE ~Require

AfterCheck(i) == CASE tap[i].kind = "ask" -> "aim" [] tap[i].kind = "job" -> "look"
                   [] OTHER -> "effect"

Check(i) ==
    /\ tap[i].step = "check"
    /\ IF MayOperate(i, operators # {}) THEN Goes(i, AfterCheck(i)) ELSE Denied(i)
    /\ UNCHANGED <<mode, desk, moves, faults>>

\* The channel of the realm option, home_channel for a tap from outside, its own channel.
Target(i) == IF tap[i].aimed \/ Outside(i) THEN realm ELSE "here"

Aim(i) ==
    /\ tap[i].step = "aim"
    /\ Put(i, [tap[i] EXCEPT !.step = "dispatch", !.chan = Target(i)])
    /\ UNCHANGED <<mode, desk, moves, faults>>

\* _may_dispatch: an operator, or the first to ask on an open desk.
MaySeed(i) == ~Require /\ ~Outside(i)

\* The HTTP server has no queue for an ask.
AfterDispatch(o) ==
    IF mode = "gateway" THEN [o EXCEPT !.step = "effect"]
    ELSE [o EXCEPT !.step = "reply", !.reply = "noQueue"]

Dispatch(i) ==
    /\ tap[i].step = "dispatch"
    /\ IF Paired(i) THEN Put(i, AfterDispatch(tap[i]))
       ELSE IF operators = {} /\ MaySeed(i) THEN Goes(i, "seed") ELSE Denied(i)
    /\ UNCHANGED <<mode, desk, moves, faults>>

\* seed_owner_if_empty reads the table, and an ask that finds an owner is refused ...
Seed(i) ==
    /\ tap[i].step = "seed"
    /\ IF operators = {} THEN Goes(i, "insert")
       ELSE IF tap[i].kind = "on" THEN Goes(i, "check") ELSE Denied(i)
    /\ UNCHANGED <<mode, desk, moves, faults>>

\* ... and adds the owner in a second transaction.  Whom a tap has seeded is no
\* operator in its own roster.
Insert(i) ==
    /\ tap[i].step = "insert"
    /\ operators' = operators \cup {tap[i].user}
    /\ tap' = [Watched(operators', realm) EXCEPT
                 ![i] = IF tap[i].kind = "on" THEN [tap[i] EXCEPT !.step = "check"]
                        ELSE AfterDispatch(tap[i])]
    /\ UNCHANGED <<mode, realm, queue, cooked, moves, faults>>

\* operators_configured is false when the operators cannot be listed: a command goes on
\* as on an open desk, an ask goes on to the seed, which lists them again.
CheckBlind(i) ==
    /\ tap[i].step \in {"check", "dispatch"} /\ ~Outside(i) /\ Fault
    /\ IF Require THEN Denied(i)
       ELSE IF tap[i].step = "dispatch" THEN Goes(i, "seed")
       ELSE Put(i, [tap[i] EXCEPT !.step = AfterCheck(i), !.blind = TRUE])
    /\ UNCHANGED <<mode, desk, moves>>

\* The tapper cannot be looked up, or seeded by his ask, and is refused.
CheckFails(i) ==
    /\ \/ tap[i].step \in {"check", "dispatch"}
       \/ tap[i].step \in {"seed", "insert"} /\ tap[i].kind # "on"
    /\ Fault /\ Denied(i)
    /\ UNCHANGED <<mode, desk, moves>>

\* The seed of /on raises: nobody is added, and the check follows.
SeedFails(i) ==
    /\ tap[i].step \in {"seed", "insert"} /\ tap[i].kind = "on" /\ Fault
    /\ Goes(i, "check")
    /\ UNCHANGED <<mode, desk, moves>>

\* on_ask puts the ask into the queue of the listen loop.
Ask(i) ==
    /\ tap[i].step = "effect" /\ tap[i].kind \in {"ask", "message"}
    /\ queue' = queue \cup {[i |-> i, c |-> tap[i].chan]}
    /\ Put(i, [tap[i] EXCEPT !.step = "reply", !.reply = "done", !.done = @ + 1])
    /\ UNCHANGED <<mode, operators, realm, cooked, moves, faults>>

\* What a command changes: the power, a binding, a feature, the Needs.
Act(i) ==
    /\ tap[i].step = "effect" /\ tap[i].kind \in {"on", "act"}
    /\ Put(i, [tap[i] EXCEPT !.step = "reply", !.reply = "done", !.done = @ + 1])
    /\ UNCHANGED <<mode, desk, moves, faults>>

\* A handler that raises answers with its error.
EffectFails(i) ==
    /\ tap[i].step \in {"look", "aim", "dispatch", "effect"} /\ Fault
    /\ Put(i, [tap[i] EXCEPT !.step = "reply", !.reply = "failed"])
    /\ UNCHANGED <<mode, desk, moves>>

\* callback_interaction, or the body of the HTTP response.
Reply(i) ==
    /\ tap[i].step = "reply"
    /\ Put(i, [tap[i] EXCEPT !.step = "over", !.seen = TRUE])
    /\ UNCHANGED <<mode, desk, moves, faults>>

\* The POST fails or comes too late: a dropped reply, not a dead listen loop.
ReplyLost(i) ==
    /\ tap[i].step = "reply" /\ Fault
    /\ Put(i, [tap[i] EXCEPT !.step = "over"])
    /\ UNCHANGED <<mode, desk, moves>>

\* The host is restarted: what its threads were doing and the queue are gone.
HostStarts ==
    /\ Fault
    /\ tap' = [i \in Taps |-> IF mode = "gateway" /\ tap[i].step \notin {"none", "sent", "over"}
                              THEN [tap[i] EXCEPT !.step = "over"] ELSE tap[i]]
    /\ queue' = {}
    /\ UNCHANGED <<mode, operators, realm, cooked, moves>>

\* The listen loop takes an ask.
Take ==
    /\ \E a \in queue : queue' = queue \ {a} /\ cooked' = cooked \cup {a}
    /\ UNCHANGED <<mode, operators, realm, tap, moves, faults>>

-----------------------------------------------------------------------------
Handle(i) ==
    \/ Open(i) \/ LookUp(i) \/ Check(i) \/ Aim(i) \/ Dispatch(i) \/ Seed(i) \/ Insert(i)
    \/ Ask(i) \/ Act(i) \/ Reply(i)

Fails(i) == CheckBlind(i) \/ CheckFails(i) \/ SeedFails(i) \/ EffectFails(i) \/ ReplyLost(i)

Next ==
    \/ \E u \in Users : Pair(u)
    \/ Rebind
    \/ \E i \in Taps : Tap(i) \/ Handle(i) \/ Fails(i)
    \/ Take \/ HostStarts

Spec == Init /\ [][Next]_vars

\* The threads of the host run.
FairSpec ==
    /\ Spec
    /\ \A i \in Taps : WF_vars(Handle(i))
    /\ WF_vars(Take)

-----------------------------------------------------------------------------
(* What it promises.                                                       *)

TypeOK ==
    /\ operators \subseteq Users /\ realm \in Chans
    /\ \A a \in queue \cup cooked : a.i \in Taps /\ a.c \in Chans \cup {"here"}
    /\ \A i \in Taps : tap[i].done \in 0..1

\* The tapper was an operator at some moment of the interaction; or operators are not
\* required, he tapped on our server, and the desk was open at some moment of it or its
\* operators could not be listed (service.py:689).
Entitled(i) ==
    \/ tap[i].user \in tap[i].roster
    \/ ~Require /\ ~tap[i].outside /\ (tap[i].open \/ tap[i].blind)

\* The reply tells what happened: "On it." once the ask is queued, exactly once, and
\* not at all for a tap that is denied, that failed or that the HTTP server answered;
\* and nothing is done, and no job shown, but for one who is entitled to it.
ReplyTrue ==
    \A i \in Taps :
        /\ tap[i].seen =>
               (tap[i].done = 1 <=> tap[i].reply = "done" /\ tap[i].kind \notin {"job", "look"})
        /\ tap[i].done = 1 \/ (tap[i].reply = "done" /\ tap[i].kind = "job") => Entitled(i)
        /\ Cardinality({a \in queue \cup cooked : a.i = i}) <= tap[i].done

\* "the realm option only picks which bound channel it lands in" (interactions.py:1105):
\* an ask lands in a channel the realm was bound to while it was handled.
LandsBound ==
    \A a \in queue \cup cooked : a.c # "here" => a.c \in tap[a.i].homes

\* In the end every tap is answered or over and every ask taken.
SlashRests ==
    /\ \A i \in Taps : tap[i].step \in {"none", "over"}
    /\ queue = {}
=============================================================================
