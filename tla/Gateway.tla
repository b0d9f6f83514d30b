-------------------------------- MODULE Gateway --------------------------------
(***************************************************************************)
(* The host's connection to Discord's gateway, over which every button tap *)
(* comes: run_discord_gateway (discord/realtime.py), one call per socket,  *)
(* the loop around it (cli.py, loop), the resume state that outlives a     *)
(* socket (GatewaySession) and the heartbeat health it looks at            *)
(* (discord/gateway_health.py).  Discord is the other end of the wire: its *)
(* sessions number their events, a RESUME replays what came after the      *)
(* client's last number.                                                   *)
(***************************************************************************)
EXTENDS Naturals, Sequences

CONSTANTS
    MaxTaps,     \* bound of the model: taps Discord sends
    MaxFaults,   \* bound of the model: drops, closes, silences, lost sessions
    AttemptCap   \* where the backoff ladder stops growing

VARIABLES
    phase,       \* the loop: "idle", "open" (a socket), "backoff", "down"
    session,     \* GatewaySession: id (0 none), seq (0 none), url known
    seen,        \* GatewaySession._ready_seen
    resuming,    \* what this socket does at Hello
    greeted,     \* Hello came: the READY deadline runs
    ready,       \* READY or RESUMED came on this socket
    health,      \* gateway_health: ready, and the last ACK: none, fresh, stale
    attempt,     \* rung of the backoff ladder
    wire,        \* messages on their way to the client
    attached,    \* Discord has authenticated this socket
    owes,        \* what Discord must answer: "none", "identify", "resume"
    silent,      \* the socket looks open and nothing comes any more
    discord,     \* Discord's session: id, valid, number of its last event
    urlDead,     \* the resume host of the session has gone away
    got,         \* history: the taps given to on_dispatch
    taps, faults

vars == <<phase, session, seen, resuming, greeted, ready, health, attempt, wire, attached,
          owes, silent, discord, urlDead, got, taps, faults>>

socketVars == <<resuming, greeted, ready>>
serverVars == <<discord, urlDead>>
linkVars   == <<wire, attached, owes, silent>>

-----------------------------------------------------------------------------
NoSession == [id |-> 0, seq |-> 0, url |-> FALSE]
Message(op, n) == [op |-> op, n |-> n]
CanResume == session.id # 0 /\ session.seq # 0

Init ==
    /\ phase = "idle" /\ session = NoSession /\ seen = FALSE
    /\ resuming = FALSE /\ greeted = FALSE /\ ready = FALSE
    /\ health = [ready |-> FALSE, ack |-> "none"] /\ attempt = 0
    /\ wire = <<>> /\ attached = FALSE /\ owes = "none" /\ silent = FALSE
    /\ discord = [id |-> 0, valid |-> FALSE, last |-> 0] /\ urlDead = FALSE
    /\ got = <<>> /\ taps = 0 /\ faults = 0

Fault == faults < MaxFaults /\ faults' = faults + 1

\* The socket is gone for both ends.
Unlink ==
    /\ wire' = <<>> /\ attached' = FALSE /\ owes' = "none" /\ silent' = FALSE
    /\ greeted' = FALSE /\ ready' = FALSE

-----------------------------------------------------------------------------
(* One socket: run_discord_gateway.                                        *)

\* A resume goes to the resume host; note_connected forgets the old READY and ACK.
Connect ==
    /\ phase = "idle"
    /\ resuming' = CanResume
    /\ ~(CanResume /\ session.url /\ urlDead)
    /\ phase' = "open" /\ wire' = <<Message("hello", 0)>>
    /\ health' = [ready |-> FALSE, ack |-> "none"]
    /\ UNCHANGED <<session, seen, greeted, ready, attempt, attached, owes, silent, serverVars,
                   got, taps, faults>>

\* DNS, TCP or TLS fails, as it always does for a host that is gone.
ConnectFails ==
    /\ phase = "idle"
    /\ IF CanResume /\ session.url /\ urlDead THEN UNCHANGED faults ELSE Fault
    /\ phase' = "backoff"
    /\ UNCHANGED <<session, seen, socketVars, health, attempt, linkVars, serverVars, got, taps>>

Receives(op) == phase = "open" /\ ~silent /\ wire # <<>> /\ Head(wire).op = op

\* op 10: RESUME or IDENTIFY.
TakeHello ==
    /\ Receives("hello")
    /\ wire' = Tail(wire)
    /\ greeted' = TRUE
    /\ owes' = IF resuming THEN "resume" ELSE "identify"
    /\ UNCHANGED <<phase, session, seen, resuming, ready, health, attempt, attached, silent,
                   serverVars, got, taps, faults>>

\* The session and this socket are up; READY counts as a first ACK.
BecomeReady ==
    /\ ready' = TRUE /\ seen' = TRUE
    /\ health' = [ready |-> TRUE, ack |-> IF health.ack = "none" THEN "fresh" ELSE health.ack]

TakeReady ==
    /\ Receives("ready")
    /\ wire' = Tail(wire)
    /\ session' = [id |-> discord.id, seq |-> Head(wire).n, url |-> TRUE]
    /\ BecomeReady
    /\ UNCHANGED <<phase, resuming, greeted, attempt, attached, owes, silent, serverVars, got,
                   taps, faults>>

TakeResumed ==
    /\ Receives("resumed")
    /\ wire' = Tail(wire)
    /\ session' = [session EXCEPT !.seq = Head(wire).n]
    /\ BecomeReady
    /\ UNCHANGED <<phase, resuming, greeted, attempt, attached, owes, silent, serverVars, got,
                   taps, faults>>

\* Mutant of TakeTap: the number is kept for this socket only.
TakeTapLocal ==
    /\ Receives("tap")
    /\ wire' = Tail(wire)
    /\ got' = Append(got, <<session.id, Head(wire).n>>)
    /\ UNCHANGED <<phase, session, seen, socketVars, health, attempt, attached, owes, silent,
                   serverVars, taps, faults>>

\* op 0: the number goes into the session, the event to on_dispatch, which may raise.
TakeTap ==
    /\ Receives("tap")
    /\ wire' = Tail(wire)
    /\ session' = [session EXCEPT !.seq = Head(wire).n]
    /\ got' = Append(got, <<session.id, Head(wire).n>>)
    /\ UNCHANGED <<phase, seen, socketVars, health, attempt, attached, owes, silent, serverVars,
                   taps, faults>>

\* op 9: the session is kept only if Discord says it can be resumed.
TakeInvalid ==
    /\ \E kept \in BOOLEAN :
         /\ Receives(IF kept THEN "invalid" ELSE "invalid for good")
         /\ session' = IF kept THEN session ELSE NoSession
    /\ Unlink
    /\ phase' = "backoff"
    /\ UNCHANGED <<seen, resuming, health, attempt, serverVars, got, taps, faults>>

\* op 7, and a close with a code that keeps the session.
TakeMove ==
    /\ Receives("move")
    /\ Unlink
    /\ phase' = "backoff"
    /\ UNCHANGED <<session, seen, resuming, health, attempt, serverVars, got, taps, faults>>

\* A close code of REIDENTIFY_CLOSE_CODES.
TakeReidentify ==
    /\ Receives("reidentify")
    /\ session' = NoSession
    /\ Unlink
    /\ phase' = "backoff"
    /\ UNCHANGED <<seen, resuming, health, attempt, serverVars, got, taps, faults>>

\* FATAL_CLOSE_CODES: the host is disarmed, discord_down is set, the loop returns.
TakeFatal ==
    /\ Receives("fatal")
    /\ session' = NoSession
    /\ Unlink
    /\ phase' = "down"
    /\ UNCHANGED <<seen, resuming, health, attempt, serverVars, got, taps, faults>>

Idle == phase = "open" /\ (silent \/ wire = <<>>)

\* Hello, then nothing: given up after ready_deadline_s.
ReadyDeadline ==
    /\ Idle /\ greeted /\ ~ready
    /\ silent \/ owes # "none"
    /\ IF silent THEN UNCHANGED faults ELSE Fault
    /\ Unlink
    /\ phase' = "backoff"
    /\ UNCHANGED <<session, seen, resuming, health, attempt, serverVars, got, taps>>

\* snapshot_gateway_health says "heartbeat ACK stale".
AckStale ==
    /\ Idle /\ health.ready /\ health.ack = "stale"
    /\ Unlink
    /\ phase' = "backoff"
    /\ UNCHANGED <<session, seen, resuming, health, attempt, serverVars, got, taps, faults>>

\* The read fails: a reset, a broken pipe, a close without a code.
SocketDrops ==
    /\ phase = "open" /\ Fault
    /\ Unlink
    /\ phase' = "backoff"
    /\ UNCHANGED <<session, seen, resuming, health, attempt, serverVars, got, taps>>

\* Nothing answers the heartbeats of a silent socket.
AckAges ==
    /\ phase = "open" /\ silent /\ health.ack = "fresh"
    /\ health' = [health EXCEPT !.ack = "stale"]
    /\ UNCHANGED <<phase, session, seen, socketVars, attempt, linkVars, serverVars, got, taps,
                   faults>>

\* consume_ready: a session that was READY starts the ladder anew.
Backoff ==
    /\ phase = "backoff"
    /\ attempt' = IF seen THEN 1 ELSE IF attempt < AttemptCap THEN attempt + 1 ELSE attempt
    /\ seen' = FALSE
    /\ phase' = "idle"
    /\ UNCHANGED <<session, socketVars, health, linkVars, serverVars, got, taps, faults>>

-----------------------------------------------------------------------------
(* Discord and the network.                                                *)

Send(messages) == wire' = wire \o messages

Identify ==
    /\ owes = "identify" /\ ~silent
    /\ discord' = [id |-> discord.id + 1, valid |-> TRUE, last |-> 1]
    /\ urlDead' = FALSE
    /\ Send(<<Message("ready", 1)>>)
    /\ owes' = "none" /\ attached' = TRUE
    /\ UNCHANGED <<phase, session, seen, socketVars, health, attempt, silent, got, taps, faults>>

\* The events after the client's number, then RESUMED; or the session is unknown.
Resume ==
    /\ owes = "resume" /\ ~silent
    /\ IF discord.valid /\ discord.id = session.id
       THEN /\ Send([i \in 1..(discord.last - session.seq) |->
                        Message("tap", session.seq + i)]
                    \o <<Message("resumed", discord.last)>>)
            /\ attached' = TRUE
       ELSE Send(<<Message("invalid for good", 0)>>) /\ UNCHANGED attached
    /\ owes' = "none"
    /\ UNCHANGED <<phase, session, seen, socketVars, health, attempt, silent, serverVars, got,
                   taps, faults>>

\* A tap is an event of the valid session, whether its socket is there or not.
PhoneTaps ==
    /\ taps < MaxTaps /\ discord.valid
    /\ taps' = taps + 1
    /\ discord' = [discord EXCEPT !.last = @ + 1]
    /\ wire' = IF attached THEN Append(wire, Message("tap", discord.last + 1)) ELSE wire
    /\ UNCHANGED <<phase, session, seen, socketVars, health, attempt, attached, owes, silent,
                   urlDead, got, faults>>

\* Discord closes this socket or asks the client to move.
Shove ==
    /\ phase = "open" /\ ~silent /\ Fault
    /\ \E op \in {"invalid", "invalid for good", "move", "reidentify", "fatal"} :
         Send(<<Message(op, 0)>>)
    /\ attached' = FALSE /\ owes' = "none"
    /\ UNCHANGED <<phase, session, seen, socketVars, health, attempt, silent, serverVars, got,
                   taps>>

\* TCP stays up, nothing comes any more.  After Hello: a socket that is silent
\* before it has no deadline in the code.
FallSilent ==
    /\ phase = "open" /\ ~silent /\ greeted /\ Fault
    /\ silent' = TRUE /\ attached' = FALSE
    /\ UNCHANGED <<phase, session, seen, socketVars, health, attempt, wire, owes, serverVars,
                   got, taps>>

\* Discord forgets a session that is not attached.
Forget ==
    /\ discord.valid /\ ~attached /\ Fault
    /\ discord' = [discord EXCEPT !.valid = FALSE]
    /\ UNCHANGED <<phase, session, seen, socketVars, health, attempt, linkVars, urlDead, got,
                   taps>>

\* The resume host of the session is taken away.
HostGone ==
    /\ discord.valid /\ ~attached /\ ~urlDead /\ Fault
    /\ urlDead' = TRUE
    /\ UNCHANGED <<phase, session, seen, socketVars, health, attempt, linkVars, discord, got,
                   taps>>

-----------------------------------------------------------------------------
ClientStep ==
    \/ Connect \/ TakeHello \/ TakeReady \/ TakeResumed \/ TakeTap \/ TakeInvalid \/ TakeMove
    \/ TakeReidentify \/ TakeFatal \/ AckStale \/ Backoff
    \/ (phase = "idle" /\ CanResume /\ session.url /\ urlDead /\ ConnectFails)

Give == silent /\ ReadyDeadline

Next ==
    \/ ClientStep \/ ReadyDeadline \/ AckAges \/ ConnectFails \/ SocketDrops
    \/ Identify \/ Resume \/ PhoneTaps
    \/ Shove \/ FallSilent \/ Forget \/ HostGone

Spec == Init /\ [][Next]_vars

(* The loop runs, its two timers run out, and Discord answers a socket that *)
(* is not silent.                                                          *)
Fairness ==
    /\ WF_vars(ClientStep) /\ WF_vars(AckAges) /\ WF_vars(Give)
    /\ WF_vars(Identify \/ Resume)

FairSpec == Spec /\ Fairness

-----------------------------------------------------------------------------
(* TypeOK: what the client and Discord hold is of its kind; the client's    *)
(* number is never ahead of Discord's.                                     *)
TypeOK ==
    /\ phase \in {"idle", "open", "backoff", "down"}
    /\ session.id \in 0..discord.id /\ session.seq \in 0..(MaxTaps + 1)
    /\ session.id = discord.id => session.seq <= discord.last
    /\ health.ack \in {"none", "fresh", "stale"} /\ health.ready \in BOOLEAN
    /\ attempt \in 0..AttemptCap
    /\ owes \in {"none", "identify", "resume"}
    /\ ready => greeted
    /\ attached => phase = "open" /\ ~silent

(* OnceInOrder: over any number of sockets each tap of a session reaches    *)
(* on_dispatch once, in the order of their numbers, and none in between is *)
(* left out: an Allow is not lost to a reconnect and not obeyed twice.      *)
(* What came before a tap of its session is just what has a lower number;   *)
(* READY has number 1.                                                      *)
Before(i) == {got[j][2] : j \in {k \in 1..(i - 1) : got[k][1] = got[i][1]}}
OnceInOrder == \A i \in DOMAIN got : got[i][2] > 1 /\ Before(i) = 2..(got[i][2] - 1)

(* Connected: in the end, whatever closes, moves, silences or forgets the   *)
(* connection, the buttons come back, or the host is told that Discord is   *)
(* down for good.  Excused is a client that holds the address of a resume   *)
(* host that is gone: it is tried again for ever.                           *)
Live == phase = "open" /\ ready /\ attached
Stranded == CanResume /\ session.url /\ urlDead
Connected == Live \/ phase = "down" \/ Stranded
=============================================================================
