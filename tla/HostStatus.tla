----------------------------- MODULE HostStatus -----------------------------
(***************************************************************************)
(* What a host tells about itself: the status digest it posts when         *)
(* something visible changed, the liveness file behind the HOST card's     *)
(* Need line, the Rich Presence of the Mac and the Halt alert of the       *)
(* webhook (host/status.py, presence.py, webhook.py, doctor.py).           *)
(*                                                                         *)
(* Two threads tick them: the listen loop on every poll, the gateway       *)
(* thread when somebody taps On, Off, Halt or Resume.  Each reads, writes  *)
(* and posts in steps of its own and nothing locks them; the digest's last *)
(* signature is stored before its post is tried.  A cook that reaches the  *)
(* cap sets Halt on its own thread, a CLI in its own process.              *)
(***************************************************************************)
EXTENDS Naturals, FiniteSets

CONSTANTS
    MaxMoves,   \* bound of the model: changes of jobs and taps
    MaxFaults,  \* bound of the model: failed posts, lost sockets, crashes
    None        \* nothing stored, nothing shown

Threads == {"loop", "phone", "cook"}

VARIABLES
    world,     \* what a digest shows: power, Halt and the jobs of the channel
    socket,    \* the panel gateway of this process: new, ready or bad
    gwfile,    \* gateway_health.json
    live,      \* the liveness file: its gateway and doctor verdict
    digest,    \* the digest file, the stored preference
    shown,     \* the last digest in the channel
    rpc,       \* Rich Presence: connected, last key, backing off; what Discord shows
    hook,      \* webhook.py: _HALT_SENT, and whether this Halt had its alert
    op,        \* the step each thread is at
    moves,     \* changes and taps so far
    faults,    \* faults so far
    history    \* a digest's post or signature was lost, threads crossed

vars == <<world, socket, gwfile, live, digest, shown, rpc, hook, op, moves, faults, history>>

-----------------------------------------------------------------------------
Idle == [step |-> "idle", snap |-> None, tell |-> FALSE, force |-> FALSE, on |-> FALSE]

Ready(t)   == op[t].step = "idle"
At(t, s)   == op[t].step = s
Go(t, s)   == op' = [op EXCEPT ![t].step = s]
Leave(t)   == op' = [op EXCEPT ![t] = Idle]
Start(t, s) == op' = [op EXCEPT ![t] = [Idle EXCEPT !.step = s]]

Fault == faults < MaxFaults /\ faults' = faults + 1
Moved == moves < MaxMoves /\ moves' = moves + 1

\* Two threads inside one digest, or one key of the presence.
Crossing(t, steps) == \E u \in Threads \ {t} : op[u].step \in steps

Init ==
    /\ world = [on |-> FALSE, halted |-> FALSE, jobs |-> 0]
    /\ socket = "new" /\ gwfile = None
    /\ live = [gateway |-> None, doctor |-> TRUE]
    /\ digest = [file |-> None, pref |-> None]
    /\ shown = None
    /\ rpc = [connected |-> FALSE, last |-> None, backoff |-> FALSE, shows |-> None]
    /\ hook = [sent |-> FALSE, told |-> TRUE]
    /\ op = [t \in Threads |-> Idle]
    /\ moves = 0 /\ faults = 0
    /\ history = [lost |-> FALSE, crossed |-> FALSE, stale |-> FALSE]

-----------------------------------------------------------------------------
(* The world.                                                              *)

\* A run of the channel starts, moves on or ends.
JobMoves ==
    /\ world' = [world EXCEPT !.jobs = 1 - @]
    /\ Moved
    /\ UNCHANGED <<socket, gwfile, live, digest, shown, rpc, hook, op, faults, history>>

\* note_ready; a stale ACK, a closed socket, or READY that never came.
SocketReady ==
    /\ socket # "ready" /\ socket' = "ready"
    /\ UNCHANGED <<world, gwfile, live, digest, shown, rpc, hook, op, moves, faults, history>>

SocketBad ==
    /\ socket # "bad" /\ socket' = "bad"
    /\ Fault
    /\ UNCHANGED <<world, gwfile, live, digest, shown, rpc, hook, op, moves, history>>

\* The backoff of the presence runs out.
BackoffOver ==
    /\ rpc.backoff /\ rpc' = [rpc EXCEPT !.backoff = FALSE]
    /\ UNCHANGED <<world, socket, gwfile, live, digest, shown, hook, op, moves, faults, history>>

-----------------------------------------------------------------------------
(* The loop's tick and the taps.                                           *)

\* _tick_host_liveness: run_doctor looks at the file of before, then the owner of
\* the gateway writes its own verdict over it, which the digest shows.  Each of the
\* two checks is passed over within its interval.
Tick(liveness, check) ==
    /\ Ready("loop")
    /\ IF liveness
       THEN /\ gwfile' = socket
            /\ live' = [gateway |-> socket,
                        doctor |-> socket # "bad" /\ ~(socket = "new" /\ gwfile = "bad")]
       ELSE UNCHANGED <<gwfile, live>>
    /\ Start("loop", IF check THEN "read" ELSE "rpc")
    /\ UNCHANGED <<world, socket, digest, shown, rpc, hook, moves, faults, history>>

\* On arms the host and posts a digest unasked, from the panel's thread or from a
\* verb in the loop; Off arms nothing and only the presence follows it.
TapOn(t) ==
    /\ Ready(t) /\ t # "cook"
    /\ world' = [world EXCEPT !.on = TRUE]
    /\ op' = [op EXCEPT ![t] = [Idle EXCEPT !.step = "read", !.force = TRUE, !.on = TRUE]]
    /\ Moved
    /\ UNCHANGED <<socket, gwfile, live, digest, shown, rpc, hook, faults, history>>

TapOff ==
    /\ Ready("phone")
    /\ world' = [world EXCEPT !.on = FALSE]
    /\ Start("phone", "rpc")
    /\ Moved
    /\ UNCHANGED <<socket, gwfile, live, digest, shown, rpc, hook, faults, history>>

-----------------------------------------------------------------------------
(* set_spend_halted.                                                       *)

\* The panel repaints the presence after it, a cook goes on.
AfterHalt(t) == IF t = "phone" THEN Start(t, "rpc") ELSE Leave(t)

\* Halt of the panel, or a cook that has spent the cap.
Halt(t) ==
    /\ Ready(t) /\ t # "loop"
    /\ world' = [world EXCEPT !.halted = TRUE]
    /\ hook' = IF world.halted THEN hook ELSE [hook EXCEPT !.told = FALSE]
    /\ IF world.halted THEN AfterHalt(t) ELSE Start(t, "alert")
    /\ history' = [history EXCEPT !.stale = @ \/ At("phone", "clear")]
    /\ Moved
    /\ UNCHANGED <<socket, gwfile, live, digest, shown, rpc, faults>>

\* notify_halt: once until cleared, sent or not.
Alert(t) ==
    /\ At(t, "alert")
    /\ hook' = IF hook.sent THEN hook ELSE [sent |-> TRUE, told |-> TRUE]
    /\ AfterHalt(t)
    /\ UNCHANGED <<world, socket, gwfile, live, digest, shown, rpc, moves, faults, history>>

Resume ==
    /\ Ready("phone")
    /\ world' = [world EXCEPT !.halted = FALSE]
    /\ Start("phone", "clear")
    /\ Moved
    /\ UNCHANGED <<socket, gwfile, live, digest, shown, rpc, hook, faults, history>>

\* clear_halt_alert; a Halt that came after the write found the old flag.
ClearAlert ==
    /\ At("phone", "clear")
    /\ hook' = [hook EXCEPT !.sent = FALSE]
    /\ Start("phone", "rpc")
    /\ history' = [history EXCEPT !.stale = @ \/ Crossing("phone", {"alert"})]
    /\ UNCHANGED <<world, socket, gwfile, live, digest, shown, rpc, moves, faults>>

\* discord-os spend --resume: another process, whose flag is its own.
CliResume ==
    /\ world.halted
    /\ world' = [world EXCEPT !.halted = FALSE]
    /\ history' = [history EXCEPT !.stale = TRUE]
    /\ Moved
    /\ UNCHANGED <<socket, gwfile, live, digest, shown, rpc, hook, op, faults>>

-----------------------------------------------------------------------------
(* _tick_status_digest.                                                    *)

Recalled == IF digest.pref # None THEN digest.pref ELSE digest.file

\* should_announce: forced, or changed since a baseline that is there.
Announce(sig, force) == force \/ (sig # Recalled /\ Recalled # None)

ReadDigest(t) ==
    /\ At(t, "read")
    /\ op' = [op EXCEPT ![t].step = "save", ![t].snap = world,
                        ![t].tell = Announce(world, op[t].force)]
    /\ history' = [history EXCEPT !.crossed = @ \/ Crossing(t, {"save", "remember", "post"})]
    /\ UNCHANGED <<world, socket, gwfile, live, digest, shown, rpc, hook, moves, faults>>

\* _save_digest_state
SaveDigest(t) ==
    /\ At(t, "save")
    /\ digest' = [digest EXCEPT !.file = op[t].snap]
    /\ Go(t, "remember")
    /\ UNCHANGED <<world, socket, gwfile, live, shown, rpc, hook, moves, faults, history>>

\* The file cannot be written: this digest is over, untold and not stored.
SaveFails(t) ==
    /\ At(t, "save") /\ Fault
    /\ Go(t, "rpc")
    /\ UNCHANGED <<world, socket, gwfile, live, digest, shown, rpc, hook, moves, history>>

\* _remember_signature
Remember(t) ==
    /\ At(t, "remember")
    /\ digest' = [digest EXCEPT !.pref = op[t].snap]
    /\ Go(t, IF op[t].tell THEN "post" ELSE "rpc")
    /\ UNCHANGED <<world, socket, gwfile, live, shown, rpc, hook, moves, faults, history>>

\* The preference cannot be written, and the digest is told all the same.
RememberFails(t) ==
    /\ At(t, "remember") /\ Fault
    /\ history' = [history EXCEPT !.lost = TRUE]
    /\ Go(t, IF op[t].tell THEN "post" ELSE "rpc")
    /\ UNCHANGED <<world, socket, gwfile, live, digest, shown, rpc, hook, moves>>

Post(t) ==
    /\ At(t, "post")
    /\ shown' = op[t].snap
    /\ Go(t, "rpc")
    /\ UNCHANGED <<world, socket, gwfile, live, digest, rpc, hook, moves, faults, history>>

PostFails(t) ==
    /\ At(t, "post") /\ Fault
    /\ history' = [history EXCEPT !.lost = TRUE]
    /\ Go(t, "rpc")
    /\ UNCHANGED <<world, socket, gwfile, live, digest, shown, rpc, hook, moves>>

-----------------------------------------------------------------------------
(* RichPresence.tick.                                                      *)

\* snapshot_presence: the power (Halted before On) and a live job's title.
Key == [power |-> IF world.halted THEN "halted" ELSE IF world.on THEN "on" ELSE "off",
        job |-> world.jobs]

PresenceRests(t) ==
    /\ At(t, "rpc")
    /\ \/ t = "loop" /\ op[t].on
       \/ rpc.backoff
       \/ rpc.connected /\ rpc.last = Key
    /\ Leave(t)
    /\ UNCHANGED <<world, socket, gwfile, live, digest, shown, rpc, hook, moves, faults, history>>

PresenceDue(t) ==
    /\ At(t, "rpc") /\ ~(t = "loop" /\ op[t].on)
    /\ ~rpc.backoff /\ ~(rpc.connected /\ rpc.last = Key)

PresenceUpdate(t) ==
    /\ PresenceDue(t)
    /\ rpc' = [rpc EXCEPT !.connected = TRUE, !.shows = Key]
    /\ op' = [op EXCEPT ![t].step = "note", ![t].snap = Key]
    /\ history' = [history EXCEPT !.crossed = @ \/ Crossing(t, {"note"})]
    /\ UNCHANGED <<world, socket, gwfile, live, digest, shown, hook, moves, faults>>

\* The key is kept after the update: of two threads the slower one keeps its own.
PresenceNote(t) ==
    /\ At(t, "note")
    /\ rpc' = [rpc EXCEPT !.last = op[t].snap, !.backoff = FALSE]
    /\ Leave(t)
    /\ UNCHANGED <<world, socket, gwfile, live, digest, shown, hook, moves, faults, history>>

PresenceFails(t) ==
    /\ PresenceDue(t) /\ Fault
    /\ rpc' = [rpc EXCEPT !.connected = FALSE, !.last = None, !.backoff = TRUE]
    /\ Leave(t)
    /\ UNCHANGED <<world, socket, gwfile, live, digest, shown, hook, moves, history>>

-----------------------------------------------------------------------------
\* The process dies and is started again: files, preferences, power and Halt are
\* kept, _HALT_SENT, the socket and the presence are new.
Crash ==
    /\ Fault
    /\ history' = [history EXCEPT !.lost = @ \/ \E t \in Threads : At(t, "post"),
                                  !.stale = @ \/ \E t \in Threads : At(t, "alert")]
    /\ op' = [t \in Threads |-> Idle]
    /\ socket' = "new"
    /\ hook' = [hook EXCEPT !.sent = FALSE]
    /\ rpc' = [connected |-> FALSE, last |-> None, backoff |-> FALSE, shows |-> None]
    /\ UNCHANGED <<world, gwfile, live, digest, shown, moves>>

Step(t) ==
    \/ Alert(t) \/ ReadDigest(t) \/ SaveDigest(t) \/ Remember(t) \/ Post(t)
    \/ PresenceRests(t) \/ PresenceUpdate(t) \/ PresenceNote(t)

Next ==
    \/ JobMoves \/ SocketReady \/ SocketBad \/ BackoffOver \/ TapOff \/ Resume \/ ClearAlert \/ CliResume \/ Crash
    \/ \E liveness, check \in BOOLEAN : Tick(liveness, check)
    \/ \E t \in Threads : TapOn(t) \/ Halt(t) \/ Step(t)
         \/ SaveFails(t) \/ RememberFails(t) \/ PostFails(t) \/ PresenceFails(t)

Spec == Init /\ [][Next]_vars

\* The loop polls, threads run on, the clock does, and a socket that is down is
\* opened again (Gateway.tla).
Fairness ==
    /\ SF_vars(Tick(TRUE, TRUE)) /\ WF_vars(ClearAlert) /\ WF_vars(SocketReady)
    /\ WF_vars(BackoffOver)
    /\ \A t \in Threads : WF_vars(Step(t))

FairSpec == Spec /\ Fairness

-----------------------------------------------------------------------------
Worlds == [on : BOOLEAN, halted : BOOLEAN, jobs : 0..1]

\* Each variable is of its kind.
TypeOK ==
    /\ world \in Worlds
    /\ socket \in {"new", "ready", "bad"} /\ gwfile \in {None, "new", "ready", "bad"}
    /\ live.gateway \in {None, "new", "ready", "bad"} /\ live.doctor \in BOOLEAN
    /\ {digest.file, digest.pref, shown} \subseteq Worlds \cup {None}
    /\ {rpc.connected, rpc.backoff} \subseteq BOOLEAN
    /\ {hook.sent, hook.told} \subseteq BOOLEAN
    /\ \A t \in Threads : op[t].step \in {"idle", "read", "save", "remember", "post", "rpc",
                                          "note", "alert", "clear"}
    /\ moves \in 0..MaxMoves /\ faults \in 0..MaxFaults

(* StatusTold: once anything was told, the last digest in the channel is   *)
(* the one whose signature is stored, so that the next change is measured  *)
(* against what people saw.  Excused: a post that failed or died with its  *)
(* process after the signature was stored (host/status.py:961), a          *)
(* signature that could not be stored (it is told again), and two threads  *)
(* inside a digest at once.                                                *)
StatusTold ==
    (\A t \in Threads : op[t].step \notin {"save", "remember", "post"}) /\ shown # None
        => shown = digest.pref \/ history.lost \/ history.crossed

(* HaltTold: every Halt that takes hold has its alert, once.  Excused: a   *)
(* Halt and a Resume that overtake each other, a crash before the alert,   *)
(* and a Resume of the CLI, which cannot clear this process's flag         *)
(* (host/webhook.py:237).                                                  *)
HaltTold ==
    world.halted /\ (\A t \in Threads : ~At(t, "alert")) => hook.told \/ history.stale

(* StatusRests: in the end the stored digest and the liveness file show    *)
(* what is, the socket's lapse is forgotten, and the presence shows it,    *)
(* unless two threads updated it at once.                                  *)
StatusRests ==
    /\ digest.pref = world /\ live.gateway = "ready" /\ live.doctor
    /\ rpc.shows = Key \/ history.crossed
=============================================================================
