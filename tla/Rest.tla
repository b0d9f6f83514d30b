--------------------------------- MODULE Rest ---------------------------------
(***************************************************************************)
(* Discord's REST API as every part of the program calls it                *)
(* (discord/rest.py, facade.py, providers/rest.py): one process-wide rate  *)
(* limiter that all threads use without a lock, retries that may replay a  *)
(* call only when the first attempt was not applied or a replay is a no-op,*)
(* and texts that are posted in chunks, with the buttons on the last one.  *)
(*                                                                         *)
(* A thread posts a text of some chunks (POST) or repaints a card (PATCH). *)
(* An attempt is "acquire", "bucket", "send" and "answer", and "nap" while *)
(* the limiter sleeps; Discord applies it between "send" and "answer".     *)
(***************************************************************************)
EXTENDS Naturals, FiniteSets

CONSTANTS
    Threads,      \* job threads, the gateway thread and the listen loop
    Chunks,       \* chunks of a text
    RateRetries,  \* RATE_LIMIT_MAX_RETRIES
    Transients,   \* len(_TRANSIENT_RETRY_SLEEPS)
    Cap,          \* requests of a bucket per window
    MaxCalls,     \* bound of the model: calls of a thread
    MaxFaults     \* bound of the model: attempts that Discord does not serve

VARIABLES
    at,        \* each thread's call
    left,      \* _bucket_remaining of the two routes
    ahead,     \* routes whose _bucket_reset_at is ahead
    cool,      \* _global_until is ahead
    room,      \* Discord: requests left in the window of a route
    shown,     \* Discord: chunks of each thread's text in the channel
    painted,   \* Discord: each thread's paints of the card that arrived
    calls, faults

vars == <<at, left, ahead, cool, room, shown, painted, calls, faults>>

limiter == <<left, ahead, cool>>
discord == <<room, shown, painted>>

Routes == {"POST", "PATCH"}
\* What an attempt meets.  "edge" is 502, 503 and 504, "origin" 500, "lost" a
\* timeout or a reset, "unsent" a connection that was never made, "garbled" a
\* body that is no JSON, "limited" 429 and "long" one that is too far away.
Faulty == {"edge", "origin", "lost", "unsent", "refused", "garbled", "long"}

Idle == [step |-> "idle", route |-> "none", chunk |-> 0, rate |-> 0, transient |-> 0,
         nap |-> "none", met |-> "none", result |-> "none"]

Init ==
    /\ at = [t \in Threads |-> Idle]
    /\ left = [r \in Routes |-> 1] /\ ahead = {} /\ cool = FALSE
    /\ room = [r \in Routes |-> Cap]
    /\ shown = [t \in Threads |-> 0] /\ painted = [t \in Threads |-> 0]
    /\ calls = [t \in Threads |-> 0] /\ faults = 0

Goto(t, step) == at' = [at EXCEPT ![t].step = step]

\* _discord_request_bytes begins: both retry budgets are full.
Attempt(a, chunk) ==
    [a EXCEPT !.step = "acquire", !.chunk = chunk, !.rate = RateRetries,
              !.transient = Transients, !.met = "none"]

\* send_message or edit_message of the facade.
Begin(t) ==
    /\ at[t].step \in {"idle", "done"} /\ calls[t] < MaxCalls
    /\ \E r \in Routes : at' = [at EXCEPT ![t] = Attempt([Idle EXCEPT !.route = r], 1)]
    /\ calls' = [calls EXCEPT ![t] = @ + 1]
    /\ shown' = [shown EXCEPT ![t] = 0] /\ painted' = [painted EXCEPT ![t] = 0]
    /\ UNCHANGED <<limiter, room, faults>>

-----------------------------------------------------------------------------
(* The limiter.                                                            *)

\* acquire: the global cooldown first.
Acquire(t) ==
    /\ at[t].step = "acquire"
    /\ IF cool THEN at' = [at EXCEPT ![t].step = "nap", ![t].nap = "global"]
               ELSE Goto(t, "bucket")
    /\ UNCHANGED <<limiter, discord, calls, faults>>

\* ... then the bucket; one that is exhausted is slept out.
Bucket(t) ==
    /\ at[t].step = "bucket"
    /\ LET r == at[t].route
       IN  CASE left[r] > 0 -> Goto(t, "send") /\ UNCHANGED left
             [] left[r] = 0 /\ r \in ahead ->
                    at' = [at EXCEPT ![t].step = "nap", ![t].nap = r] /\ UNCHANGED left
             [] OTHER -> Goto(t, "send") /\ left' = [left EXCEPT ![r] = 1]
    /\ UNCHANGED <<ahead, cool, discord, calls, faults>>

\* The sleep is over.  After a 429 the whole of acquire follows.
Wake(t) ==
    /\ at[t].step = "woken"
    /\ IF at[t].met = "limited"
       THEN /\ at' = [at EXCEPT ![t].step = "acquire", ![t].nap = "none", ![t].met = "none"]
            /\ UNCHANGED left
       ELSE IF at[t].nap = "global"
       THEN at' = [at EXCEPT ![t].step = "bucket", ![t].nap = "none"] /\ UNCHANGED left
       ELSE /\ at' = [at EXCEPT ![t].step = "send", ![t].nap = "none"]
            /\ left' = [left EXCEPT ![at[t].nap] = 1]
    /\ UNCHANGED <<ahead, cool, discord, calls, faults>>

\* Time reaches the reset of a route or the end of the global cooldown.
Passed(what) ==
    [t \in Threads |-> IF at[t].step = "nap" /\ at[t].nap = what
                       THEN [at[t] EXCEPT !.step = "woken"] ELSE at[t]]

WindowPasses(r) ==
    /\ r \in ahead \/ room[r] < Cap
    /\ ahead' = ahead \ {r} /\ room' = [room EXCEPT ![r] = Cap]
    /\ at' = Passed(r)
    /\ UNCHANGED <<left, cool, shown, painted, calls, faults>>

CooldownPasses ==
    /\ cool /\ cool' = FALSE
    /\ at' = Passed("global")
    /\ UNCHANGED <<left, ahead, discord, calls, faults>>

-----------------------------------------------------------------------------
(* Discord.                                                                *)

\* What of an attempt reaches the channel.
Apply(t) ==
    IF at[t].route = "POST"
    THEN shown' = [shown EXCEPT ![t] = @ + 1] /\ UNCHANGED painted
    ELSE painted' = [painted EXCEPT ![t] = @ + 1] /\ UNCHANGED shown

Met(t, what) == at' = [at EXCEPT ![t].step = "answer", ![t].met = what]

Serve(t) ==
    /\ at[t].step = "send" /\ room[at[t].route] > 0
    /\ room' = [room EXCEPT ![at[t].route] = @ - 1]
    /\ Apply(t) /\ Met(t, "ok")
    /\ UNCHANGED <<limiter, calls, faults>>

\* The bucket, or the whole bot, is over its limit: nothing is applied.
Limit(t) ==
    /\ at[t].step = "send"
    /\ Met(t, IF room[at[t].route] = 0 THEN "limited" ELSE "frozen")
    /\ UNCHANGED <<limiter, discord, calls, faults>>

\* A request that was lost or that failed at the origin may have been applied.
Fail(t) ==
    /\ at[t].step = "send" /\ faults < MaxFaults
    /\ \E what \in Faulty :
         /\ Met(t, what)
         /\ \/ what \in {"origin", "lost", "garbled"} /\ Apply(t)
            \/ what # "garbled" /\ UNCHANGED <<shown, painted>>
    /\ faults' = faults + 1
    /\ UNCHANGED <<limiter, room, calls>>

-----------------------------------------------------------------------------
(* The answer.                                                             *)

Idempotent(r) == r = "PATCH"
NotSent(what) == what = "unsent"

Return(t, result) == [at EXCEPT ![t] = [@ EXCEPT !.step = "done", !.result = result]]

\* observe, and the next chunk of a text.
Answered(t) ==
    /\ at[t].step = "answer" /\ at[t].met = "ok"
    /\ left' = [left EXCEPT ![at[t].route] = room[at[t].route]]
    /\ ahead' = ahead \cup {at[t].route}
    /\ at' = IF at[t].route = "POST" /\ at[t].chunk < Chunks
             THEN [at EXCEPT ![t] = Attempt(@, at[t].chunk + 1)]
             ELSE Return(t, "ok")
    /\ UNCHANGED <<cool, discord, calls, faults>>

\* note_rate_limited sleeps, and the call is replayed whatever its method.
RateLimited(t) ==
    /\ at[t].step = "answer" /\ at[t].met \in {"limited", "frozen", "long"}
    /\ IF at[t].rate = 0 \/ at[t].met = "long"
       THEN at' = Return(t, "raised") /\ UNCHANGED limiter
       ELSE /\ IF at[t].met = "frozen"
               THEN cool' = TRUE /\ UNCHANGED <<left, ahead>>
               ELSE /\ left' = [left EXCEPT ![at[t].route] = 0]
                    /\ ahead' = ahead \cup {at[t].route} /\ UNCHANGED cool
            /\ at' = [at EXCEPT ![t].step = "nap", ![t].rate = @ - 1, ![t].met = "limited",
                                ![t].nap = IF at[t].met = "frozen" THEN "global"
                                           ELSE at[t].route]
    /\ UNCHANGED <<discord, calls, faults>>

\* Mutant of Replay: a lost POST is replayed too.
ReplayLost(r, what) ==
    \/ what \in {"edge", "unsent", "lost"}
    \/ what = "origin" /\ Idempotent(r)

\* Which failures are replayed: the retryable codes, and transport errors of an
\* idempotent method or of a request that never left the host.
Replay(r, what) ==
    \/ what = "edge"
    \/ what = "origin" /\ Idempotent(r)
    \/ what = "lost" /\ Idempotent(r)
    \/ NotSent(what)

Failed(t) ==
    /\ at[t].step = "answer"
    /\ at[t].met \in {"edge", "origin", "lost", "unsent", "refused", "garbled"}
    /\ at' = IF Replay(at[t].route, at[t].met) /\ at[t].transient > 0
             THEN [at EXCEPT ![t].step = "acquire", ![t].transient = @ - 1, ![t].met = "none"]
             ELSE Return(t, IF at[t].met \in {"origin", "lost", "garbled"} THEN "unsure"
                            ELSE "raised")
    /\ UNCHANGED <<limiter, discord, calls, faults>>

-----------------------------------------------------------------------------
ThreadStep(t) ==
    \/ Acquire(t) \/ Bucket(t) \/ Wake(t) \/ Answered(t) \/ RateLimited(t) \/ Failed(t)

DiscordStep(t) == Serve(t) \/ Limit(t) \/ Fail(t)

Next ==
    \/ \E t \in Threads : Begin(t) \/ ThreadStep(t) \/ DiscordStep(t)
    \/ \E r \in Routes : WindowPasses(r)
    \/ CooldownPasses

Spec == Init /\ [][Next]_vars

\* Threads run, Discord answers or the 60 s of the socket pass, and time goes on.
Fairness ==
    /\ \A t \in Threads : WF_vars(ThreadStep(t)) /\ WF_vars(DiscordStep(t))
    /\ \A r \in Routes : WF_vars(WindowPasses(r))
    /\ WF_vars(CooldownPasses)

FairSpec == Spec /\ Fairness

-----------------------------------------------------------------------------
(* TypeOK: the calls, the limiter and the channel are of their kinds.      *)
TypeOK ==
    /\ \A t \in Threads :
         /\ at[t].step \in {"idle", "acquire", "bucket", "nap", "woken", "send", "answer", "done"}
         /\ at[t].route \in Routes \cup {"none"} /\ at[t].chunk \in 0..Chunks
         /\ at[t].rate \in 0..RateRetries /\ at[t].transient \in 0..Transients
         /\ at[t].nap \in Routes \cup {"global", "none"}
         /\ at[t].met \in Faulty \cup {"ok", "limited", "frozen", "none"}
         /\ at[t].result \in {"none", "ok", "raised", "unsure"}
    /\ \A r \in Routes : left[r] \in 0..Cap + 1 /\ room[r] \in 0..Cap
    /\ ahead \subseteq Routes /\ cool \in BOOLEAN
    /\ \A t \in Threads : calls[t] \in 0..MaxCalls
    /\ faults \in 0..MaxFaults

(* OncePerChunk: no retry shows a chunk of a text twice, whatever Discord  *)
(* and the limiter do ("Replaying it would double-post", rest.py:1394): at *)
(* every moment the channel has the chunks that were answered and at most  *)
(* the one under way, so also a text that raised stands there as its first *)
(* chunks.  A call that returned did what it was for, a card may have been *)
(* painted several times.  It leans on what rest.py:35 says of Discord,    *)
(* that 502, 503 and 504 come before anything is applied.                  *)
OncePerChunk ==
    \A t \in Threads :
      LET done == at[t].chunk - 1
      IN  /\ at[t].route = "POST" =>
               CASE at[t].result = "ok"     -> shown[t] = Chunks
                 [] at[t].result = "raised" -> shown[t] = done
                 [] OTHER -> shown[t] \in {done, done + 1}
          /\ at[t].route = "PATCH" /\ at[t].result = "ok" => painted[t] > 0

(* CallsReturned: in the end no thread is left inside a call: whatever      *)
(* Discord answers, each call ends, for the retries are counted and every   *)
(* sleep has an end.                                                        *)
CallsReturned == \A t \in Threads : at[t].step \in {"idle", "done"}
=============================================================================
