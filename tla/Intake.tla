------------------------------- MODULE Intake -------------------------------
(***************************************************************************)
(* From a Discord message to a run: the listen loop of a host process      *)
(* (cli.py: cmd_listen, orchestration/listen.py: drain_inbound), the       *)
(* durable tables it works with (persistence/sqlite.py) and the part of    *)
(* run_task before the cook (orchestration/orchestrator.py: _run_task).    *)
(*                                                                         *)
(* One channel.  A message is its number: Discord's ids grow with time.    *)
(* The loop claims a message in seen_messages, remembers an ask in         *)
(* pending_intake, submits it to the job pool and advances the watermark;  *)
(* each is a commit of its own and the process may die after any of them.  *)
(* A starting host fails the runs a dead one left, replays pending_intake  *)
(* and only then claims the gateway, which refuses a second living host.   *)
(* JobPool lets a job start whenever it likes; here that is the delay      *)
(* before RunTask.                                                         *)
(***************************************************************************)
EXTENDS Naturals, Sequences, FiniteSets

CONSTANTS
    Hosts,       \* host processes that can run at the same time
    Kinds,       \* kinds of messages that are posted
    MaxMsgs,     \* bound of the model: messages
    MaxStarts,   \* bound of the model: starts of a host process
    MaxFaults,   \* bound of the model: writes that find the database locked
    MaxAttempts, \* replay_pending_intakes: max_attempts
    None         \* no host, no message

AllKinds == {"ask", "handoff", "fork", "voice"}
Msgs     == 1..MaxMsgs

\* What the theorems assume of the constants.
ConstantsOK ==
    /\ None \notin Hosts /\ None \notin Nat
    /\ Kinds \subseteq AllKinds
    /\ {MaxMsgs, MaxStarts, MaxFaults, MaxAttempts} \subseteq Nat

VARIABLES
    kind,      \* the messages posted so far, each with its kind
    seen,      \* seen_messages: claimed messages
    rows,      \* pending_intake: asks that may have to be replayed
    attempts,  \* pending_intake.attempts
    watermark, \* listen_watermarks of the channel
    gateway,   \* gateway_owners: the living host that owns the bot token
    halted,    \* the channel is off or its workspace is spend-halted
    hpc,       \* each host: off, starting (stale, list, replay), listening
               \* (poll, message, claimed, recorded, advance)
    batch,     \* what each host has still to go through: the rows of its replay,
               \* or the transcribed memos and messages of its drain (see First)
    whisper,   \* voice memos each host transcribes off its listen thread
    ready,     \* transcribed memos the next drain takes
    jobs,      \* the jobs submitted for each message
    paused,    \* history: messages dropped while the channel was paused
    slipped,   \* history: messages taken on although their claim raised
    unlisted,  \* history: rows a start could not list
    overlap,   \* history: a host was started while another was up
    starts, faults

storeVars == <<seen, rows, attempts, watermark, gateway>>
memVars   == <<hpc, batch, whisper, ready>>
histVars  == <<paused, slipped, unlisted, overlap>>
vars == <<kind, storeVars, halted, memVars, jobs, histVars, starts, faults>>

-----------------------------------------------------------------------------
posted == Len(kind)
Met    == seen \cup slipped
Up(h)  == hpc[h] # "off"

\* TaskIntake: "claimed" is metadata inbound_claimed, "anon" an intake without
\* a message id.
Paths == {"claimed", "unclaimed", "anon"}

\* A job before its run has a row, with a row, and after the runner returned.
Waiting == {"queued", "admitted"}
InRun   == {"created", "cook"}
Ended   == {"done", "unbound", "halted", "duplicate", "crashed", "killed"}

NewJob(h, path) == [host |-> h, path |-> path, pc |-> "queued", run |-> "none",
                    cooked |-> FALSE]

\* JobPool.submit(orchestrator.run_task, intake)
Submit(h, m, path) == jobs' = [jobs EXCEPT ![m] = Append(@, NewJob(h, path))]

\* The process ends: its threads, its memory and its hold on the gateway are gone.
Die(h) ==
    /\ jobs' = [m \in Msgs |-> [i \in DOMAIN jobs[m] |->
                   IF jobs[m][i].host = h /\ jobs[m][i].pc \notin Ended
                   THEN [jobs[m][i] EXCEPT !.pc = "killed"] ELSE jobs[m][i]]]
    /\ hpc' = [hpc EXCEPT ![h] = "off"]
    /\ gateway' = IF gateway = h THEN None ELSE gateway
    /\ batch' = [batch EXCEPT ![h] = {}]
    /\ whisper' = [whisper EXCEPT ![h] = {}]
    /\ ready' = [ready EXCEPT ![h] = {}]

\* Rows are listed, messages handled, in the order they came, memos first.
Entries(S, memo) == {[msg |-> m, memo |-> memo] : m \in S}
Before(a, b)     == (a.memo /\ ~b.memo) \/ (a.memo = b.memo /\ a.msg < b.msg)
First(S)         == CHOOSE e \in S : \A f \in S \ {e} : Before(e, f)

At(h, s)   == hpc[h] = s /\ batch[h] # {}
Cur(h)     == First(batch[h]).msg
Drop(h)    == batch' = [batch EXCEPT ![h] = @ \ {First(@)}]
Goto(h, s) == hpc' = [hpc EXCEPT ![h] = s]

Init ==
    /\ kind = <<>>
    /\ seen = {} /\ rows = {}
    /\ attempts = [m \in Msgs |-> 0]
    /\ watermark = 0
    /\ gateway = None
    /\ halted = FALSE
    /\ hpc = [h \in Hosts |-> "off"]
    /\ batch = [h \in Hosts |-> {}]
    /\ whisper = [h \in Hosts |-> {}]
    /\ ready = [h \in Hosts |-> {}]
    /\ jobs = [m \in Msgs |-> <<>>]
    /\ paused = {} /\ slipped = {} /\ unlisted = {}
    /\ overlap = FALSE
    /\ starts = 0 /\ faults = 0

Post(k) ==
    /\ posted < MaxMsgs
    /\ kind' = Append(kind, k)
    /\ UNCHANGED <<storeVars, halted, memVars, jobs, histVars, starts, faults>>

\* HOST on/off, the spend cap and its reset.
SetHalted ==
    /\ halted' = ~halted
    /\ UNCHANGED <<kind, storeVars, memVars, jobs, histVars, starts, faults>>

-----------------------------------------------------------------------------
(* cmd_listen up to its loop.                                              *)

HostStart(h) ==
    /\ ~Up(h)
    /\ starts < MaxStarts
    /\ starts = 0 => h = CHOOSE g \in Hosts : TRUE    \* they differ in name only
    /\ starts' = starts + 1
    /\ overlap' = (overlap \/ \E g \in Hosts : Up(g))
    /\ hpc' = [hpc EXCEPT ![h] = "stale"]
    /\ UNCHANGED <<kind, storeVars, halted, batch, whisper, ready, jobs, paused, slipped,
                   unlisted, faults>>

\* fail_stale_runs, whoever's runs they are.
FailStale(h) ==
    /\ hpc[h] = "stale"
    /\ jobs' = [m \in Msgs |-> [i \in DOMAIN jobs[m] |->
                   IF jobs[m][i].run = "running"
                   THEN [jobs[m][i] EXCEPT !.run = "failed"] ELSE jobs[m][i]]]
    /\ hpc' = [hpc EXCEPT ![h] = "list"]
    /\ UNCHANGED <<kind, storeVars, halted, batch, whisper, ready, histVars, starts,
                   faults>>

\* replay_pending_intakes: list_pending_intake
ListRows(h) ==
    /\ hpc[h] = "list"
    /\ hpc' = [hpc EXCEPT ![h] = "replay"]
    /\ batch' = [batch EXCEPT ![h] = Entries(rows, FALSE)]
    /\ UNCHANGED <<kind, storeVars, halted, whisper, ready, jobs, histVars, starts,
                   faults>>

\* The list cannot be read: this start replays nothing.
ListFails(h) ==
    /\ hpc[h] = "list"
    /\ faults < MaxFaults
    /\ faults' = faults + 1
    /\ hpc' = [hpc EXCEPT ![h] = "replay"]
    /\ unlisted' = unlisted \cup rows
    /\ UNCHANGED <<kind, storeVars, halted, batch, whisper, ready, jobs, paused, slipped,
                   overlap, starts>>

\* replay_pending_intakes, one row: count the attempt, give up or submit it.
\* The count of a row that has just been cleared stays 0: it is submitted.
Attempt(m) == IF m \in rows THEN attempts[m] + 1 ELSE 0
replayFrame == <<kind, seen, watermark, gateway, halted, hpc, whisper, ready, histVars,
                 starts>>

Replay(h) ==
    /\ At(h, "replay")
    /\ LET m == Cur(h)
       IN  /\ attempts' = [attempts EXCEPT ![m] = Attempt(m)]
           /\ IF Attempt(m) > MaxAttempts
              THEN rows' = rows \ {m} /\ UNCHANGED jobs
              ELSE Submit(h, m, "claimed") /\ UNCHANGED rows
    /\ Drop(h)
    /\ UNCHANGED <<replayFrame, faults>>

\* The attempt cannot be counted: the row is submitted all the same.
ReplayUncounted(h) ==
    /\ At(h, "replay")
    /\ faults < MaxFaults
    /\ faults' = faults + 1
    /\ Submit(h, Cur(h), "claimed")
    /\ Drop(h)
    /\ UNCHANGED <<replayFrame, rows, attempts>>

\* _clear_pending swallows the failing write: given up, and the row stays.
GiveUpFails(h) ==
    /\ At(h, "replay")
    /\ Attempt(Cur(h)) > MaxAttempts
    /\ faults < MaxFaults
    /\ faults' = faults + 1
    /\ attempts' = [attempts EXCEPT ![Cur(h)] = Attempt(Cur(h))]
    /\ Drop(h)
    /\ UNCHANGED <<replayFrame, rows, jobs>>

\* claim_gateway: nobody owns the token, or its owner is dead.
ClaimGateway(h) ==
    /\ hpc[h] = "replay" /\ batch[h] = {}
    /\ gateway = None
    /\ gateway' = h
    /\ hpc' = [hpc EXCEPT ![h] = "poll"]
    /\ UNCHANGED <<kind, seen, rows, attempts, watermark, halted, batch, whisper, ready,
                   jobs, histVars, starts, faults>>

\* GatewayOwnershipError ends the process, with the jobs it has replayed.
RefuseGateway(h) ==
    /\ hpc[h] = "replay" /\ batch[h] = {}
    /\ gateway # None
    /\ Die(h)
    /\ UNCHANGED <<kind, seen, rows, attempts, watermark, halted, histVars, starts,
                   faults>>

\* The process is killed; some host can still be started.
HostDie(h) ==
    /\ Up(h)
    /\ starts < MaxStarts
    /\ Die(h)
    /\ UNCHANGED <<kind, seen, rows, attempts, watermark, halted, histVars, starts,
                   faults>>

-----------------------------------------------------------------------------
(* drain_inbound.                                                          *)

\* The transcribed memos, then _read_inbound_backlog: every page after the
\* watermark.
Poll(h) ==
    /\ hpc[h] = "poll"
    /\ ready[h] # {} \/ watermark < posted
    /\ batch' = [batch EXCEPT ![h] =
                    Entries(ready[h], TRUE) \cup Entries((watermark + 1)..posted, FALSE)]
    /\ ready' = [ready EXCEPT ![h] = {}]
    /\ hpc' = [hpc EXCEPT ![h] = "message"]
    /\ UNCHANGED <<kind, storeVars, halted, whisper, jobs, histVars, starts, faults>>

PollEnd(h) ==
    /\ hpc[h] = "message" /\ batch[h] = {}
    /\ hpc' = [hpc EXCEPT ![h] = "poll"]
    /\ UNCHANGED <<kind, storeVars, halted, batch, whisper, ready, jobs, histVars, starts, faults>>

\* A memo whose transcript is in hand was claimed before whisper ran.
Preclaimed(h) == First(batch[h]).memo

\* Off or spend-halted: the message is passed over.
PassOver(h) ==
    /\ At(h, "message") /\ halted
    /\ paused' = paused \cup {Cur(h)}
    /\ Goto(h, "advance")
    /\ UNCHANGED <<kind, storeVars, halted, batch, whisper, ready, jobs, slipped, unlisted,
                   overlap, starts, faults>>

\* _claim_inbound refuses a message that was claimed before.
SkipSeen(h) ==
    /\ At(h, "message") /\ ~halted
    /\ Cur(h) \in seen /\ ~Preclaimed(h)
    /\ Goto(h, "advance")
    /\ UNCHANGED <<kind, storeVars, halted, batch, whisper, ready, jobs, histVars, starts, faults>>

\* Mutant of Claim: the message is not inserted into seen_messages.
ClaimForgets(h) ==
    /\ At(h, "message") /\ ~halted
    /\ Cur(h) \notin seen \/ Preclaimed(h)
    /\ Goto(h, "claimed")
    /\ UNCHANGED <<kind, storeVars, halted, batch, whisper, ready, jobs, histVars, starts, faults>>

\* What is taken on: a raw voice memo goes to a worker (_defer_voice_intake).
TakeOn(h) ==
    IF kind[Cur(h)] = "voice" /\ ~Preclaimed(h)
    THEN whisper' = [whisper EXCEPT ![h] = @ \cup {Cur(h)}] /\ Goto(h, "advance")
    ELSE Goto(h, "claimed") /\ UNCHANGED whisper

\* _claim_inbound
Claim(h) ==
    /\ At(h, "message") /\ ~halted
    /\ Cur(h) \notin seen \/ Preclaimed(h)
    /\ seen' = seen \cup {Cur(h)}
    /\ TakeOn(h)
    /\ UNCHANGED <<kind, rows, attempts, watermark, gateway, halted, batch, ready, jobs,
                   histVars, starts, faults>>

\* The claim raises and is taken for granted, claimed before or not: nothing is
\* inserted.
ClaimRaises(h) ==
    /\ At(h, "message") /\ ~halted
    /\ ~Preclaimed(h)
    /\ faults < MaxFaults
    /\ faults' = faults + 1
    /\ slipped' = slipped \cup {Cur(h)}
    /\ TakeOn(h)
    /\ UNCHANGED <<kind, storeVars, halted, batch, ready, jobs, paused, unlisted, overlap,
                   starts>>

\* record_pending_intake: a row that is there keeps its attempts.
Record(h) ==
    /\ At(h, "claimed") /\ kind[Cur(h)] \in {"ask", "voice"}
    /\ rows' = rows \cup {Cur(h)}
    /\ attempts' = [attempts EXCEPT ![Cur(h)] = IF Cur(h) \in rows THEN @ ELSE 0]
    /\ Goto(h, "recorded")
    /\ UNCHANGED <<kind, seen, watermark, gateway, halted, batch, whisper, ready,
                   jobs, histVars, starts, faults>>

\* The write fails and the exception is swallowed: the ask goes on without a row.
RecordFails(h) ==
    /\ At(h, "claimed") /\ kind[Cur(h)] \in {"ask", "voice"}
    /\ faults < MaxFaults
    /\ faults' = faults + 1
    /\ Goto(h, "recorded")
    /\ UNCHANGED <<kind, storeVars, halted, batch, whisper, ready, jobs, histVars, starts>>

SubmitAsk(h) ==
    /\ At(h, "recorded")
    /\ Submit(h, Cur(h), "claimed")
    /\ Goto(h, "advance")
    /\ UNCHANGED <<kind, storeVars, halted, batch, whisper, ready, histVars, starts,
                   faults>>

\* A handoff's intake carries the envelope as its metadata and no inbound_claimed.
SubmitHandoff(h) ==
    /\ At(h, "claimed") /\ kind[Cur(h)] = "handoff"
    /\ Submit(h, Cur(h), "unclaimed")
    /\ Goto(h, "advance")
    /\ UNCHANGED <<kind, storeVars, halted, batch, whisper, ready, histVars, starts,
                   faults>>

\* _absorb_fork: no message id, so record_pending_intake writes nothing.
SubmitFork(h) ==
    /\ At(h, "claimed") /\ kind[Cur(h)] = "fork"
    /\ Submit(h, Cur(h), "anon")
    /\ Goto(h, "advance")
    /\ UNCHANGED <<kind, storeVars, halted, batch, whisper, ready, histVars, starts,
                   faults>>

\* Mutant of Advance: the watermark goes to the newest message of the channel.
AdvanceToNewest(h) ==
    /\ At(h, "advance")
    /\ watermark' = posted
    /\ Drop(h)
    /\ Goto(h, "message")
    /\ UNCHANGED <<kind, seen, rows, attempts, gateway, halted, whisper, ready, jobs,
                   histVars, starts, faults>>

\* _advance_listen_watermark never goes back.
Advance(h) ==
    /\ At(h, "advance")
    /\ watermark' = IF Cur(h) > watermark THEN Cur(h) ELSE watermark
    /\ Drop(h)
    /\ Goto(h, "message")
    /\ UNCHANGED <<kind, seen, rows, attempts, gateway, halted, whisper, ready, jobs,
                   histVars, starts, faults>>

\* The watermark cannot be written: the exception ends this drain.
AdvanceFails(h) ==
    /\ At(h, "advance")
    /\ faults < MaxFaults
    /\ faults' = faults + 1
    /\ batch' = [batch EXCEPT ![h] = {}]
    /\ Goto(h, "poll")
    /\ UNCHANGED <<kind, storeVars, halted, whisper, ready, jobs, histVars, starts>>

\* The voice worker has a transcript, or tells the user there is none.
Transcribed(h, m, ok) ==
    /\ m \in whisper[h]
    /\ whisper' = [whisper EXCEPT ![h] = @ \ {m}]
    /\ ready' = IF ok THEN [ready EXCEPT ![h] = @ \cup {m}] ELSE ready
    /\ UNCHANGED <<kind, storeVars, halted, hpc, batch, jobs, histVars, starts, faults>>

-----------------------------------------------------------------------------
(* A job: _run_task up to the cook.                                        *)

JobAt(m, i, s) == i \in DOMAIN jobs[m] /\ jobs[m][i].pc = s
jobVars  == <<kind, attempts, watermark, gateway, halted, memVars, histVars, starts>>
jobFrame == <<jobVars, faults>>

\* An intake that is not marked claimed claims its message itself.
RunTask(m, i) ==
    /\ JobAt(m, i, "queued")
    /\ LET dup == jobs[m][i].path = "unclaimed" /\ m \in seen
       IN  jobs' = [jobs EXCEPT ![m][i].pc = IF dup THEN "duplicate" ELSE "admitted"]
    /\ seen' = IF jobs[m][i].path = "unclaimed" THEN seen \cup {m} ELSE seen
    /\ UNCHANGED <<rows, jobFrame>>

\* Spend-halted meanwhile: a receipt, and the row stays.
RunHalted(m, i) ==
    /\ JobAt(m, i, "admitted") /\ halted
    /\ jobs' = [jobs EXCEPT ![m][i].pc = "halted"]
    /\ UNCHANGED <<seen, rows, jobFrame>>

\* Mutant of CreateRun: the row is dropped as soon as there is a task.
CreateDropsRow(m, i) ==
    /\ JobAt(m, i, "admitted") /\ ~halted
    /\ jobs' = [jobs EXCEPT ![m][i] = [@ EXCEPT !.pc = "created", !.run = "running"]]
    /\ rows' = rows \ {m}
    /\ UNCHANGED <<seen, jobFrame>>

\* create_task, create_run
CreateRun(m, i) ==
    /\ JobAt(m, i, "admitted") /\ ~halted
    /\ jobs' = [jobs EXCEPT ![m][i] = [@ EXCEPT !.pc = "created", !.run = "running"]]
    /\ UNCHANGED <<seen, rows, jobFrame>>

\* Discord does not give the job a thread: the run fails, and the row stays.
ThreadBindFails(m, i) ==
    /\ JobAt(m, i, "created")
    /\ jobs' = [jobs EXCEPT ![m][i] = [@ EXCEPT !.pc = "unbound", !.run = "failed"]]
    /\ UNCHANGED <<seen, rows, jobFrame>>

\* The claim, a row of the run or the bind raises.  run_task fails the run it
\* has, if it can, and drops no row.
RunRaises(m, i) ==
    /\ i \in DOMAIN jobs[m] /\ jobs[m][i].pc \in {"queued", "admitted", "created"}
    /\ jobs[m][i].pc = "queued" => jobs[m][i].path = "unclaimed"
    /\ faults < MaxFaults
    /\ faults' = faults + 1
    /\ \E run \in {jobs[m][i].run, "failed"} :
          /\ jobs[m][i].run = "none" => run = "none"
          /\ jobs' = [jobs EXCEPT ![m][i] = [@ EXCEPT !.pc = "crashed", !.run = run]]
    /\ UNCHANGED <<seen, rows, jobVars>>

\* Mutant of BindInbound: the row is not dropped.
BindKeepsRow(m, i) ==
    /\ JobAt(m, i, "created")
    /\ jobs' = [jobs EXCEPT ![m][i] = [@ EXCEPT !.pc = "cook", !.cooked = TRUE]]
    /\ UNCHANGED <<seen, rows, jobFrame>>

\* bind_inbound_message drops the row, and the cook begins.
BindInbound(m, i) ==
    /\ JobAt(m, i, "created")
    /\ jobs' = [jobs EXCEPT ![m][i] = [@ EXCEPT !.pc = "cook", !.cooked = TRUE]]
    /\ rows' = IF jobs[m][i].path = "anon" THEN rows ELSE rows \ {m}
    /\ UNCHANGED <<seen, jobFrame>>

Finish(m, i) ==
    /\ JobAt(m, i, "cook")
    /\ jobs' = [jobs EXCEPT ![m][i] = [@ EXCEPT !.pc = "done", !.run = "settled"]]
    /\ UNCHANGED <<seen, rows, jobFrame>>

-----------------------------------------------------------------------------
StartStep(h) ==
    \/ FailStale(h) \/ ListRows(h) \/ ListFails(h)
    \/ Replay(h) \/ ReplayUncounted(h) \/ GiveUpFails(h)
    \/ ClaimGateway(h) \/ RefuseGateway(h)

DrainStep(h) ==
    \/ Poll(h) \/ PollEnd(h) \/ PassOver(h) \/ SkipSeen(h) \/ Claim(h)
    \/ ClaimRaises(h) \/ Record(h) \/ RecordFails(h) \/ SubmitAsk(h) \/ SubmitHandoff(h)
    \/ SubmitFork(h) \/ Advance(h) \/ AdvanceFails(h)

JobStep(m, i) ==
    \/ RunTask(m, i) \/ RunHalted(m, i) \/ CreateRun(m, i) \/ ThreadBindFails(m, i)
    \/ BindInbound(m, i) \/ Finish(m, i) \/ RunRaises(m, i)

\* Each start dispatches a message at most once, but for the claims that raise.
Slots == 1..(MaxStarts + MaxFaults + 1)

Next ==
    \/ \E k \in Kinds : Post(k)
    \/ SetHalted
    \/ \E h \in Hosts : HostStart(h) \/ HostDie(h) \/ StartStep(h) \/ DrainStep(h)
    \/ \E h \in Hosts, m \in Msgs, ok \in BOOLEAN : Transcribed(h, m, ok)
    \/ \E m \in Msgs, i \in Slots : JobStep(m, i)

Spec == Init /\ [][Next]_vars

(* A dead host is started again (its supervisor respawns it), a living one *)
(* goes on, and the pool runs every job.                                   *)
Respawn == (\A h \in Hosts : ~Up(h)) /\ \E h \in Hosts : HostStart(h)

Fairness ==
    /\ WF_vars(Respawn)
    /\ \A h \in Hosts : WF_vars(StartStep(h)) /\ WF_vars(DrainStep(h))
    /\ \A m \in Msgs, i \in Slots : WF_vars(JobStep(m, i))

FairSpec == Spec /\ Fairness

-----------------------------------------------------------------------------
JobRecords == [host : Hosts, path : Paths, pc : Waiting \cup InRun \cup Ended,
               run : {"none", "running", "failed", "settled"}, cooked : BOOLEAN]

(* TypeOK: the tables, the hosts' progress and the jobs are of their kinds.  *)
TypeOK ==
    /\ kind \in Seq(Kinds) /\ posted <= MaxMsgs
    /\ seen \subseteq Msgs /\ slipped \subseteq Msgs
    /\ rows \subseteq Met /\ unlisted \subseteq Msgs
    /\ attempts \in [Msgs -> Nat]
    /\ watermark \in 0..posted
    /\ gateway \in Hosts \cup {None}
    /\ halted \in BOOLEAN /\ overlap \in BOOLEAN
    /\ hpc \in [Hosts -> {"off", "stale", "list", "replay", "poll", "message", "claimed",
                          "recorded", "advance"}]
    /\ batch \in [Hosts -> SUBSET [msg : Msgs, memo : BOOLEAN]]
    /\ whisper \in [Hosts -> SUBSET Msgs] /\ ready \in [Hosts -> SUBSET Msgs]
    /\ paused \subseteq Msgs
    /\ jobs \in [Msgs -> Seq(JobRecords)]
    /\ starts \in 0..MaxStarts /\ faults \in 0..MaxFaults

(* DispatchOnce: "dispatch each new human task once" (listen.py:491), over   *)
(* every crash, replay and re-read: no message is cooked twice.              *)
Cooks(m) == Cardinality({i \in DOMAIN jobs[m] : jobs[m][i].cooked})
DispatchOnce == \A m \in Msgs : Cooks(m) <= 1

(* CookOnce: the same for the messages whose claim never raised, as long as  *)
(* no host was started while another was up: whatever else fails or dies,    *)
(* the claim stands between a re-read or a replay and a second cook.         *)
CookOnce == ~overlap => \A m \in Msgs \ slipped : Cooks(m) <= 1

(* OneListener: never two hosts read the channel: the gateway claim stands   *)
(* between a start and its first drain.                                      *)
Listening(h) == hpc[h] \in {"poll", "message", "claimed", "recorded", "advance"}
OneListener == \A g, h \in Hosts : Listening(g) /\ Listening(h) => g = h

(* NothingSkipped: the watermark passes only messages that were claimed or   *)
(* dropped while paused, or whose claim raised and that were submitted or    *)
(* handed to whisper all the same; a burst, a failed write or a crash in the *)
(* middle of a drain leaves no message behind it.                            *)
Handled(m) ==
    \/ m \in seen \cup paused
    \/ m \in slipped /\ (jobs[m] # <<>> \/ kind[m] = "voice")
NothingSkipped == \A m \in 1..watermark : Handled(m)

(* RowKeptUntilCooked: a remembered ask is forgotten only when its run is    *)
(* about to cook or its replays are used up.                                 *)
RowKeptUntilCooked ==
    [][\A m \in rows \ rows' : Cooks(m)' > 0 \/ attempts'[m] > MaxAttempts]_vars

(* EveryRowAnswered: an ask that reached pending_intake is cooked, gets a    *)
(* receipt or is given up, whatever host dies in between.  (A host started   *)
(* while another is up may list the rows too early and not look again, and   *)
(* one that cannot list them does not try twice.)                            *)
Answered(m) ==
    \/ m \notin rows \/ attempts[m] > MaxAttempts
    \/ \E i \in DOMAIN jobs[m] : jobs[m][i].pc \in Ended \ {"killed"}
RowsAnswered == \A m \in rows : Answered(m) \/ overlap \/ m \in unlisted
EveryRowAnswered == <>[]RowsAnswered

(* HandoffCooks: "Submits via JobPool only" (docs/co-work/handoff.md:12):    *)
(* the job of a handoff is not thrown away as a duplicate of the message     *)
(* that asked for it.                                                        *)
HandoffCooks ==
    \A m \in Msgs : \A i \in DOMAIN jobs[m] :
        jobs[m][i].pc = "duplicate" => Cooks(m) > 0
=============================================================================
