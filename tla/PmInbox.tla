-------------------------------- MODULE PmInbox --------------------------------
(***************************************************************************)
(* The inbox of Puppetmaster jobs somebody else started on this Mac        *)
(* (orchestration/pm_inbox.py): a tick of the listen loop lists the jobs,  *)
(* posts one card with a thread for each, edits it when the job moves, and *)
(* gives the operator's replies in the thread to the job as steers.  Two   *)
(* buttons of a parked job's card answer it on the gateway thread.         *)
(*                                                                         *)
(* One tick goes through the jobs and then through the threads:            *)
(*   "idle" -> "jobs" -> ("look" -> "post" -> "record" | "edit" -> "note") *)
(*   -> "threads" -> "read" -> "claim" -> "steer" -> ... -> "anchor"       *)
(* Every store call may raise: the tick is over then (tick_pm_inbox).      *)
(* Discord and the CLI fail without an exception.                          *)
(***************************************************************************)
EXTENDS Naturals, Sequences

CONSTANTS
    Jobs,        \* Puppetmaster's jobs
    MaxMoves,    \* bound of the model: changes of a job's status
    MaxReplies,  \* bound of the model: replies in a job's thread
    MaxFaults,   \* bound of the model: calls that fail or raise
    MaxCrashes,  \* bound of the model: host restarts
    None         \* no job

VARIABLES
    pm,          \* Puppetmaster: each job's status, and how often it moved
    old,         \* the jobs made before the inbox was opened
    row,         \* pm_inbox_jobs: the status and move noted, the steer anchor
    cards,       \* cards posted for each job
    shows,       \* what the newest card of each job shows
    replies,     \* replies in each job's thread
    claimed,     \* seen_messages: the replies of each thread that are claimed
    steered,     \* the replies each job was steered with
    at,          \* the tick
    faults, crashes,
    lapsed       \* jobs with an excuse: what went wrong for them

vars == <<pm, old, row, cards, shows, replies, claimed, steered, at, faults, crashes, lapsed>>

jobVars    == <<pm, old>>
cardVars   == <<cards, shows>>
threadVars == <<replies, claimed, steered>>
boundVars  == <<faults, crashes>>

-----------------------------------------------------------------------------
NoRow == [known |-> FALSE, status |-> "none", moves |-> 0, anchor |-> 0]
Idle  == [step |-> "idle", todo |-> {}, job |-> None, seen |-> NoRow, unread |-> <<>>]

Goto(step) == at' = [at EXCEPT !.step = step]
Fault == faults < MaxFaults /\ faults' = faults + 1
Lapse(j, what) == lapsed' = [lapsed EXCEPT ![j] = @ \cup {what}]

\* The numbers of the replies after the anchor, the newest first, as Discord
\* gives them.
Unread(j) == [i \in 1..(replies[j] - row[j].anchor) |-> replies[j] + 1 - i]

Init ==
    /\ old \in SUBSET Jobs
    /\ pm = [j \in Jobs |-> [status |-> IF j \in old THEN "running" ELSE "none", moves |-> 0]]
    /\ row = [j \in Jobs |-> NoRow]
    /\ cards = [j \in Jobs |-> 0] /\ shows = [j \in Jobs |-> "none"]
    /\ replies = [j \in Jobs |-> 0] /\ claimed = [j \in Jobs |-> {}]
    /\ steered = [j \in Jobs |-> <<>>]
    /\ at = Idle /\ faults = 0 /\ crashes = 0
    /\ lapsed = [j \in Jobs |-> {}]

-----------------------------------------------------------------------------
(* Puppetmaster and the operator.                                          *)

JobMoves(j) ==
    /\ pm[j].status # "done" /\ pm[j].moves < MaxMoves
    /\ \E s \in {"running", "parked", "done"} \ {pm[j].status} :
         pm' = [pm EXCEPT ![j] = [status |-> s, moves |-> @.moves + 1]]
    /\ UNCHANGED <<old, row, cardVars, threadVars, at, boundVars, lapsed>>

\* handle_pm_inbox_click: the buttons of a card that shows the job parked.  What
\* approve or reject do to a job that is parked no more is Puppetmaster's.
Tap(j) ==
    /\ shows[j] = "parked" /\ pm[j].status = "parked" /\ pm[j].moves < MaxMoves
    /\ \E s \in {"running", "done"} :
         pm' = [pm EXCEPT ![j] = [status |-> s, moves |-> @.moves + 1]]
    /\ UNCHANGED <<old, row, cardVars, threadVars, at, boundVars, lapsed>>

Reply(j) ==
    /\ row[j].known /\ replies[j] < MaxReplies
    /\ replies' = [replies EXCEPT ![j] = @ + 1]
    /\ UNCHANGED <<jobVars, row, cardVars, claimed, steered, at, boundVars, lapsed>>

-----------------------------------------------------------------------------
(* The jobs.                                                               *)

\* _claim_tick, candidate_state_dirs and job-summaries.
Tick ==
    /\ at.step = "idle"
    /\ at' = [Idle EXCEPT !.step = "jobs", !.todo = {j \in Jobs : pm[j].status # "none"}]
    /\ UNCHANGED <<jobVars, row, cardVars, threadVars, boundVars, lapsed>>

\* _apply_job reads the row; a job that did not move is left alone.
LookUp ==
    /\ at.step = "jobs"
    /\ \E j \in at.todo :
         LET moved == row[j].status # pm[j].status \/ row[j].moves # pm[j].moves
             seen  == [row[j] EXCEPT !.status = pm[j].status, !.moves = pm[j].moves]
         IN  at' = [at EXCEPT !.todo = @ \ {j}, !.job = j, !.seen = seen,
                              !.step = IF ~row[j].known THEN "date"
                                       ELSE IF moved THEN "edit" ELSE "jobs"]
    /\ UNCHANGED <<jobVars, row, cardVars, threadVars, boundVars, lapsed>>

\* pm_job_detail: a job made before the inbox was opened gets no card.
CheckDate ==
    /\ at.step = "date"
    /\ Goto(IF at.job \in old THEN "jobs" ELSE "post")
    /\ UNCHANGED <<jobVars, row, cardVars, threadVars, boundVars, lapsed>>

\* The date cannot be read: the job gets a card.
DateFails ==
    /\ at.step = "date" /\ Fault
    /\ Goto("post")
    /\ Lapse(at.job, "undated")
    /\ UNCHANGED <<jobVars, row, cardVars, threadVars, crashes>>

\* _post_job: send_card and the thread on its message.
Post ==
    /\ at.step = "post"
    /\ cards' = [cards EXCEPT ![at.job] = @ + 1]
    /\ shows' = [shows EXCEPT ![at.job] = at.seen.status]
    /\ Goto("record")
    /\ UNCHANGED <<jobVars, row, threadVars, boundVars, lapsed>>

\* No message: the next tick tries again.
PostFails ==
    /\ at.step = "post" /\ Fault
    /\ Goto("jobs")
    /\ UNCHANGED <<jobVars, row, cardVars, threadVars, crashes, lapsed>>

\* The card's own message is the anchor of its thread.
Record ==
    /\ at.step = "record"
    /\ row' = [row EXCEPT ![at.job] = [at.seen EXCEPT !.known = TRUE]]
    /\ Goto("jobs")
    /\ UNCHANGED <<jobVars, cardVars, threadVars, boundVars, lapsed>>

\* _edit_job
Edit ==
    /\ at.step = "edit"
    /\ shows' = [shows EXCEPT ![at.job] = at.seen.status]
    /\ Goto("note")
    /\ UNCHANGED <<jobVars, row, cards, threadVars, boundVars, lapsed>>

\* The edit fails: the move is noted all the same and not painted again.
EditFails ==
    /\ at.step = "edit" /\ Fault
    /\ Goto("note")
    /\ Lapse(at.job, "unpainted")
    /\ UNCHANGED <<jobVars, row, cardVars, threadVars, crashes>>

Note ==
    /\ at.step = "note"
    /\ row' = [row EXCEPT ![at.job] = at.seen]
    /\ Goto("jobs")
    /\ UNCHANGED <<jobVars, cardVars, threadVars, boundVars, lapsed>>

-----------------------------------------------------------------------------
(* The threads.                                                            *)

\* _drain_job_threads
ListThreads ==
    /\ at.step = "jobs" /\ at.todo = {}
    /\ at' = [at EXCEPT !.step = "threads", !.todo = {j \in Jobs : row[j].known}]
    /\ UNCHANGED <<jobVars, row, cardVars, threadVars, boundVars, lapsed>>

\* read_messages after the anchor; the page is gone through as it comes.
ReadThread ==
    /\ at.step = "threads"
    /\ \E j \in at.todo :
         at' = [at EXCEPT !.step = "claim", !.todo = @ \ {j}, !.job = j, !.unread = Unread(j),
                          !.seen = [row[j] EXCEPT !.anchor = replies[j]]]
    /\ UNCHANGED <<jobVars, row, cardVars, threadVars, boundVars, lapsed>>

ReadFails ==
    /\ at.step = "threads" /\ Fault
    /\ \E j \in at.todo : at' = [at EXCEPT !.todo = @ \ {j}]
    /\ UNCHANGED <<jobVars, row, cardVars, threadVars, crashes, lapsed>>

\* Mutant of Claim: the anchor alone tells what is new.
ClaimAnyway ==
    /\ at.step = "claim" /\ at.unread # <<>>
    /\ claimed' = [claimed EXCEPT ![at.job] = @ \cup {Head(at.unread)}]
    /\ Goto("steer")
    /\ UNCHANGED <<jobVars, row, cardVars, replies, steered, boundVars, lapsed>>

\* claim_inbound_message: a reply that is claimed is passed over.
Claim ==
    /\ at.step = "claim" /\ at.unread # <<>>
    /\ LET n == Head(at.unread)
       IN  IF n \in claimed[at.job]
           THEN at' = [at EXCEPT !.unread = Tail(@)] /\ UNCHANGED claimed
           ELSE Goto("steer") /\ claimed' = [claimed EXCEPT ![at.job] = @ \cup {n}]
    /\ UNCHANGED <<jobVars, row, cardVars, replies, steered, boundVars, lapsed>>

\* run_pm_verb("steer"), and "Steered" in the thread.
Steer ==
    /\ at.step = "steer"
    /\ steered' = [steered EXCEPT ![at.job] = Append(@, Head(at.unread))]
    /\ at' = [at EXCEPT !.step = "claim", !.unread = Tail(@)]
    /\ UNCHANGED <<jobVars, row, cardVars, replies, claimed, boundVars, lapsed>>

\* "Could not steer": the reply stays claimed.
SteerFails ==
    /\ at.step = "steer" /\ Fault
    /\ at' = [at EXCEPT !.step = "claim", !.unread = Tail(@)]
    /\ Lapse(at.job, "told")
    /\ UNCHANGED <<jobVars, row, cardVars, threadVars, crashes>>

\* The anchor moves to the newest message that was read.
Anchor ==
    /\ at.step = "claim" /\ at.unread = <<>>
    /\ row' = [row EXCEPT ![at.job] = at.seen]
    /\ Goto("threads")
    /\ UNCHANGED <<jobVars, cardVars, threadVars, boundVars, lapsed>>

TickEnds ==
    /\ at.step = "threads" /\ at.todo = {}
    /\ at' = Idle
    /\ UNCHANGED <<jobVars, row, cardVars, threadVars, boundVars, lapsed>>

-----------------------------------------------------------------------------
\* Between these a card or a claim is there and its row or steer is not.
Excuse ==
    IF at.step \in {"record", "steer"} THEN Lapse(at.job, at.step) ELSE UNCHANGED lapsed

\* A store call raises: the rest of the tick does not happen.
TickRaises ==
    /\ at.step \in {"jobs", "record", "note", "claim"} /\ Fault
    /\ Excuse
    /\ at' = Idle
    /\ UNCHANGED <<jobVars, row, cardVars, threadVars, crashes>>

HostDies ==
    /\ crashes < MaxCrashes
    /\ crashes' = crashes + 1
    /\ Excuse
    /\ at' = Idle
    /\ UNCHANGED <<jobVars, row, cardVars, threadVars, faults>>

TickStep ==
    \/ Tick \/ LookUp \/ CheckDate \/ Post \/ Record \/ Edit \/ Note
    \/ ListThreads \/ ReadThread \/ Claim \/ Steer \/ Anchor \/ TickEnds

Next ==
    \/ TickStep
    \/ DateFails \/ PostFails \/ EditFails \/ ReadFails \/ SteerFails \/ TickRaises \/ HostDies
    \/ \E j \in Jobs : JobMoves(j) \/ Tap(j) \/ Reply(j)

Spec == Init /\ [][Next]_vars

\* The listen loop ticks.
Fairness == WF_vars(TickStep)

FairSpec == Spec /\ Fairness

-----------------------------------------------------------------------------
(* TypeOK: rows, threads and the tick are of their kinds; only replies that *)
(* were written are claimed, only claimed ones are steers.                  *)
TypeOK ==
    /\ \A j \in Jobs :
         /\ pm[j].status \in {"none", "running", "parked", "done"}
         /\ shows[j] \in {"none", "running", "parked", "done"}
         /\ row[j].anchor \in 0..replies[j]
         /\ claimed[j] \subseteq 1..replies[j]
         /\ \A i \in DOMAIN steered[j] : steered[j][i] \in claimed[j]
         /\ lapsed[j] \subseteq {"undated", "unpainted", "told", "record", "steer"}
    /\ at.step \in {"idle", "jobs", "date", "post", "record", "edit", "note", "threads",
                    "claim", "steer"}
    /\ at.todo \subseteq Jobs /\ at.job \in Jobs \cup {None}
    /\ faults \in 0..MaxFaults /\ crashes \in 0..MaxCrashes

(* SteerOnce: "a reply steers exactly once" (docs/jobs/pm-inbox.md:71), over *)
(* ticks that broke off in the middle of a page (which is read newest first *)
(* and read again) and host restarts; one the anchor has passed has reached *)
(* the job, unless its thread says that it could not be steered or the host *)
(* died with it in hand.                                                    *)
SteerOnce ==
    \A j \in Jobs :
        /\ \A a, b \in DOMAIN steered[j] : steered[j][a] = steered[j][b] => a = b
        /\ lapsed[j] \cap {"told", "steer"} = {} =>
               \A n \in 1..row[j].anchor : \E i \in DOMAIN steered[j] : steered[j][i] = n

(* OneCardNewJobs: a job gets one card and a job from before the inbox was  *)
(* opened none; excused are a card whose row was not written and a job      *)
(* whose date could not be read.                                           *)
OneCardNewJobs ==
    \A j \in Jobs :
        /\ "record" \in lapsed[j] \/ cards[j] <= 1
        /\ j \in old /\ "undated" \notin lapsed[j] => cards[j] = 0

(* CardFollows: in the end a job that moves no more is shown as it is, also *)
(* when it moved between the reading of its status and the note of it;      *)
(* excused are a card whose edit failed (nothing paints it again) and one   *)
(* whose row was never written.                                             *)
CardFollows ==
    \A j \in Jobs : cards[j] > 0 => \/ shows[j] = pm[j].status
                                     \/ lapsed[j] \cap {"unpainted", "record"} # {}
=============================================================================
