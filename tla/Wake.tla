--------------------------------- MODULE Wake ----------------------------------
(***************************************************************************)
(* A pull request and the host that follows it (orchestration/             *)
(* github_wake.py, github_rules.py, ci_watch.py): each poll of the listen  *)
(* loop reads the pull request and                                         *)
(*  - wakes the job it is bound to, once per event: a card in the job's    *)
(*    thread and the job's line on the HOST card;                          *)
(*  - applies the stored rule: "single" gives its prompt to the job it is  *)
(*    bound to, "new" opens a job when it is bound to none;                *)
(*  - posts one "CI red" card per head that is red (ci_watch).             *)
(* What was done already is the github_wake_events table: claim, then act. *)
(*                                                                         *)
(* One poll is "idle", "event" and "post" for each event, "rule", "answer"  *)
(* or "open" and "adopt" with the event that opened the job, "ci" and      *)
(* "cipost".                                                               *)
(***************************************************************************)
EXTENDS Naturals, FiniteSets, Sequences

CONSTANTS
    MaxPushes,    \* bound of the model: heads after the first
    MaxChecks,    \* bound of the model: how often the checks change
    MaxComments,  \* bound of the model: review comments of collaborators
    MaxFaults     \* bound of the model: calls that fail or raise, and host restarts

VARIABLES
    pr,         \* GitHub's: the head, its checks, the comments, merged or not
    changes,    \* how often the checks changed
    rule,       \* the stored rule for failing checks
    bound,      \* job_pull_requests has the pull request
    thread,     \* the job it is bound to has a thread
    attention,  \* the job's github attention, which ranks it on the HOST card
    claimed,    \* github_wake_events
    done,       \* how often each event was acted on
    at,         \* the poll
    faults,
    lapsed      \* events with an excuse: claimed and not acted on, or not claimed

vars == <<pr, changes, rule, bound, thread, attention, claimed, done, at, faults, lapsed>>

hubVars == <<pr, changes, rule>>
jobVars == <<bound, thread>>

-----------------------------------------------------------------------------
(* Events, by their ids.                                                   *)
Red      == <<"red", 0>>        \* check-fail:repo#number:check:conclusion
Green    == <<"green", 0>>
Waiting  == <<"waiting", 0>>    \* an event without a kind: nothing is posted
Merged   == <<"merged", 0>>
Review(n) == <<"review", n>>
CiRed(h) == <<"ci", h>>         \* ci-watch:repo#number:sha
RuleRed  == <<"rule", 0>>       \* rule:id:check-fail:...
Opened   == <<"opened", 0>>     \* a job the rule opened; it has no id

Ids == {Red, Green, Waiting, Merged, RuleRed, Opened}
          \cup {Review(n) : n \in 1..MaxComments} \cup {CiRed(h) : h \in 0..MaxPushes}

\* wake_events
Events(p) ==
    (CASE p.checks = "red" -> <<Red>> [] p.checks = "green" -> <<Green>>
       [] p.checks = "pending" -> <<Waiting>> [] OTHER -> <<>>)
    \o [n \in 1..p.comments |-> Review(n)]
    \o (IF p.merged THEN <<Merged>> ELSE <<>>)

Attention(e) ==
    CASE e = Red \/ e[1] = "review" -> "need" [] e = Waiting -> "waiting" [] OTHER -> ""

\* github_wake_card is for what needs somebody.
Posts(e) == e = Red \/ e[1] = "review"

-----------------------------------------------------------------------------
Idle == [step |-> "idle", head |-> 0, todo |-> <<>>, then |-> "idle"]

Goto(step) == at' = [at EXCEPT !.step = step]
Fault == faults < MaxFaults /\ faults' = faults + 1
Did(e) == done' = [done EXCEPT ![e] = @ + 1]
Lapse(e, what) == lapsed' = lapsed \cup {<<e, what>>}

Init ==
    /\ pr = [head |-> 0, checks |-> "none", comments |-> 0, merged |-> FALSE]
    /\ changes = 0
    /\ rule \in {"none", "single", "new"}
    /\ bound \in BOOLEAN /\ thread \in {FALSE, bound}
    /\ attention = ""
    /\ claimed = {} /\ done = [e \in Ids |-> 0]
    /\ at = Idle /\ faults = 0 /\ lapsed = {}

-----------------------------------------------------------------------------
(* GitHub.                                                                 *)

Push ==
    /\ pr.head < MaxPushes /\ ~pr.merged
    /\ pr' = [pr EXCEPT !.head = @ + 1, !.checks = "pending"]
    /\ UNCHANGED <<changes, rule, jobVars, attention, claimed, done, at, faults, lapsed>>

CheckRuns ==
    /\ changes < MaxChecks /\ ~pr.merged
    /\ \E c \in {"pending", "red", "green"} \ {pr.checks} : pr' = [pr EXCEPT !.checks = c]
    /\ changes' = changes + 1
    /\ UNCHANGED <<rule, jobVars, attention, claimed, done, at, faults, lapsed>>

Comment ==
    /\ pr.comments < MaxComments
    /\ pr' = [pr EXCEPT !.comments = @ + 1]
    /\ UNCHANGED <<changes, rule, jobVars, attention, claimed, done, at, faults, lapsed>>

Merge ==
    /\ ~pr.merged
    /\ pr' = [pr EXCEPT !.merged = TRUE]
    /\ UNCHANGED <<changes, rule, jobVars, attention, claimed, done, at, faults, lapsed>>

\* discover_job_pull_requests: a job's summary names the pull request.
Discover ==
    /\ at.step = "idle" /\ ~bound
    /\ bound' = TRUE /\ thread' \in BOOLEAN
    /\ UNCHANGED <<hubVars, attention, claimed, done, at, faults, lapsed>>

-----------------------------------------------------------------------------
(* wake_github_jobs                                                        *)

\* The pull request is read, and everything that follows is about that reading.
Poll ==
    /\ at.step = "idle"
    /\ at' = IF bound
             THEN [step |-> "event", head |-> pr.head, todo |-> Events(pr), then |-> "rule"]
             ELSE [Idle EXCEPT !.step = "rule"]
    /\ UNCHANGED <<hubVars, jobVars, attention, claimed, done, faults, lapsed>>

\* gh fails: nothing is known of the pull request.
PollFails ==
    /\ at.step = "idle" /\ bound /\ Fault
    /\ at' = [Idle EXCEPT !.step = "rule"]
    /\ UNCHANGED <<hubVars, jobVars, attention, claimed, done, lapsed>>

\* Mutant of Claim: what was posted before is posted again.
ClaimAnyway ==
    /\ at.step = "event" /\ at.todo # <<>>
    /\ LET e == Head(at.todo)
       IN  /\ attention' = Attention(e)
           /\ claimed' = claimed \cup {e}
           /\ IF e = Waiting THEN at' = [at EXCEPT !.todo = Tail(@)] ELSE Goto("post")
    /\ UNCHANGED <<hubVars, jobVars, done, faults, lapsed>>

\* apply_wake: the job's attention, and the claim of an event that has a kind.
Claim ==
    /\ at.step = "event" /\ at.todo # <<>>
    /\ LET e == Head(at.todo)
       IN  /\ attention' = Attention(e)
           /\ IF e = Waiting \/ e \in claimed
              THEN at' = [at EXCEPT !.todo = Tail(@)] /\ UNCHANGED claimed
              ELSE Goto("post") /\ claimed' = claimed \cup {e}
    /\ UNCHANGED <<hubVars, jobVars, done, faults, lapsed>>

\* set_job_github_attention raises: the job keeps the attention it had.
AttentionFails ==
    /\ at.step = "event" /\ at.todo # <<>> /\ Fault
    /\ LET e == Head(at.todo)
       IN  IF e = Waiting \/ e \in claimed
           THEN at' = [at EXCEPT !.todo = Tail(@)] /\ UNCHANGED claimed
           ELSE Goto("post") /\ claimed' = claimed \cup {e}
    /\ UNCHANGED <<hubVars, jobVars, attention, done, lapsed>>

\* claim_github_wake raises: the event counts as claimed by this poll.
ClaimRaises ==
    /\ at.step = "event" /\ at.todo # <<>> /\ Head(at.todo) # Waiting /\ Fault
    /\ attention' = Attention(Head(at.todo))
    /\ Goto("post")
    /\ Lapse(Head(at.todo), "unclaimed")
    /\ UNCHANGED <<hubVars, jobVars, claimed, done>>

\* send_card in the job's thread, if it has one, the lineage node and the HOST card.
Post ==
    /\ at.step = "post"
    /\ LET e == Head(at.todo)
       IN  /\ IF Posts(e) /\ thread THEN Did(e) ELSE UNCHANGED done
    /\ at' = [at EXCEPT !.step = "event", !.todo = Tail(@)]
    /\ UNCHANGED <<hubVars, jobVars, attention, claimed, faults, lapsed>>

\* The card is not posted; its event stays claimed.
PostFails ==
    /\ at.step = "post" /\ Posts(Head(at.todo)) /\ thread /\ Fault
    /\ Lapse(Head(at.todo), "unposted")
    /\ at' = [at EXCEPT !.step = "event", !.todo = Tail(@)]
    /\ UNCHANGED <<hubVars, jobVars, attention, claimed, done>>

EventsEnd ==
    /\ at.step = "event" /\ at.todo = <<>>
    /\ Goto(at.then)
    /\ UNCHANGED <<hubVars, jobVars, attention, claimed, done, faults, lapsed>>

-----------------------------------------------------------------------------
(* admit_github_rules, with a rule for failing checks.                     *)

\* The pull request is read anew.  follow_bound_job claims before it asks.
MatchRule ==
    /\ at.step = "rule"
    /\ IF rule = "single" /\ bound /\ pr.checks = "red" /\ RuleRed \notin claimed
       THEN Goto("answer") /\ claimed' = claimed \cup {RuleRed}
       ELSE /\ at' = [at EXCEPT !.step = IF rule = "new" /\ ~bound /\ pr.checks = "red"
                                         THEN "open" ELSE "ci", !.head = pr.head]
            /\ UNCHANGED claimed
    /\ UNCHANGED <<hubVars, jobVars, attention, done, faults, lapsed>>

\* job_for_pull_request raises: the pull request counts as bound to no job, and
\* a rule for new ones opens one more.
OwnerFails ==
    /\ at.step = "rule" /\ bound /\ Fault
    /\ IF rule = "new" /\ pr.checks = "red"
       THEN /\ at' = [at EXCEPT !.step = "open", !.head = pr.head]
            /\ Lapse(Opened, "unclaimed")
       ELSE Goto("ci") /\ UNCHANGED lapsed
    /\ UNCHANGED <<hubVars, jobVars, attention, claimed, done>>

\* _claim_rule raises: the rule counts as claimed by this poll.
RuleClaimRaises ==
    /\ at.step = "rule" /\ rule = "single" /\ bound /\ pr.checks = "red" /\ Fault
    /\ Goto("answer")
    /\ Lapse(RuleRed, "unclaimed")
    /\ UNCHANGED <<hubVars, jobVars, attention, claimed, done>>

\* steer, or run_task in the job's thread.
Answer ==
    /\ at.step = "answer"
    /\ Did(RuleRed)
    /\ Goto("ci")
    /\ UNCHANGED <<hubVars, jobVars, attention, claimed, faults, lapsed>>

AnswerFails ==
    /\ at.step = "answer" /\ Fault
    /\ Lapse(RuleRed, "unposted")
    /\ Goto("ci")
    /\ UNCHANGED <<hubVars, jobVars, attention, claimed, done>>

\* open_unbound_job: a thread, and run_task to its end, before anything is claimed.
Open ==
    /\ at.step = "open"
    /\ Did(Opened)
    /\ thread' = TRUE
    /\ Goto("adopt")
    /\ UNCHANGED <<hubVars, bound, attention, claimed, faults, lapsed>>

\* The thread cannot be started: the job runs without one.
OpenThreadless ==
    /\ at.step = "open" /\ Fault
    /\ Did(Opened)
    /\ thread' = FALSE
    /\ Goto("adopt")
    /\ UNCHANGED <<hubVars, bound, attention, claimed, lapsed>>

\* run_task raises, or gives no task: the next poll tries again.
OpenFails ==
    /\ at.step = "open" /\ Fault
    /\ Goto("ci")
    /\ UNCHANGED <<hubVars, jobVars, attention, claimed, done, lapsed>>

\* Mutant of Adopt: the new job is not bound.
AdoptUnbound ==
    /\ at.step = "adopt"
    /\ at' = [at EXCEPT !.step = "event", !.todo = <<Red>>, !.then = "ci"]
    /\ UNCHANGED <<hubVars, jobVars, attention, claimed, done, faults, lapsed>>

\* The new job owns the pull request and is woken by what opened it.
Adopt ==
    /\ at.step = "adopt"
    /\ bound' = TRUE
    /\ at' = [at EXCEPT !.step = "event", !.todo = <<Red>>, !.then = "ci"]
    /\ UNCHANGED <<hubVars, thread, attention, claimed, done, faults, lapsed>>

\* The bind fails: the next poll opens a second job.
AdoptFails ==
    /\ at.step = "adopt" /\ Fault
    /\ Lapse(Opened, "unclaimed")
    /\ at' = [at EXCEPT !.step = "event", !.todo = <<Red>>, !.then = "ci"]
    /\ UNCHANGED <<hubVars, jobVars, attention, claimed, done>>

-----------------------------------------------------------------------------
(* tick_ci_watch                                                           *)

\* The open pull requests are read once more; a head is claimed by its sha.
ClaimHead ==
    /\ at.step = "ci"
    /\ IF pr.checks = "red" /\ ~pr.merged /\ CiRed(pr.head) \notin claimed
       THEN /\ claimed' = claimed \cup {CiRed(pr.head)}
            /\ at' = [at EXCEPT !.step = "cipost", !.head = pr.head]
       ELSE at' = Idle /\ UNCHANGED claimed
    /\ UNCHANGED <<hubVars, jobVars, attention, done, faults, lapsed>>

\* gh or the claim fails: nothing is claimed, the next poll tries again.
ClaimHeadFails ==
    /\ at.step = "ci" /\ Fault
    /\ at' = Idle
    /\ UNCHANGED <<hubVars, jobVars, attention, claimed, done, lapsed>>

PostHead ==
    /\ at.step = "cipost"
    /\ Did(CiRed(at.head))
    /\ at' = Idle
    /\ UNCHANGED <<hubVars, jobVars, attention, claimed, faults, lapsed>>

PostHeadFails ==
    /\ at.step = "cipost" /\ Fault
    /\ Lapse(CiRed(at.head), "unposted")
    /\ at' = Idle
    /\ UNCHANGED <<hubVars, jobVars, attention, claimed, done>>

-----------------------------------------------------------------------------
\* The host dies and starts again; what was claimed and not acted on is lost,
\* a job that was opened and not bound is opened again.
HostDies ==
    /\ Fault
    /\ CASE at.step = "post"   -> Lapse(Head(at.todo), "unposted")
         [] at.step = "cipost" -> Lapse(CiRed(at.head), "unposted")
         [] at.step = "answer" -> Lapse(RuleRed, "unposted")
         [] at.step = "adopt"  -> Lapse(Opened, "unclaimed")
         [] OTHER -> UNCHANGED lapsed
    /\ at' = Idle
    /\ UNCHANGED <<hubVars, jobVars, attention, claimed, done>>

HostStep ==
    \/ Poll \/ Claim \/ Post \/ EventsEnd
    \/ MatchRule \/ Answer \/ Open \/ Adopt
    \/ ClaimHead \/ PostHead

Next ==
    \/ HostStep
    \/ Push \/ CheckRuns \/ Comment \/ Merge \/ Discover
    \/ PollFails \/ AttentionFails \/ ClaimRaises \/ PostFails
    \/ OwnerFails \/ RuleClaimRaises \/ AnswerFails
    \/ OpenThreadless \/ OpenFails \/ AdoptFails
    \/ ClaimHeadFails \/ PostHeadFails \/ HostDies

Spec == Init /\ [][Next]_vars

\* The listen loop polls.
Fairness == WF_vars(HostStep)

FairSpec == Spec /\ Fairness

-----------------------------------------------------------------------------
(* TypeOK: events, the poll and the table of claims are of their kinds.    *)
TypeOK ==
    /\ pr.head \in 0..MaxPushes /\ pr.checks \in {"none", "pending", "red", "green"}
    /\ pr.comments \in 0..MaxComments /\ pr.merged \in BOOLEAN
    /\ attention \in {"", "need", "waiting"} /\ bound \in BOOLEAN
    /\ thread \in BOOLEAN
    /\ claimed \subseteq Ids \ {Waiting, Opened}
    /\ at.step \in {"idle", "event", "post", "rule", "answer", "open", "adopt", "ci", "cipost"}
    /\ \A i \in DOMAIN at.todo : at.todo[i] \in Ids
    /\ lapsed \subseteq Ids \X {"unclaimed", "unposted"}
    /\ faults \in 0..MaxFaults

(* WakesOnce: over polls, three followers of the same pull request and     *)
(* restarts, a comment or a failing check is posted once, a rule answers   *)
(* once and opens one job, and a head gets one red card; excused is an     *)
(* event whose claim raised, and a job opened when the owner could not be  *)
(* read or before one that was not bound.                                  *)
WakesOnce == \A e \in Ids : <<e, "unclaimed">> \in lapsed \/ done[e] <= 1

Settled(e) == done[e] > 0 \/ <<e, "unposted">> \in lapsed

\* What the pull request asks of the job's owner.
Wanted == IF pr.merged THEN ""
          ELSE IF pr.comments > 0 \/ pr.checks = "red" THEN "need"
          ELSE IF pr.checks = "pending" THEN "waiting" ELSE ""

(* WakesTell: in the end every comment on the pull request of a job that   *)
(* has a thread is posted, a head that is red has its card, and after a    *)
(* poll the job asks for what the pull request asks for: a merged one      *)
(* nothing, a commented or red one somebody, a running one patience.  When *)
(* a second job was opened for it, the thread is the second one's and the  *)
(* comments were for the first: they were claimed and may have no card.    *)
WakesTell ==
    /\ bound /\ thread /\ <<Opened, "unclaimed">> \notin lapsed
       => \A n \in 1..pr.comments : Settled(Review(n))
    /\ pr.checks = "red" /\ ~pr.merged => Settled(CiRed(pr.head))
    /\ bound /\ at.step = "ci" => attention = Wanted

=============================================================================
