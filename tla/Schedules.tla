------------------------------- MODULE Schedules -------------------------------
(***************************************************************************)
(* What the listen loop does by the clock (orchestration/listen.py         *)
(* _fire_due_schedules, morning.py, capture_digest.py): a stored schedule  *)
(* becomes a job each interval while its channel is On, a schedule that is *)
(* due while the channel is Off is skipped and told once, and the HOST     *)
(* channel gets a morning card each day and a digest card each week.       *)
(*                                                                         *)
(* One poll is "idle", then "fire" and "bump", or "skip" and "brief", then *)
(* "report" and "mark" and "post" for each of the two cards.               *)
(***************************************************************************)
EXTENDS Naturals, FiniteSets

CONSTANTS
    Every,       \* every_s of the schedule, in ticks of the clock
    Day,         \* ticks of a day
    Hour,        \* the tick of the day from which the cards are due
    Week,        \* days of a week; the digest is for the first of them
    MaxTime,     \* bound of the model: the clock
    MaxTaps,     \* bound of the model: On, Off, Halt and their undoing
    MaxFaults,   \* bound of the model: calls that raise, and host restarts
    None         \* no time

VARIABLES
    now,        \* the clock
    armed,      \* the channel's On or Off
    halted,     \* the spend cap's Halt
    allowed,    \* the schedule's author may dispatch
    nextMs,     \* the schedule's row: when it is due
    fired,      \* the poll of the schedule's last job, and the least time between two
    untold,     \* slots skipped since the last Catch-up briefing
    mark,       \* the day and the week the cards are marked posted for
    cards,      \* of each kind, the newest card's day or week and how many it has
    at,         \* the poll
    taps, faults,
    lapsed      \* what went wrong: "bump", "brief", or a kind whose mark was not
                \* read or written

vars == <<now, armed, halted, allowed, nextMs, fired, untold, mark, cards, at, taps,
          faults, lapsed>>

hostVars  == <<armed, halted, allowed, taps>>
rowVars   == <<nextMs, fired, untold>>
cardVars  == <<mark, cards>>

Kinds == {"morning", "digest"}
MaxPeriods == MaxTime \div Day

-----------------------------------------------------------------------------
Idle == [step |-> "idle", now |-> 0, todo |-> {}, kind |-> "none"]

Goto(step) == at' = [at EXCEPT !.step = step]
Fault == faults < MaxFaults /\ faults' = faults + 1
Lapse(what) == lapsed' = lapsed \cup {what}

\* The date, and week_key.
Period(kind, t) == IF kind = "morning" THEN t \div Day ELSE t \div (Day * Week)

\* morning_due and digest_due: from the hour on, on the digest's day, unless the
\* watermark that was read is of this period.
CardDue(kind, read) ==
    /\ at.now % Day >= Hour
    /\ kind = "digest" => (at.now \div Day) % Week = 0
    /\ read # Period(kind, at.now) + 1

Init ==
    /\ now = 0 /\ armed \in BOOLEAN /\ halted = FALSE /\ allowed \in BOOLEAN
    /\ nextMs = Every /\ fired = [last |-> None, gap |-> MaxTime] /\ untold = 0
    /\ mark = [k \in Kinds |-> 0]
    /\ cards = [k \in Kinds |-> [period |-> None, count |-> 0]]
    /\ at = Idle /\ taps = 0 /\ faults = 0 /\ lapsed = {}

-----------------------------------------------------------------------------
Time ==
    /\ now < MaxTime
    /\ now' = now + 1
    /\ UNCHANGED <<hostVars, rowVars, cardVars, at, faults, lapsed>>

TapOnOff ==
    /\ taps < MaxTaps /\ taps' = taps + 1
    /\ armed' = ~armed
    /\ UNCHANGED <<now, halted, allowed, rowVars, cardVars, at, faults, lapsed>>

TapHalt ==
    /\ taps < MaxTaps /\ taps' = taps + 1
    /\ halted' = ~halted
    /\ UNCHANGED <<now, armed, allowed, rowVars, cardVars, at, faults, lapsed>>

-----------------------------------------------------------------------------
(* The schedule.                                                           *)

\* Halt, what is due, and On or Off are read once.
Poll ==
    /\ at.step = "idle"
    /\ at' = [Idle EXCEPT !.now = now,
                          !.step = IF halted \/ nextMs > now THEN "report"
                                   ELSE IF ~armed THEN "skip"
                                   ELSE IF allowed THEN "fire" ELSE "report",
                          !.todo = Kinds]
    /\ UNCHANGED <<now, hostVars, rowVars, cardVars, faults, lapsed>>

\* JobPool.submit; a board digest is posted instead.
Fire ==
    /\ at.step = "fire"
    /\ fired' = [last |-> at.now,
                 gap |-> IF fired.last = None THEN MaxTime
                         ELSE CHOOSE g \in {fired.gap, at.now - fired.last} :
                                  g <= fired.gap /\ g <= at.now - fired.last]
    /\ Goto("bump")
    /\ UNCHANGED <<now, hostVars, nextMs, untold, cardVars, faults, lapsed>>

\* submit raises: the schedule stays due.
FireFails ==
    /\ at.step = "fire" /\ Fault
    /\ Goto("report")
    /\ UNCHANGED <<now, hostVars, rowVars, cardVars, lapsed>>

\* Mutant of Bump: the next slot follows the last one.
BumpFromSlot ==
    /\ at.step = "bump"
    /\ nextMs' = nextMs + Every
    /\ Goto("report")
    /\ UNCHANGED <<now, hostVars, fired, untold, cardVars, faults, lapsed>>

\* bump_schedule: the next slot is an interval after this poll.
Bump ==
    /\ at.step = "bump"
    /\ nextMs' = at.now + Every
    /\ Goto("report")
    /\ UNCHANGED <<now, hostVars, fired, untold, cardVars, faults, lapsed>>

\* The bump raises: the next poll makes another job.
BumpFails ==
    /\ at.step = "bump" /\ Fault
    /\ Lapse("bump")
    /\ Goto("report")
    /\ UNCHANGED <<now, hostVars, rowVars, cardVars>>

\* _catch_up_skipped_while_disarmed moves the row on ...
Skip ==
    /\ at.step = "skip"
    /\ nextMs' = at.now + Every
    /\ untold' = untold + 1
    /\ Goto("brief")
    /\ UNCHANGED <<now, hostVars, fired, cardVars, faults, lapsed>>

\* ... also when the bump raises, and tells what it skipped.
SkipFails ==
    /\ at.step = "skip" /\ Fault
    /\ Lapse("brief")
    /\ Goto("brief")
    /\ UNCHANGED <<now, hostVars, rowVars, cardVars>>

Brief ==
    /\ at.step = "brief"
    /\ untold' = 0
    /\ Goto("report")
    /\ UNCHANGED <<now, hostVars, nextMs, fired, cardVars, faults, lapsed>>

\* Nobody is told.
BriefFails ==
    /\ at.step = "brief" /\ Fault
    /\ Lapse("brief")
    /\ Goto("report")
    /\ UNCHANGED <<now, hostVars, rowVars, cardVars>>

-----------------------------------------------------------------------------
(* tick_morning_summary and tick_capture_digest.                           *)

\* The morning card is for an armed channel.  The lines of both may be none.
Report ==
    /\ at.step = "report"
    /\ \E k \in at.todo :
         at' = [at EXCEPT !.todo = @ \ {k}, !.kind = k,
                          !.step = IF (k = "morning" => armed) /\ CardDue(k, mark[k])
                                   THEN "mark" ELSE "report"]
    /\ UNCHANGED <<now, hostVars, rowVars, cardVars, faults, lapsed>>

\* The watermark cannot be read: no card counts as posted.
ReportBlind ==
    /\ at.step = "report" /\ Fault
    /\ \E k \in at.todo :
         /\ k = "morning" => armed
         /\ CardDue(k, 0)
         /\ at' = [at EXCEPT !.step = "mark", !.todo = @ \ {k}, !.kind = k]
         /\ Lapse(k)
    /\ UNCHANGED <<now, hostVars, rowVars, cardVars>>

\* mark_morning_posted, mark_digest_posted: before the card, and without one.
Mark ==
    /\ at.step = "mark"
    /\ mark' = [mark EXCEPT ![at.kind] = Period(at.kind, at.now) + 1]
    /\ \E lines \in BOOLEAN : Goto(IF lines THEN "post" ELSE "report")
    /\ UNCHANGED <<now, hostVars, rowVars, cards, faults, lapsed>>

\* The mark raises: the card is posted all the same, and again by the next poll.
MarkFails ==
    /\ at.step = "mark" /\ Fault
    /\ Lapse(at.kind)
    /\ \E lines \in BOOLEAN : Goto(IF lines THEN "post" ELSE "report")
    /\ UNCHANGED <<now, hostVars, rowVars, cardVars>>

Post ==
    /\ at.step = "post"
    /\ LET p == Period(at.kind, at.now)
       IN  cards' = [cards EXCEPT ![at.kind] =
                       [period |-> p, count |-> IF @.period = p THEN @.count + 1 ELSE 1]]
    /\ Goto("report")
    /\ UNCHANGED <<now, hostVars, rowVars, mark, faults, lapsed>>

\* No card for this period.
PostFails ==
    /\ at.step = "post" /\ Fault
    /\ Goto("report")
    /\ UNCHANGED <<now, hostVars, rowVars, cardVars, lapsed>>

PollEnds ==
    /\ at.step = "report" /\ at.todo = {}
    /\ at' = Idle
    /\ UNCHANGED <<now, hostVars, rowVars, cardVars, faults, lapsed>>

-----------------------------------------------------------------------------
\* The host dies and starts again.
HostDies ==
    /\ Fault
    /\ CASE at.step = "bump"  -> Lapse("bump")
         [] at.step = "brief" -> Lapse("brief")
         [] OTHER -> UNCHANGED lapsed
    /\ at' = Idle
    /\ UNCHANGED <<now, hostVars, rowVars, cardVars>>

HostStep ==
    \/ Poll \/ Fire \/ Bump \/ Skip \/ Brief
    \/ Report \/ Mark \/ Post \/ PollEnds

Next ==
    \/ HostStep \/ Time \/ TapOnOff \/ TapHalt
    \/ FireFails \/ BumpFails \/ SkipFails \/ BriefFails
    \/ ReportBlind \/ MarkFails \/ PostFails \/ HostDies

Spec == Init /\ [][Next]_vars

\* The listen loop polls.
Fairness == WF_vars(HostStep)

FairSpec == Spec /\ Fairness

-----------------------------------------------------------------------------
(* TypeOK: the clock, the row, the marks and the poll are of their kinds.  *)
TypeOK ==
    /\ now \in 0..MaxTime /\ armed \in BOOLEAN /\ halted \in BOOLEAN /\ allowed \in BOOLEAN
    /\ nextMs \in 0..MaxTime + Every
    /\ fired.last \in 0..now \cup {None} /\ fired.gap \in 0..MaxTime
    /\ \A k \in Kinds : mark[k] \in 0..MaxPeriods + 1
    /\ at.step \in {"idle", "fire", "bump", "skip", "brief", "report", "mark", "post"}
    /\ at.todo \subseteq Kinds /\ at.kind \in Kinds \cup {"none"}
    /\ taps \in 0..MaxTaps /\ faults \in 0..MaxFaults
    /\ lapsed \subseteq {"bump", "brief"} \cup Kinds

(* NoStorm: whatever the clock, On, Off, Halt and restarts do, two jobs of *)
(* one schedule are an interval apart: slots that passed while the channel *)
(* was Off or halted do not become jobs at once ("not a job storm on On",  *)
(* docs/co-work/schedule.md:10).  Excused is a job after which the row     *)
(* could not be moved on.  A day has one morning card and a week one       *)
(* digest, over restarts and cards that fail, unless the watermark of just *)
(* that card could not be read or written.                                 *)
NoStorm ==
    /\ "bump" \in lapsed \/ fired.gap >= Every
    /\ \A k \in Kinds : k \in lapsed \/ cards[k].count <= 1

(* SkipsTold: a slot that was skipped while the channel was Off is in a    *)
(* Catch-up briefing, unless that could not be sent or the host died.      *)
SkipsTold == "brief" \in lapsed \/ at.step = "brief" \/ untold = 0

(* SlotsServed: in the end no schedule of an author who may dispatch is    *)
(* left due on a host that is not halted: it became a job or was skipped.  *)
SlotsServed == ~halted /\ (allowed \/ ~armed) /\ at.step = "report" => nextMs > now
=============================================================================
