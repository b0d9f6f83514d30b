------------------------------- MODULE Lineage -------------------------------
(***************************************************************************)
(* The lineage of the runs (orchestration/lineage.py, fork.py): a row for  *)
(* each step of a run with the rows it follows.  The cook thread of a run  *)
(* and the listen loop write it, the tip of a run is in the memory of the  *)
(* host for the ones and read from the table by the others.                *)
(*                                                                         *)
(* The key of a row is the hash of run, step, body and parents: here rows  *)
(* with the same content are one row, and its number in the table is its   *)
(* key.  Bodies are told apart only for findings.                            *)
(***************************************************************************)
EXTENDS Naturals, Sequences, FiniteSets, SequencesExt

CONSTANTS
    Runs,       \* run ids, numbers: a tie of the clock is broken by the id
    MaxLive,    \* runs that may be live when another is started, but for a fork
    MaxMoves,   \* bound of the model: findings, steers, wakes, links, listings
    MaxFaults,  \* bound of the model: refused writes, crashes
    None        \* no run

Loop == 0       \* the listen loop; the cook thread of a run is its id
Actors == Runs \cup {Loop}

VARIABLES
    log,        \* lineage_nodes, in the order of their rowid
    tips,       \* _lineage_tips: the last row of each run, 0 for none
    run,        \* tasks and runs: phase, kind, thread, created, parents of the intake
    op,         \* the record_node each actor is in
    printed,    \* what discord-os lineage showed last: run, keys, rows of that run
    moves, faults,
    history     \* <<why, r>>: "crossed", "linked", "tie", "moved", "unread"

vars == <<log, tips, run, op, printed, moves, faults, history>>

-----------------------------------------------------------------------------
NoRun == [phase |-> "none", kind |-> None, thread |-> None, created |-> 0,
          from |-> {}, of |-> None, saw |-> 0]
Idle  == [at |-> "idle", run |-> None, step |-> "none", body |-> 0, base |-> {}, main |-> FALSE]

Fault       == faults < MaxFaults /\ faults' = faults + 1
Move        == moves < MaxMoves /\ moves' = moves + 1
Excuse(why) == history' = history \cup why
Begun       == {r \in Runs : run[r].phase # "none"}
Live(r)     == run[r].phase \in {"work", "beat", "settle"}

Init ==
    /\ log = <<>> /\ tips = [r \in Runs |-> 0]
    /\ run = [r \in Runs |-> NoRun]
    /\ op = [a \in Actors |-> Idle]
    /\ printed = [run |-> None, keys |-> <<>>, own |-> 0]
    /\ moves = 0 /\ faults = 0
    /\ history = {}

-----------------------------------------------------------------------------
(* lineage.py: reading the table.                                          *)

\* Mutant of ListNodes: the listing is not in the order of the writing.
ListNodesBack(r) == SelectSeq([i \in 1..Len(log) |-> Len(log) + 1 - i], LAMBDA i : log[i].run = r)

\* list_nodes: the rows of a run by rowid.
ListNodes(r) == SelectSeq([i \in 1..Len(log) |-> i], LAMBDA i : log[i].run = r)

Parents(i) == log[i].parents

\* tip_key: the last row of the run that no other row of it follows.
Tip(r) ==
    LET own   == ListNodes(r)
        ends  == SelectSeq(own, LAMBDA i : \A j \in ToSet(own) : i \notin Parents(j))
    IN  IF own = <<>> THEN 0 ELSE Last(ends)

Known(i) == IF i = 0 THEN {} ELSE {i}

\* The rows a row follows, itself included; the parents of a row are rows before it.
Line(i) ==
    LET up[k \in 0..i] == IF k = 0 THEN {i}
                          ELSE up[k - 1] \cup UNION {Parents(j) : j \in up[k - 1] \cap 1..i}
    IN  up[i]

\* list_stack: the rows of the run, then the rows of other runs that follow its tip.
\* (The code lists the latter breadth first; here by rowid.)
ListStack(r) ==
    LET own == ListNodes(r)
    IN  own \o SelectSeq([i \in 1..Len(log) |-> i],
                         LAMBDA i : log[i].run # r /\ Tip(r) \in Line(i))

\* latest_run_id_for_thread: created is whole seconds, the id breaks a tie.
Later(q, r) == run[q].created > run[r].created \/ (run[q].created = run[r].created /\ q > r)

Latest(t, excluding) ==
    LET in == {r \in Begun \ excluding : run[r].thread = t}
    IN  IF in = {} THEN None ELSE CHOOSE r \in in : \A q \in in \ {r} : Later(r, q)

-----------------------------------------------------------------------------
(* record_node, in two steps: what it follows, then the row.               *)

\* Other writers of the same run between the tip they read and the tip they set.
Crossing(a, r) == \E b \in Actors \ {a} : op[b].run = r /\ op[b].at \in {"insert", "tip"} /\ op[b].main

Mark(a, r) == IF Crossing(a, r) THEN Excuse({<<"crossed", r>>}) ELSE UNCHANGED history

\* _record_lineage: the tip in memory first, then the parents it is given.
RecordOnTip(a, r, step, body, given) ==
    op' = [op EXCEPT ![a] = [at |-> "insert", run |-> r, step |-> step, body |-> body,
                             base |-> Known(tips[r]) \cup given, main |-> TRUE]]

Record(a, r, step, body, given) == RecordOnTip(a, r, step, body, given) /\ Mark(a, r)

\* record_node by itself, with the parents its caller found.
RecordBeside(a, r, step, given) ==
    op' = [op EXCEPT ![a] = [at |-> "insert", run |-> r, step |-> step, body |-> 0,
                             base |-> given, main |-> FALSE]]

Row(o) == [run |-> o.run, step |-> o.step, body |-> o.body, parents |-> o.base, main |-> o.main]

NextPhase(r) ==
    LET p == run[r].phase
    IN  CASE p = "replay" -> "intake" [] p = "intake" -> "dispatch" [] p = "dispatch" -> "work"
          [] p = "beat" -> "settle"   [] p = "settle" -> "over"     [] OTHER -> p

Advance(a) == IF a = Loop THEN run ELSE [run EXCEPT ![a].phase = NextPhase(a)]

\* A write that fails ends a cook, and the beat and the wake swallow it.
Failed(a) == IF a = Loop THEN run
             ELSE IF op[a].main THEN [run EXCEPT ![a].phase = "over"] ELSE Advance(a)

\* upsert_lineage_node: a row with the same content is the same row.
Insert(a) ==
    /\ op[a].at = "insert"
    /\ LET row  == Row(op[a])
           same == {i \in DOMAIN log : log[i] = row}
           key  == IF same = {} THEN Len(log) + 1 ELSE CHOOSE i \in same : TRUE
       IN  /\ log' = IF same = {} THEN Append(log, row) ELSE log
           /\ IF op[a].main
              THEN /\ op' = [op EXCEPT ![a].at = "tip", ![a].base = {key}]
                   /\ UNCHANGED <<run, history>>
              ELSE /\ op' = [op EXCEPT ![a] = Idle]
                   /\ run' = Advance(a)
                   /\ IF op[a].step = "wake" /\ op[a].base # Known(Tip(op[a].run))
                      THEN Excuse({<<"crossed", op[a].run>>}) ELSE UNCHANGED history
    /\ UNCHANGED <<tips, printed, moves, faults>>

\* Mutant of InsertFails: the tip moves before the row is written.
TipBeforeInsert(a) ==
    /\ op[a].at = "insert" /\ Fault
    /\ op' = [op EXCEPT ![a] = Idle]
    /\ run' = Advance(a)
    /\ tips' = [tips EXCEPT ![op[a].run] = Len(log) + 1]
    /\ UNCHANGED <<log, printed, moves, history>>

InsertFails(a) ==
    /\ op[a].at = "insert" /\ Fault
    /\ op' = [op EXCEPT ![a] = Idle]
    /\ run' = Failed(a)
    /\ UNCHANGED <<log, tips, printed, moves, history>>

SetTip(a) ==
    /\ op[a].at = "tip"
    /\ \E k \in op[a].base : tips' = [tips EXCEPT ![op[a].run] = k]
    /\ op' = [op EXCEPT ![a] = Idle]
    /\ run' = Advance(a)
    /\ UNCHANGED <<log, printed, moves, faults, history>>

-----------------------------------------------------------------------------
(* The runs.                                                               *)

Newest == IF Begun = {} THEN 0
          ELSE run[CHOOSE r \in Begun : \A q \in Begun : run[q].created <= run[r].created].created

Threads == {run[r].thread : r \in Begun}

\* An ask: a task and a run; a retry carries the run it replays, in a thread or not.
Start(r) ==
    /\ run[r].phase = "none"
    /\ Cardinality({q \in Begun : run[q].phase # "over"}) < MaxLive
    /\ \E k \in {"ask", "follow", "replay"}, t \in Threads \cup {r}, of \in Begun \cup {None},
          c \in {Newest, Newest + 1} :
         /\ (k = "ask") => t = r
         /\ (k = "follow") => t # r /\ \A q \in Begun : run[q].thread = t => run[q].phase = "over"
         /\ (k = "replay") <=> of # None
         /\ of # None => run[of].phase = "over" /\ t \in {r, run[of].thread}
         /\ run' = [run EXCEPT ![r] = [NoRun EXCEPT !.phase = IF k = "replay" THEN "replay" ELSE "intake",
                                       !.kind = k, !.thread = t, !.created = c, !.of = of]]
         /\ IF \E q \in Begun : run[q].thread = t /\ run[q].created = c
            THEN Excuse({<<"tie", q>> : q \in {r} \cup {p \in Begun : run[p].thread = t}})
            ELSE UNCHANGED history
    /\ UNCHANGED <<log, tips, op, printed, moves, faults>>

\* The parents of the intake: the node of a fork, else the tip of the thread's last run.
SessionParents(r) ==
    IF run[r].kind = "fork" THEN run[r].from
    ELSE IF run[r].kind = "follow" /\ Latest(run[r].thread, {r}) # None
         THEN Known(Tip(Latest(run[r].thread, {r}))) ELSE {}

\* The intake of a retry has the tip of the replay row that was written before it.
CookRecords(r) ==
    /\ op[r].at = "idle"
    /\ CASE run[r].phase = "replay"   -> Record(r, r, "replay", 0, Known(Tip(run[r].of)))
         [] run[r].phase = "intake"   -> Record(r, r, "intake", 0, SessionParents(r))
         [] run[r].phase = "dispatch" -> Record(r, r, "dispatch", 0, {})
         [] run[r].phase = "settle"   -> Record(r, r, "settle", 0, {})
         [] OTHER -> FALSE
    /\ UNCHANGED <<log, tips, run, printed, moves, faults>>

\* The last run of the thread cannot be read: the intake is written without it.
IntakeUnread(r) ==
    /\ op[r].at = "idle" /\ run[r].phase = "intake" /\ run[r].kind = "follow" /\ Fault
    /\ RecordOnTip(r, r, "intake", 0, {})
    /\ Excuse({<<"unread", r>>})
    /\ UNCHANGED <<log, tips, run, printed, moves>>

\* An artifact of the result: a finding or a diff.
CookFinds(r) ==
    /\ op[r].at = "idle" /\ run[r].phase = "work"
    /\ Move
    /\ Record(r, r, "finding", moves', {})
    /\ UNCHANGED <<log, tips, run, printed, faults>>

\* The result is in: a failed run gets the compensation and the recovery beat,
\* rows that follow nothing.
CookEnds(r) ==
    /\ op[r].at = "idle" /\ run[r].phase = "work"
    /\ \E p \in {"beat", "settle"} : run' = [run EXCEPT ![r].phase = p]
    /\ UNCHANGED <<log, tips, op, printed, moves, faults, history>>

CookBeats(r) ==
    /\ op[r].at = "idle" /\ run[r].phase = "beat"
    /\ RecordBeside(r, r, "beat", {})
    /\ UNCHANGED <<log, tips, run, printed, moves, faults, history>>

\* The host is restarted.
Crash ==
    /\ Fault
    /\ tips' = [r \in Runs |-> 0]
    /\ op' = [a \in Actors |-> Idle]
    /\ run' = [r \in Runs |-> IF run[r].phase = "none" THEN run[r] ELSE [run[r] EXCEPT !.phase = "over"]]
    /\ UNCHANGED <<log, printed, moves, history>>

-----------------------------------------------------------------------------
(* The listen loop and the operator.                                       *)

\* steer: the run is live when it is checked, its tip is read after the delivery.
Steer(r) ==
    /\ op[Loop].at = "idle" /\ Live(r) /\ Move
    /\ op' = [op EXCEPT ![Loop] = [Idle EXCEPT !.at = "read", !.run = r]]
    /\ UNCHANGED <<log, tips, run, printed, faults, history>>

SteerRecords ==
    /\ op[Loop].at = "read"
    /\ Record(Loop, op[Loop].run, "steer", 0, {})
    /\ UNCHANGED <<log, tips, run, printed, moves, faults>>

\* A GitHub event wakes the job: its row follows the tip of the table.
Wakes(r) ==
    /\ op[Loop].at = "idle" /\ r \in Begun /\ Move
    /\ RecordBeside(Loop, r, "wake", Known(Tip(r)))
    /\ UNCHANGED <<log, tips, run, printed, faults, history>>

\* link_stacked_pull_request: the base of the child's PR is the head of the parent's.
LinkStacked(r, p) ==
    /\ op[Loop].at = "idle" /\ {r, p} \subseteq Begun /\ r # p /\ Tip(p) # 0 /\ Move
    /\ \A i \in Line(Tip(p)) : log[i].run # r
    /\ RecordBeside(Loop, r, "stack", {Tip(p)})
    /\ Excuse({<<"linked", r>>})
    /\ UNCHANGED <<log, tips, run, printed, faults>>

\* discord-os lineage.
PrintLineage(r) ==
    /\ ListNodes(r) # <<>> /\ Move
    /\ printed' = [run |-> r, keys |-> ListStack(r), own |-> Len(ListNodes(r))]
    /\ UNCHANGED <<log, tips, run, op, faults, history>>

\* _absorb_fork: the token is a number of the listing the operator saw, or a key of it.
Fork(q) ==
    /\ op[Loop].at = "idle" /\ run[q].phase = "none" /\ printed.run # None
    /\ \E n \in DOMAIN printed.keys, byKey \in BOOLEAN :
         LET here  == Latest(run[printed.run].thread, {})
             nodes == ListStack(here)
             node  == IF byKey THEN printed.keys[n] ELSE nodes[n]
         IN  /\ IF byKey THEN node \in ToSet(nodes) ELSE n <= Len(nodes)
             /\ run' = [run EXCEPT ![q] = [NoRun EXCEPT !.phase = "intake", !.kind = "fork",
                                           !.thread = q, !.created = Newest, !.from = {node},
                                           !.of = here, !.saw = printed.keys[n]]]
             /\ IF ~byKey /\ (here # printed.run \/ n > printed.own)
                THEN Excuse({<<"moved", q>>}) ELSE UNCHANGED history
    /\ UNCHANGED <<log, tips, op, printed, moves, faults>>

-----------------------------------------------------------------------------
CookStep(r) ==
    \/ CookRecords(r) \/ CookFinds(r) \/ CookEnds(r) \/ CookBeats(r)
    \/ Insert(r) \/ SetTip(r)

LoopStep == SteerRecords \/ Insert(Loop) \/ SetTip(Loop)

Next ==
    \/ \E r \in Runs : Start(r) \/ CookStep(r) \/ Steer(r) \/ Wakes(r)
                       \/ PrintLineage(r) \/ Fork(r)
    \/ \E r, p \in Runs : LinkStacked(r, p)
    \/ \E a \in Actors : InsertFails(a)
    \/ \E r \in Runs : IntakeUnread(r)
    \/ LoopStep \/ Crash

Spec == Init /\ [][Next]_vars

-----------------------------------------------------------------------------
(* What it promises.                                                       *)

TypeOK ==
    /\ \A r \in Runs : tips[r] \in 0..Len(log) /\ run[r].from \subseteq 1..Len(log)
    /\ \A a \in Actors : op[a].at \in {"idle", "read", "insert", "tip"}
    /\ \A i \in DOMAIN log : log[i].run \in Begun

MainRows(r) == {i \in DOMAIN log : log[i].run = r /\ log[i].main}

\* "Execution lineage DAG": a row follows rows that were written before it, of its own
\* run or of the run it continues, and the steps of one run are one line, each on the
\* one before it, unless a steer and the cook thread crossed, and whatever refused
\* writes, beats and wakes came between.
OneChain ==
    /\ \A i \in DOMAIN log : Parents(i) \subseteq 1..(i - 1)
    /\ \A r \in Runs : <<"crossed", r>> \notin history =>
         \A i, j \in MainRows(r) :
             (i < j /\ \A k \in MainRows(r) : k <= i \/ k >= j) => i \in Parents(j)

\* "anything, idle thread: new run in the same thread, parented at the tip" (fork.md:38):
\* the intake of a follow-up stands on the settle of the last run of its thread, unless
\* that run could not be read.
FollowsSettle ==
    \A r \in Runs : (run[r].kind = "follow" /\ <<"unread", r>> \notin history) =>
        \A q \in Runs, i \in DOMAIN log, s \in DOMAIN log :
            /\ log[i].run = r /\ log[i].step = "intake"
            /\ log[s].run = q /\ log[s].step = "settle" /\ s < i
            /\ run[q].thread = run[r].thread /\ q # r
            /\ \A p \in Runs \ {q, r} : run[p].thread = run[r].thread => run[p].created < run[q].created
            /\ run[q].created < run[r].created
            /\ {<<"crossed", q>>, <<"linked", q>>} \cap history = {}
            => s \in Line(i)

\* "the step numbers discord-os lineage prints" (sqlite.py:2122) still mean the same
\* steps when the fork is asked for, and the new run stands on that step alone.
ForkAsPrinted ==
    \A i \in DOMAIN log :
        (run[log[i].run].kind = "fork" /\ log[i].step = "intake"
            /\ <<"moved", log[i].run>> \notin history)
        => Parents(i) = {run[log[i].run].saw}
=============================================================================
