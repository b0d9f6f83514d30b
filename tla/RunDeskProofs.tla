---------------------------- MODULE RunDeskProofs ----------------------------
(***************************************************************************)
(* Proofs about RunDesk for any number of runs, taps, spend halts and host *)
(* restarts.                                                               *)
(*                                                                         *)
(* AllowedWrites needs the way of an Allow followed from the verb over the *)
(* submitted run to its cook: Sanctioned.  StartOnce needs to know that    *)
(* the awaiting flag of a run rises once, at its parking, and falls with   *)
(* the verdict that goes on to submit: between the two no run was started  *)
(* from it, and afterwards the flag can let nobody through: Spent.         *)
(***************************************************************************)
EXTENDS RunDesk, FiniteSetTheorems, TLAPS

ConstantsOK ==
    /\ MaxRuns \in Nat /\ MaxTaps \in Nat /\ MaxHalts \in Nat /\ MaxCrashes \in Nat
    /\ None \notin Runs

-----------------------------------------------------------------------------
(* The inductive invariant.                                                *)

Verdicts == {"approve", "always", "deny"}
Verbs == Verdicts \cup {"none", "continue", "continue_write", "retry", "dismiss"}
Steps == {"begin", "inside", "look", "take", "row", "submit", "deny", "fail", "paint"}
Acts == [verb : Verbs, run : Runs \cup {None}, step : Steps \cup {"idle"}]

\* A tap on a card is on a run's.
Interactions ==
    {t \in [verb : Verbs \cup {"ask"}, run : Runs \cup {None}, writes : BOOLEAN] :
         t.verb # "ask" => t.run \in Runs}

Queued == [from : Runs \cup {None}, writes : BOOLEAN]

\* A thread at work is at work on a run.
ActsOK ==
    /\ act \in [Actors -> Acts]
    /\ \A a \in Actors : act[a].step = "idle" <=> act[a] = Idle
    /\ \A a \in Actors : act[a].step # "idle" => act[a].run \in Runs

Kinds ==
    /\ ActsOK
    /\ taps \in Seq(Interactions) /\ asks \in Seq(Queued) /\ aim \in Runs \cup {None}
    /\ \A c \in Runs : look[c].shows # "none" => look[c].run \in Runs
    /\ \A r \in Runs : r > made => pc[r] = "none"
    /\ history \in [allowed : SUBSET Runs, raced : SUBSET Runs,
                    lost : SUBSET (Runs \cup {None}), denied : SUBSET Runs]

\* Thread a is in its own verdict on run p, has read no further than its tap.
In(a, p) == act[a].run = p /\ act[a].verb \in Verdicts /\ act[a].step \notin {"idle", "begin"}

\* Thread a allows run p and is at one of these steps.
Allows(a, p, steps) ==
    act[a].run = p /\ act[a].verb \in {"approve", "always"} /\ act[a].step \in steps

\* An Allow is on record before anything is done with it.
OnRecord ==
    \A a \in Actors, p \in Runs :
        Allows(a, p, {"look", "take", "row", "submit"}) => p \in history.allowed

\* A run that was submitted as allowed carries the Allow, and no other writes.
Sanctioned ==
    /\ \A r \in Runs : pc[r] # "none" /\ intake[r].approved => intake[r].from \in history.allowed
    /\ \A r \in Runs : pc[r] \in {"cook", "settle"} /\ intake[r].writes /\ gate
                         => grant \/ intake[r].approved

\* A flag rises at the parking of its run only.
Parked == \A p \in Runs : awaiting[p] => pc[p] \in {"park2", "park3", "gone"}

\* The flag of p has risen and fallen.
Spent(p) == ~awaiting[p] /\ pc[p] \in {"park2", "park3", "gone"}

\* One verdict on p after the other: the flag lets one of them through, and only
\* that one submits.
OneByOne(p) ==
    /\ \A a \in Actors, b \in Actors : In(a, p) /\ In(b, p) => a = b
    /\ \A a \in Actors : Allows(a, p, {"take"}) => awaiting[p]
    /\ \A a \in Actors : Allows(a, p, {"row", "submit"}) => Spent(p) /\ StartedFrom(p) = {}
    /\ StartedFrom(p) # {} => Spent(p)
    /\ \A q \in StartedFrom(p), r \in StartedFrom(p) : q = r

Once == \A p \in Runs \ history.raced : OneByOne(p)

DeskInv == TypeOK /\ Kinds /\ OnRecord /\ Sanctioned /\ Parked /\ Once
-----------------------------------------------------------------------------
(* What the threads and the runs become.                                   *)

\* Thread a is now at step s of verb v on run r.
Turns(a, v, r, s) == act' = [act EXCEPT ![a] = [verb |-> v, run |-> r, step |-> s]]

(* TurnKind: a thread that begins or goes on is at work on a run.            *)
LEMMA TurnKind ==
    ASSUME ActsOK, NEW a \in Actors, NEW v \in Verbs, NEW r \in Runs, NEW s \in Steps,
           Turns(a, v, r, s)
    PROVE  /\ ActsOK'
           /\ act'[a].verb = v /\ act'[a].run = r /\ act'[a].step = s
           /\ \A b \in Actors \ {a} : act'[b] = act[b]
<1>1. [verb |-> v, run |-> r, step |-> s] \in Acts
  BY DEF Acts
<1>2. /\ act' \in [Actors -> Acts] /\ act'[a] = [verb |-> v, run |-> r, step |-> s]
      /\ \A b \in Actors \ {a} : act'[b] = act[b]
  BY <1>1 DEF ActsOK, Turns
<1>3. s # "idle"
  BY DEF Steps
<1>4. act'[a].step = s /\ act'[a].run = r /\ act'[a].verb = v /\ act'[a] # Idle
  BY <1>2, <1>3 DEF Idle
<1>5. QED
  BY <1>2, <1>3, <1>4 DEF ActsOK

(* StepKind: Step changes the step alone.                                    *)
LEMMA StepKind ==
    ASSUME ActsOK, NEW a \in Actors, act[a].step # "idle", NEW s \in Steps, Step(a, s)
    PROVE  /\ ActsOK'
           /\ act'[a].verb = act[a].verb /\ act'[a].run = act[a].run /\ act'[a].step = s
           /\ \A b \in Actors \ {a} : act'[b] = act[b]
<1>1. act[a] \in Acts /\ act[a].run \in Runs /\ act[a].verb \in Verbs
  BY DEF ActsOK, Acts
<1>2. [act[a] EXCEPT !.step = s] = [verb |-> act[a].verb, run |-> act[a].run, step |-> s]
  BY <1>1 DEF Acts
<1>3. Turns(a, act[a].verb, act[a].run, s)
  BY <1>1, <1>2 DEF Step, Turns, ActsOK
<1>4. QED
  BY <1>1, <1>3, TurnKind

(* DoneKind: Done leaves the thread idle.                                    *)
LEMMA DoneKind ==
    ASSUME ActsOK, NEW a \in Actors, Done(a)
    PROVE  /\ ActsOK'
           /\ act'[a] = Idle /\ act'[a].step = "idle"
           /\ \A b \in Actors \ {a} : act'[b] = act[b]
<1>1. Idle \in Acts /\ Idle.step = "idle"
  BY DEF Idle, Acts, Verbs
<1>2. /\ act' \in [Actors -> Acts] /\ act'[a] = Idle
      /\ \A b \in Actors \ {a} : act'[b] = act[b]
  BY <1>1 DEF Done, ActsOK
<1>3. QED
  BY <1>1, <1>2 DEF ActsOK

Intakes == [writes : BOOLEAN, approved : BOOLEAN, from : Runs \cup {None}, pooled : BOOLEAN]

(* MadeKind: a run that is made is the next one, and was none before.        *)
LEMMA MadeKind ==
    ASSUME ConstantsOK, TypeOK, Kinds, NEW in \in Intakes, Make(in, "pool")
    PROVE  /\ made + 1 \in Runs /\ pc[made + 1] = "none"
           /\ made' = made + 1 /\ made' \in 0..MaxRuns
           /\ intake' \in [Runs -> Intakes] /\ intake'[made + 1] = in
           /\ pc' \in [Runs -> {"none", "pool", "begun", "park1", "park2", "park3", "cook",
                                 "settle", "gone"}]
           /\ pc'[made + 1] = "pool"
           /\ \A r \in Runs \ {made + 1} : pc'[r] = pc[r] /\ intake'[r] = intake[r]
           /\ \A r \in Runs : r > made' => pc'[r] = "none"
<1>1. made + 1 \in Runs /\ made' = made + 1 /\ made' \in 0..MaxRuns
  BY DEF ConstantsOK, TypeOK, Make, Runs
<1>2. pc[made + 1] = "none"
  BY <1>1 DEF Kinds, TypeOK
<1>3. intake' = [intake EXCEPT ![made + 1] = in] /\ pc' = [pc EXCEPT ![made + 1] = "pool"]
  BY DEF Make
<1>4. \A r \in Runs : r > made' => r > made /\ r # made + 1
  BY <1>1 DEF Runs, TypeOK
<1>5. QED
  BY <1>1, <1>2, <1>3, <1>4 DEF TypeOK, Kinds, Intakes

\* Thread b comes no further in a verdict.
Elsewhere(b) ==
    act'[b] = act[b] \/ act'[b].step \in {"idle", "begin"} \/ act'[b].verb = "continue"

(* TapElsewhere: taking a tap brings no thread further in a verdict.         *)
LEMMA TapElsewhere ==
    ASSUME ActsOK, TakeTap
    PROVE  \A b \in Actors : Elsewhere(b)
<1>1. act' = act \/ \E v, r : Turns("gw", v, r, "begin")
  BY DEF TakeTap, Turns
<1>2. QED
  BY <1>1 DEF Turns, Elsewhere, ActsOK

(* ContinueElsewhere: neither does a Continue.                               *)
LEMMA ContinueElsewhere ==
    ASSUME ActsOK, Continue
    PROVE  \A b \in Actors : Elsewhere(b)
<1>1. Done("gw") \/ \E r : Turns("gw", "continue", r, "inside")
  BY DEF Continue, Turns
<1>2. QED
  BY <1>1 DEF Turns, Done, Idle, Elsewhere, ActsOK

(* DoneElsewhere: nor does being done.                                       *)
LEMMA DoneElsewhere ==
    ASSUME ActsOK, NEW a \in Actors, Done(a)
    PROVE  \A b \in Actors : Elsewhere(b)
  BY DoneKind DEF Elsewhere

(* KeepRecord: a step that brings no thread further in a verdict.            *)
LEMMA KeepRecord ==
    ASSUME OnRecord, \A b \in Actors : Elsewhere(b), history.allowed \subseteq history'.allowed
    PROVE  OnRecord'
  BY DEF OnRecord, Elsewhere, Allows

(* MoveRecord: a thread that goes on with a verdict that is on record.       *)
LEMMA MoveRecord ==
    ASSUME OnRecord, ActsOK, NEW a \in Actors, NEW s \in Steps, Step(a, s),
           act[a].step \in {"look", "take", "row", "deny", "fail"},
           act[a].verb = "deny" \/ act[a].step \in {"look", "take", "row"},
           history.allowed \subseteq history'.allowed
    PROVE  OnRecord'
<1>1. /\ act'[a].verb = act[a].verb /\ act'[a].run = act[a].run
      /\ \A b \in Actors \ {a} : act'[b] = act[b]
  BY StepKind
<1>2. QED
  BY <1>1 DEF OnRecord, Allows

(* TypedMakes: a typed ask makes a run without an Allow.                     *)
LEMMA TypedMakes == ASSUME TypedAsk PROVE \E in \in Intakes : Make(in, "pool") /\ ~in.approved
<1>1. \A w \in BOOLEAN :
         /\ [NoIntake EXCEPT !.writes = w, !.pooled = TRUE] \in Intakes
         /\ ~[NoIntake EXCEPT !.writes = w, !.pooled = TRUE].approved
  BY DEF NoIntake, Intakes
<1>2. QED
  BY <1>1 DEF TypedAsk

(* ContinueMakes: so does a Continue.                                        *)
LEMMA ContinueMakes ==
    ASSUME ActsOK, Continue, row[act["gw"].run] \notin Busy
    PROVE  \E in \in Intakes : Make(in, "pool") /\ ~in.approved
<1>1. act["gw"].run \in Runs
  BY DEF ActsOK, Continue, At, Actors
<1>2. \A w \in BOOLEAN, r \in Runs :
         /\ [NoIntake EXCEPT !.writes = w, !.from = r] \in Intakes
         /\ ~[NoIntake EXCEPT !.writes = w, !.from = r].approved
  BY DEF NoIntake, Intakes
<1>3. QED
  BY <1>1, <1>2 DEF Continue

(* DrainMakes: and an ask the buttons queued.                                *)
LEMMA DrainMakes ==
    ASSUME Kinds, DrainAsk, ~halted
    PROVE  \E in \in Intakes : Make(in, "pool") /\ ~in.approved
<1>1. Head(asks) \in Queued
  BY DEF Kinds, DrainAsk
<1>2. [writes |-> Head(asks).writes, approved |-> FALSE, from |-> Head(asks).from,
       pooled |-> TRUE] \in Intakes
  BY <1>1 DEF Queued, Intakes
<1>3. QED
  BY <1>2 DEF DrainAsk

(* SubmitMakes: an Allow makes a run that carries the run it was given for.  *)
LEMMA SubmitMakes ==
    ASSUME ActsOK, NEW a \in Actors, SubmitApproved(a)
    PROVE  \E in \in Intakes :
             Make(in, "pool") /\ in.approved /\ in.from = act[a].run /\ in.from \in Runs
<1>1. act[a].run \in Runs
  BY DEF ActsOK, SubmitApproved, At
<1>2. [writes |-> TRUE, approved |-> TRUE, from |-> act[a].run, pooled |-> TRUE] \in Intakes
  BY <1>1 DEF Intakes
<1>3. Make([writes |-> TRUE, approved |-> TRUE, from |-> act[a].run, pooled |-> TRUE], "pool")
  BY DEF SubmitApproved
<1>4. QED
  BY <1>1, <1>2, <1>3

Histories == [allowed : SUBSET Runs, raced : SUBSET Runs, lost : SUBSET (Runs \cup {None}),
              denied : SUBSET Runs]

(* BeginHistory: an Allow is put on record when it begins.                   *)
LEMMA BeginHistory ==
    ASSUME Kinds, NEW a \in Actors, Begin(a)
    PROVE  /\ act[a].run \in Runs /\ history' \in Histories
           /\ history'.allowed = IF act[a].verb = "deny" THEN history.allowed
                                 ELSE history.allowed \cup {act[a].run}
           /\ history'.raced = IF Meets(a, act[a].run) THEN history.raced \cup {act[a].run}
                               ELSE history.raced
<1>1. act[a].run \in Runs
  BY DEF Kinds, ActsOK, Begin, At
<1> DEFINE A == IF act[a].verb = "deny" THEN history.allowed
                ELSE history.allowed \cup {act[a].run}
           R == IF Meets(a, act[a].run) THEN history.raced \cup {act[a].run} ELSE history.raced
           L == IF pc[act[a].run] = "gone" THEN history.lost
                ELSE history.lost \cup {act[a].run}
<1>2. history' = [history EXCEPT !.raced = R, !.allowed = A, !.lost = L]
  BY DEF Begin
<1>3. A \in SUBSET Runs /\ R \in SUBSET Runs /\ L \in SUBSET (Runs \cup {None})
  BY <1>1 DEF Kinds
<1> HIDE DEF A, R, L
<1>4. history' \in Histories /\ history'.allowed = A /\ history'.raced = R
  BY <1>2, <1>3 DEF Kinds, Histories
<1>5. QED
  BY <1>1, <1>4 DEF A, R

(* MadeSanctioned: a new run is not at work, and carries the Allow it was    *)
(* made for.                                                                 *)
LEMMA MadeSanctioned ==
    ASSUME ConstantsOK, TypeOK, Kinds, Sanctioned, NEW in \in Intakes, Make(in, "pool"),
           in.approved => in.from \in history.allowed, UNCHANGED <<grant, history, gate>>
    PROVE  Sanctioned'
<1>1. /\ pc'[made + 1] = "pool" /\ intake'[made + 1] = in
      /\ \A r \in Runs \ {made + 1} : pc'[r] = pc[r] /\ intake'[r] = intake[r]
  BY MadeKind
<1>2. QED
  BY <1>1 DEF Sanctioned

\* What a step must leave alone to leave OneByOne to the threads.
Frozen ==
    /\ history.raced \subseteq history'.raced
    /\ \A p \in Runs : Spent(p) => Spent(p)'
    /\ \A p \in Runs : StartedFrom(p)' = StartedFrom(p)

(* KeepOnce: a step that brings no thread further in a verdict.              *)
LEMMA KeepOnce ==
    ASSUME Once, Frozen, \A b \in Actors : Elsewhere(b),
           \A p \in Runs : awaiting[p] => awaiting'[p]
    PROVE  Once'
<1> SUFFICES ASSUME NEW p \in Runs \ history'.raced PROVE OneByOne(p)'
  BY DEF Once
<1>1. OneByOne(p)
  BY DEF Once, Frozen
<1>2. \A b \in Actors : In(b, p)' => In(b, p)
  BY DEF In, Elsewhere, Verdicts
<1>3. \A b \in Actors : /\ Allows(b, p, {"take"})' => Allows(b, p, {"take"})
                        /\ Allows(b, p, {"row", "submit"})' => Allows(b, p, {"row", "submit"})
  BY DEF Allows, Elsewhere
<1>4. (Spent(p) => Spent(p)') /\ StartedFrom(p)' = StartedFrom(p)
  BY DEF Frozen
<1>5. awaiting[p] => awaiting'[p]
  OBVIOUS
<1>6. \A a \in Actors, b \in Actors : In(a, p)' /\ In(b, p)' => a = b
  BY <1>1, <1>2 DEF OneByOne
<1>7. \A a \in Actors : Allows(a, p, {"take"})' => awaiting'[p]
  BY <1>1, <1>3, <1>5 DEF OneByOne, Allows
<1>8. \A a \in Actors :
         Allows(a, p, {"row", "submit"})' => Spent(p)' /\ StartedFrom(p)' = {}
  BY <1>1, <1>3, <1>4 DEF OneByOne, Allows
<1>9. /\ StartedFrom(p)' # {} => Spent(p)'
      /\ \A q \in StartedFrom(p)', r \in StartedFrom(p)' : q = r
  BY <1>1, <1>4 DEF OneByOne
<1>10. QED
  BY <1>6, <1>7, <1>8, <1>9 DEF OneByOne

(* MoveOnce: a thread that goes on in its verdict; what it comes to hold of  *)
(* its run is given.                                                         *)
LEMMA MoveOnce ==
    ASSUME Once, ActsOK, Frozen, NEW a \in Actors, NEW s \in Steps, Step(a, s),
           act[a].step \notin {"idle", "begin"}, act[a].verb \in Verdicts,
           \A p \in Runs \ {act[a].run} : awaiting'[p] = awaiting[p],
           \A p \in Runs \ history.raced :
               p = act[a].run /\ act[a].verb # "deny" =>
                   /\ s = "take" => awaiting'[p]
                   /\ s \in {"row", "submit"} => Spent(p)' /\ StartedFrom(p) = {}
    PROVE  Once'
<1> SUFFICES ASSUME NEW p \in Runs \ history'.raced PROVE OneByOne(p)'
  BY DEF Once
<1>1. OneByOne(p) /\ p \notin history.raced
  BY DEF Once, Frozen
<1>2. /\ act'[a].verb = act[a].verb /\ act'[a].run = act[a].run /\ act'[a].step = s
      /\ \A b \in Actors \ {a} : act'[b] = act[b]
  BY StepKind
<1>3. \A b \in Actors : In(b, p)' => In(b, p)
  BY <1>2 DEF In
<1>4. (Spent(p) => Spent(p)') /\ StartedFrom(p)' = StartedFrom(p)
  BY DEF Frozen
<1>5. CASE act[a].run = p
  <2>1. \A b \in Actors \ {a} : ~In(b, p)
    BY <1>1, <1>5 DEF OneByOne, In
  <2>2. \A b \in Actors \ {a} : ~Allows(b, p, {"take"})' /\ ~Allows(b, p, {"row", "submit"})'
    BY <1>2, <2>1 DEF In, Allows, Verdicts
  <2>3. Allows(a, p, {"take"})' => awaiting'[p]
    BY <1>1, <1>2, <1>5 DEF Allows
  <2>4. Allows(a, p, {"row", "submit"})' => Spent(p)' /\ StartedFrom(p) = {}
    BY <1>1, <1>2, <1>5 DEF Allows
  <2>5. QED
    BY <1>1, <1>3, <1>4, <2>2, <2>3, <2>4 DEF OneByOne
<1>6. CASE act[a].run # p
  <2>1. \A b \in Actors : /\ Allows(b, p, {"take"})' => Allows(b, p, {"take"})
                          /\ Allows(b, p, {"row", "submit"})' => Allows(b, p, {"row", "submit"})
    BY <1>2, <1>6 DEF Allows
  <2>2. awaiting[p] => awaiting'[p]
    <3>1. awaiting'[p] = awaiting[p]
      BY <1>6
    <3>2. QED
      BY <3>1, Zenon
  <2>3. \A b \in Actors, c \in Actors : In(b, p)' /\ In(c, p)' => b = c
    BY <1>1, <1>3 DEF OneByOne
  <2>4. \A b \in Actors : Allows(b, p, {"take"})' => awaiting'[p]
    BY <1>1, <2>1, <2>2 DEF OneByOne, Allows
  <2>5. \A b \in Actors :
           Allows(b, p, {"row", "submit"})' => Spent(p)' /\ StartedFrom(p)' = {}
    BY <1>1, <1>4, <2>1 DEF OneByOne, Allows
  <2>6. /\ StartedFrom(p)' # {} => Spent(p)'
        /\ \A q \in StartedFrom(p)', r \in StartedFrom(p)' : q = r
    BY <1>1, <1>4 DEF OneByOne
  <2>7. QED
    BY <2>3, <2>4, <2>5, <2>6 DEF OneByOne
<1>7. QED
  BY <1>5, <1>6

\* Where the flag of a run has been raised.
Flagged == {"park2", "park3", "gone"}

(* StillFrozen: a step that makes no run and raises no flag a second time.   *)
LEMMA StillFrozen ==
    ASSUME history.raced \subseteq history'.raced, UNCHANGED intake,
           \A r \in Runs : pc'[r] = "none" <=> pc[r] = "none",
           \A r \in Runs : pc[r] \in Flagged => pc'[r] \in Flagged,
           \A r \in Runs : pc[r] \in Flagged /\ awaiting'[r] => awaiting[r]
    PROVE  Frozen
<1>1. \A p \in Runs : Spent(p) => Spent(p)'
  BY DEF Spent, Flagged
<1>2. \A p \in Runs : StartedFrom(p)' = StartedFrom(p)
  BY DEF StartedFrom
<1>3. QED
  BY <1>1, <1>2 DEF Frozen

(* MadeFrozen: a step that makes a run without an Allow.                     *)
LEMMA MadeFrozen ==
    ASSUME ConstantsOK, TypeOK, Kinds, NEW in \in Intakes, Make(in, "pool"), ~in.approved,
           UNCHANGED <<awaiting, history>>
    PROVE  Frozen
<1>1. /\ pc[made + 1] = "none" /\ pc'[made + 1] = "pool" /\ intake'[made + 1] = in
      /\ \A r \in Runs \ {made + 1} : pc'[r] = pc[r] /\ intake'[r] = intake[r]
  BY MadeKind
<1>2. \A p \in Runs : Spent(p) => Spent(p)'
  BY <1>1 DEF Spent
<1>3. \A p \in Runs : StartedFrom(p)' = StartedFrom(p)
  BY <1>1 DEF StartedFrom
<1>4. QED
  BY <1>2, <1>3 DEF Frozen

(* ActsStep: a thread at work is at work on a run, after every step.         *)
LEMMA ActsStep == ASSUME ConstantsOK, DeskInv, [Next]_vars PROVE ActsOK'
<1> USE DEF DeskInv, Kinds, ActsOK, runVars, phoneVars, queueVars, hostVars, vars
<1>1. CASE TapButton
  BY <1>1 DEF TapButton
<1>2. CASE TapAsk
  BY <1>2 DEF TapAsk
<1>3. CASE TypedAsk
  BY <1>3 DEF TypedAsk, Make
<1>4. CASE Spoken
  <2>1. PICK r \in Runs, verb \in Verdicts : Turns("loop", verb, r, "begin")
    BY <1>4 DEF Spoken, Turns, Verdicts
  <2>2. QED
    BY <2>1, TurnKind DEF Verbs, Steps, Actors
<1>5. CASE SetHalt
  BY <1>5 DEF SetHalt
<1>6. CASE TakeTap
  <2> DEFINE tap == Head(taps)
  <2>1. tap \in Interactions
    BY <1>6 DEF TakeTap
  <2>2. CASE tap.verb = "ask" /\ aim = None
    BY <1>6, <2>2 DEF TakeTap, ActsOK
  <2>3. CASE tap.verb = "ask" /\ aim # None
    <3>1. PICK v \in {"continue", "continue_write"} : Turns("gw", v, aim, "begin")
      BY <1>6, <2>3 DEF TakeTap, Turns
    <3>2. aim \in Runs
      BY <2>3
    <3>3. QED
      BY <3>1, <3>2, TurnKind DEF Verbs, Steps, Actors
  <2>4. CASE tap.verb # "ask"
    <3>1. tap.verb \in Verbs /\ tap.run \in Runs
      BY <2>1, <2>4 DEF Interactions
    <3>2. Turns("gw", tap.verb, tap.run, "begin")
      BY <1>6, <2>4 DEF TakeTap, Turns
    <3>3. QED
      BY <3>1, <3>2, TurnKind DEF Steps, Actors
  <2>5. QED
    BY <2>2, <2>3, <2>4
<1>7. CASE Continue
  <2>1. CASE row[act["gw"].run] \in Busy
    BY <1>7, <2>1, DoneKind DEF Continue, Actors
  <2>2. CASE row[act["gw"].run] \notin Busy
    <3>1. PICK in \in Intakes : Make(in, "pool")
      BY <1>7, <2>2, ContinueMakes
    <3>2. Turns("gw", "continue", made + 1, "inside") /\ made + 1 \in Runs
      BY <1>7, <2>2, <3>1, MadeKind DEF Continue, Turns
    <3>3. QED
      BY <3>2, TurnKind DEF Verbs, Steps, Actors
  <2>3. QED
    BY <2>1, <2>2
<1>8. CASE ContinueReturns
  <2>1. Done("gw")
    BY <1>8 DEF ContinueReturns
  <2>2. QED
    BY <2>1, DoneKind DEF Actors
<1>9. CASE RetryTap
  <2>1. Done("gw")
    BY <1>9 DEF RetryTap
  <2>2. QED
    BY <2>1, DoneKind DEF Actors
<1>10. CASE Dismiss
  <2>1. Done("gw")
    BY <1>10 DEF Dismiss
  <2>2. QED
    BY <2>1, DoneKind DEF Actors
<1>11. CASE DrainAsk
  BY <1>11 DEF DrainAsk, Make
<1>12. CASE TickList
  BY <1>12 DEF TickList
<1>13. CASE TickExpire
  <2>1. PICK r \in todo : Turns("loop", "deny", r, "begin")
    BY <1>13 DEF TickExpire, Turns
  <2>2. r \in Runs
    BY <2>1 DEF TypeOK
  <2>3. QED
    BY <2>1, <2>2, TurnKind DEF Verbs, Verdicts, Steps, Actors
<1>14. CASE Age
  BY <1>14 DEF Age
<1>15. CASE HostRestart
  <2>1. act' = [a \in Actors |-> Idle] /\ Idle \in Acts /\ Idle.step = "idle"
    BY <1>15 DEF HostRestart, Idle, Acts, Verbs
  <2>2. QED
    BY <2>1 DEF ActsOK
<1>16. ASSUME NEW a \in Actors, Begin(a) PROVE ActsOK'
  <2>1. act[a].step # "idle" /\ \E s \in Steps : Step(a, s)
    BY <1>16 DEF Begin, At, Steps
  <2>2. QED
    BY <2>1, StepKind
<1>17. ASSUME NEW a \in Actors, Look(a) PROVE ActsOK'
  <2>1. act[a].step # "idle" /\ (Done(a) \/ Step(a, "take"))
    BY <1>17 DEF Look, At
  <2>2. QED
    BY <2>1, StepKind, DoneKind DEF Steps
<1>18. ASSUME NEW a \in Actors, Take(a) PROVE ActsOK'
  <2>1. act[a].step # "idle" /\ \E s \in Steps : Step(a, s)
    BY <1>18 DEF Take, At, Steps
  <2>2. QED
    BY <2>1, StepKind
<1>19. ASSUME NEW a \in Actors, CloseParked(a) PROVE ActsOK'
  <2>1. act[a].step # "idle" /\ \E s \in Steps : Step(a, s)
    BY <1>19 DEF CloseParked, At, Steps
  <2>2. QED
    BY <2>1, StepKind
<1>20. ASSUME NEW a \in Actors, SubmitApproved(a) PROVE ActsOK'
  <2>1. Done(a)
    BY <1>20 DEF SubmitApproved
  <2>2. QED
    BY <2>1, DoneKind DEF Actors
<1>21. ASSUME NEW a \in Actors, DenyTake(a) PROVE ActsOK'
  <2>1. act[a].step # "idle" /\ \E s \in Steps : Step(a, s)
    BY <1>21 DEF DenyTake, At, Steps
  <2>2. QED
    BY <2>1, StepKind
<1>22. ASSUME NEW a \in Actors, DenyFail(a) PROVE ActsOK'
  <2>1. act[a].step # "idle" /\ \E s \in Steps : Step(a, s)
    BY <1>22 DEF DenyFail, At, Steps
  <2>2. QED
    BY <2>1, StepKind
<1>23. ASSUME NEW a \in Actors, DenyPaint(a) PROVE ActsOK'
  <2>1. Done(a)
    BY <1>23 DEF DenyPaint
  <2>2. QED
    BY <2>1, DoneKind DEF Actors
<1>24. ASSUME NEW r \in Runs, BeginHalted(r) PROVE ActsOK'
  BY <1>24 DEF BeginHalted
<1>25. ASSUME NEW r \in Runs, BeginRun(r) PROVE ActsOK'
  BY <1>25 DEF BeginRun, Show
<1>26. ASSUME NEW r \in Runs, ParkOrCook(r) PROVE ActsOK'
  BY <1>26 DEF ParkOrCook
<1>27. ASSUME NEW r \in Runs, Park1(r) PROVE ActsOK'
  BY <1>27 DEF Park1
<1>28. ASSUME NEW r \in Runs, Park2(r) PROVE ActsOK'
  BY <1>28 DEF Park2
<1>29. ASSUME NEW r \in Runs, Park3(r) PROVE ActsOK'
  BY <1>29 DEF Park3, Show, Leave
<1>30. ASSUME NEW r \in Runs, CookEnds(r) PROVE ActsOK'
  BY <1>30 DEF CookEnds
<1>31. ASSUME NEW r \in Runs, SettleCard(r) PROVE ActsOK'
  BY <1>31 DEF SettleCard, Show, Leave
<1>32. CASE UNCHANGED vars
  BY <1>32 DEF vars
<1>33. QED
  BY <1>1, <1>2, <1>3, <1>4, <1>5, <1>6, <1>7, <1>8, <1>9, <1>10, <1>11, <1>12, <1>13,
     <1>14, <1>15, <1>16, <1>17, <1>18, <1>19, <1>20, <1>21, <1>22, <1>23, <1>24, <1>25,
     <1>26, <1>27, <1>28, <1>29, <1>30, <1>31, <1>32 DEF Next, GatewayStep, Verdict,
     RunStep, Actors

(* TypeStep: every step keeps every variable to its kind.                    *)
LEMMA TypeStep == ASSUME ConstantsOK, DeskInv, [Next]_vars PROVE TypeOK'
<1> USE DEF ConstantsOK, DeskInv, TypeOK, Kinds, Busy, Free, runVars, phoneVars, queueVars,
            hostVars, vars
<1>0. \A a \in Actors : act'[a].step = "idle" <=> act'[a] = Idle
  BY ActsStep DEF ActsOK
<1>1. CASE TapButton
  BY <1>1, <1>0 DEF TapButton
<1>2. CASE TapAsk
  BY <1>2, <1>0 DEF TapAsk
<1>3. CASE TypedAsk
  <2>1. PICK in \in Intakes : Make(in, "pool")
    BY <1>3, TypedMakes
  <2>2. QED
    BY <1>3, <2>1, <1>0, MadeKind DEF TypedAsk, Intakes
<1>4. CASE Spoken
  BY <1>4, <1>0 DEF Spoken
<1>5. CASE SetHalt
  BY <1>5, <1>0 DEF SetHalt
<1>6. CASE TakeTap
  BY <1>6, <1>0 DEF TakeTap
<1>7. CASE Continue
  <2>1. CASE row[act["gw"].run] \in Busy
    BY <1>7, <2>1, <1>0 DEF Continue
  <2>2. CASE row[act["gw"].run] \notin Busy
    <3>1. PICK in \in Intakes : Make(in, "pool")
      BY <1>7, <2>2, ContinueMakes
    <3>2. QED
      BY <1>7, <2>2, <3>1, <1>0, MadeKind DEF Continue, Intakes
  <2>3. QED
    BY <2>1, <2>2
<1>8. CASE ContinueReturns
  BY <1>8, <1>0 DEF ContinueReturns, At
<1>9. CASE RetryTap
  BY <1>9, <1>0 DEF RetryTap, At
<1>10. CASE Dismiss
  <2>1. act["gw"].run \in Runs
    BY <1>10 DEF Dismiss, At, ActsOK, Actors
  <2>2. row' \in [Runs -> Busy \cup {"none", "completed", "failed", "cancelled"}]
    BY <1>10 DEF Dismiss
  <2>3. CASE row[act["gw"].run] = "failed"
    BY <1>10, <2>1, <2>2, <2>3, <1>0 DEF Dismiss, Show
  <2>4. CASE row[act["gw"].run] # "failed"
    BY <1>10, <2>2, <2>4, <1>0 DEF Dismiss
  <2>5. QED
    BY <2>3, <2>4
<1>11. CASE DrainAsk
  <2>1. CASE halted
    BY <1>11, <2>1, <1>0 DEF DrainAsk
  <2>2. CASE ~halted
    <3>1. PICK in \in Intakes : Make(in, "pool")
      BY <1>11, <2>2, DrainMakes
    <3>2. QED
      BY <1>11, <2>2, <3>1, <1>0, MadeKind DEF DrainAsk, Intakes
  <2>3. QED
    BY <2>1, <2>2
<1>12. CASE TickList
  BY <1>12, <1>0 DEF TickList
<1>13. CASE TickExpire
  BY <1>13, <1>0 DEF TickExpire
<1>14. CASE Age
  BY <1>14, <1>0 DEF Age
<1>15. CASE HostRestart
  BY <1>15, <1>0 DEF HostRestart
<1>16. ASSUME NEW a \in Actors, Begin(a) PROVE TypeOK'
  BY <1>16, <1>0 DEF Begin, At
<1>17. ASSUME NEW a \in Actors, Look(a) PROVE TypeOK'
  BY <1>17, <1>0 DEF Look, At
<1>18. ASSUME NEW a \in Actors, Take(a) PROVE TypeOK'
  BY <1>18, <1>0 DEF Take, At
<1>19. ASSUME NEW a \in Actors, CloseParked(a) PROVE TypeOK'
  BY <1>19, <1>0 DEF CloseParked, At
<1>20. ASSUME NEW a \in Actors, SubmitApproved(a) PROVE TypeOK'
  <2>1. PICK in \in Intakes : Make(in, "pool")
    BY <1>20, SubmitMakes
  <2>2. QED
    BY <1>20, <2>1, <1>0, MadeKind DEF SubmitApproved, Intakes
<1>21. ASSUME NEW a \in Actors, DenyTake(a) PROVE TypeOK'
  BY <1>21, <1>0 DEF DenyTake, At
<1>22. ASSUME NEW a \in Actors, DenyFail(a) PROVE TypeOK'
  BY <1>22, <1>0 DEF DenyFail, At
<1>23. ASSUME NEW a \in Actors, DenyPaint(a) PROVE TypeOK'
  <2>1. act[a].run \in Runs
    BY <1>23 DEF DenyPaint, At, ActsOK, Actors
  <2>2. QED
    BY <1>23, <2>1, <1>0 DEF DenyPaint, Show
<1>24. ASSUME NEW r \in Runs, BeginHalted(r) PROVE TypeOK'
  BY <1>24, <1>0 DEF BeginHalted
<1>25. ASSUME NEW r \in Runs, BeginRun(r) PROVE TypeOK'
  BY <1>25, <1>0 DEF BeginRun, Show
<1>26. ASSUME NEW r \in Runs, ParkOrCook(r) PROVE TypeOK'
  BY <1>26, <1>0 DEF ParkOrCook
<1>27. ASSUME NEW r \in Runs, Park1(r) PROVE TypeOK'
  BY <1>27, <1>0 DEF Park1
<1>28. ASSUME NEW r \in Runs, Park2(r) PROVE TypeOK'
  BY <1>28, <1>0 DEF Park2
<1>29. ASSUME NEW r \in Runs, Park3(r) PROVE TypeOK'
  BY <1>29, <1>0 DEF Park3, Show, Leave
<1>30. ASSUME NEW r \in Runs, CookEnds(r) PROVE TypeOK'
  BY <1>30, <1>0 DEF CookEnds
<1>31. ASSUME NEW r \in Runs, SettleCard(r) PROVE TypeOK'
  BY <1>31, <1>0 DEF SettleCard, Show, Leave
<1>32. CASE UNCHANGED vars
  BY <1>32, <1>0 DEF vars
<1>33. QED
  BY <1>1, <1>2, <1>3, <1>4, <1>5, <1>6, <1>7, <1>8, <1>9, <1>10, <1>11, <1>12, <1>13,
     <1>14, <1>15, <1>16, <1>17, <1>18, <1>19, <1>20, <1>21, <1>22, <1>23, <1>24, <1>25,
     <1>26, <1>27, <1>28, <1>29, <1>30, <1>31, <1>32 DEF Next, GatewayStep, Verdict,
     RunStep, Actors

(* KindsStep: what is tapped, queued, armed and shown names runs that exist. *)
LEMMA KindsStep == ASSUME ConstantsOK, DeskInv, [Next]_vars PROVE Kinds'
<1> USE DEF ConstantsOK, DeskInv, TypeOK, Kinds, Acts, Interactions, Queued, runVars,
            phoneVars, queueVars, hostVars, vars
<1>0. ActsOK'
  BY ActsStep
<1>1. CASE TapButton
  <2>0. PICK c \in Runs : \E verb \in Buttons(look[c].shows) :
           taps' = Append(taps, [verb |-> verb, run |-> look[c].run, writes |-> FALSE])
    BY <1>1 DEF TapButton
  <2>1. PICK verb \in Buttons(look[c].shows) :
           taps' = Append(taps, [verb |-> verb, run |-> look[c].run, writes |-> FALSE])
    BY <2>0
  <2>2. look[c].shows # "none" /\ verb \in Verbs
    BY DEF Buttons, Verbs, Verdicts
  <2>3. [verb |-> verb, run |-> look[c].run, writes |-> FALSE] \in Interactions
    BY <2>2
  <2>4. taps' \in Seq(Interactions)
    BY <2>1, <2>3
  <2>5. QED
    BY <1>1, <2>4, <1>0 DEF TapButton
<1>2. CASE TapAsk
  BY <1>2, <1>0 DEF TapAsk
<1>3. CASE TypedAsk
  <2>1. PICK in \in Intakes : Make(in, "pool")
    BY <1>3, TypedMakes
  <2>2. QED
    BY <1>3, <2>1, <1>0, MadeKind DEF TypedAsk, Intakes
<1>4. CASE Spoken
  BY <1>4, <1>0 DEF Spoken
<1>5. CASE SetHalt
  BY <1>5, <1>0 DEF SetHalt
<1>6. CASE TakeTap
  <2> DEFINE tap == Head(taps)
  <2>1. tap \in Interactions /\ taps' \in Seq(Interactions)
    BY <1>6 DEF TakeTap
  <2>2. aim' \in Runs \cup {None}
    BY <1>6, <2>1 DEF TakeTap
  <2>3. asks' \in Seq(Queued)
    <3> DEFINE new == [from |-> None, writes |-> tap.writes]
    <3>1. new \in Queued
      BY <2>1
    <3>2. asks' = asks \/ asks' = Append(asks, new)
      BY <1>6 DEF TakeTap
    <3>3. asks \in Seq(Queued)
      OBVIOUS
    <3> HIDE DEF new, Queued, Kinds, TypeOK
    <3>4. QED
      BY <3>1, <3>2, <3>3
  <2>4. UNCHANGED <<runVars, history>>
    BY <1>6 DEF TakeTap
  <2>5. QED
    BY <2>1, <2>2, <2>3, <2>4, <1>0
<1>7. CASE Continue
  <2>1. CASE row[act["gw"].run] \in Busy
    BY <1>7, <2>1, <1>0 DEF Continue
  <2>2. CASE row[act["gw"].run] \notin Busy
    <3>1. PICK in \in Intakes : Make(in, "pool")
      BY <1>7, <2>2, ContinueMakes
    <3>2. QED
      BY <1>7, <2>2, <3>1, <1>0, MadeKind DEF Continue, Intakes
  <2>3. QED
    BY <2>1, <2>2
<1>8. CASE ContinueReturns
  BY <1>8, <1>0 DEF ContinueReturns, At
<1>9. CASE RetryTap
  <2>1. act["gw"].run \in Runs
    BY <1>9 DEF RetryTap, At, ActsOK, Actors
  <2>2. [from |-> act["gw"].run, writes |-> intake[act["gw"].run].writes] \in Queued
    BY <2>1
  <2>3. asks' \in Seq(Queued)
    BY <1>9, <2>2 DEF RetryTap
  <2>4. QED
    BY <1>9, <2>3, <1>0 DEF RetryTap
<1>10. CASE Dismiss
  <2>1. act["gw"].run \in Runs
    BY <1>10 DEF Dismiss, At, ActsOK, Actors
  <2>2. QED
    BY <1>10, <2>1, <1>0 DEF Dismiss, Show
<1>11. CASE DrainAsk
  <2>1. CASE halted
    BY <1>11, <2>1, <1>0 DEF DrainAsk
  <2>2. CASE ~halted
    <3>1. PICK in \in Intakes : Make(in, "pool")
      BY <1>11, <2>2, DrainMakes
    <3>2. QED
      BY <1>11, <2>2, <3>1, <1>0, MadeKind DEF DrainAsk, Intakes
  <2>3. QED
    BY <2>1, <2>2
<1>12. CASE TickList
  BY <1>12, <1>0 DEF TickList
<1>13. CASE TickExpire
  BY <1>13, <1>0 DEF TickExpire
<1>14. CASE Age
  BY <1>14, <1>0 DEF Age
<1>15. CASE HostRestart
  <2>1. taps' \in Seq(Interactions) /\ asks' \in Seq(Queued) /\ aim' = aim
    BY <1>15 DEF HostRestart
  <2>2. \A c \in Runs : look'[c].run = look[c].run
                          /\ (look'[c].shows = look[c].shows \/ look[c].run \in Runs)
    BY <1>15 DEF HostRestart
  <2>3. made' = made /\ \A r \in Runs : pc[r] = "none" => pc'[r] = "none"
    BY <1>15 DEF HostRestart
  <2>4. history' \in Histories
    <3> DEFINE cut == {Slot(r) : r \in {q \in Runs : pc[q] \in {"pool", "park3"}}}
                        \cup ({act[a].run : a \in Actors} \ {None})
    <3>1. \A r \in Runs : Slot(r) \in Runs \cup {None}
      BY DEF Slot
    <3>2. \A a \in Actors : act[a].run \in Runs \cup {None}
      BY DEF ActsOK
    <3>3. cut \subseteq Runs \cup {None}
      BY <3>1, <3>2
    <3>4. history' = [history EXCEPT !.lost = history.lost \cup cut]
      BY <1>15 DEF HostRestart
    <3> HIDE DEF cut
    <3>5. QED
      BY <3>3, <3>4 DEF Histories
  <2>5. QED
    BY <2>1, <2>2, <2>3, <2>4, <1>0 DEF Histories
<1>16. ASSUME NEW a \in Actors, Begin(a) PROVE Kinds'
  <2>1. history' \in Histories
    BY <1>16, BeginHistory
  <2>2. QED
    BY <1>16, <2>1, <1>0 DEF Begin, Histories
<1>17. ASSUME NEW a \in Actors, Look(a) PROVE Kinds'
  BY <1>17, <1>0 DEF Look, At
<1>18. ASSUME NEW a \in Actors, Take(a) PROVE Kinds'
  BY <1>18, <1>0 DEF Take, At
<1>19. ASSUME NEW a \in Actors, CloseParked(a) PROVE Kinds'
  BY <1>19, <1>0 DEF CloseParked, At
<1>20. ASSUME NEW a \in Actors, SubmitApproved(a) PROVE Kinds'
  <2>1. PICK in \in Intakes : Make(in, "pool")
    BY <1>20, SubmitMakes
  <2>2. QED
    BY <1>20, <2>1, <1>0, MadeKind DEF SubmitApproved, Intakes
<1>21. ASSUME NEW a \in Actors, DenyTake(a) PROVE Kinds'
  BY <1>21, <1>0 DEF DenyTake, At
<1>22. ASSUME NEW a \in Actors, DenyFail(a) PROVE Kinds'
  <2>1. act[a].run \in Runs
    BY <1>22 DEF DenyFail, At, ActsOK
  <2>2. QED
    BY <1>22, <2>1, <1>0 DEF DenyFail
<1>23. ASSUME NEW a \in Actors, DenyPaint(a) PROVE Kinds'
  <2>1. act[a].run \in Runs
    BY <1>23 DEF DenyPaint, At, ActsOK, Actors
  <2>2. QED
    BY <1>23, <2>1, <1>0 DEF DenyPaint, Show
<1>24. ASSUME NEW r \in Runs, BeginHalted(r) PROVE Kinds'
  <2>1. Slot(r) \in Runs \cup {None}
    BY DEF Slot
  <2>2. QED
    BY <1>24, <2>1, <1>0 DEF BeginHalted
<1>25. ASSUME NEW r \in Runs, BeginRun(r) PROVE Kinds'
  BY <1>25, <1>0 DEF BeginRun, Show
<1>26. ASSUME NEW r \in Runs, ParkOrCook(r) PROVE Kinds'
  BY <1>26, <1>0 DEF ParkOrCook
<1>27. ASSUME NEW r \in Runs, Park1(r) PROVE Kinds'
  BY <1>27, <1>0 DEF Park1
<1>28. ASSUME NEW r \in Runs, Park2(r) PROVE Kinds'
  BY <1>28, <1>0 DEF Park2
<1>29. ASSUME NEW r \in Runs, Park3(r) PROVE Kinds'
  BY <1>29, <1>0 DEF Park3, Show, Leave
<1>30. ASSUME NEW r \in Runs, CookEnds(r) PROVE Kinds'
  BY <1>30, <1>0 DEF CookEnds
<1>31. ASSUME NEW r \in Runs, SettleCard(r) PROVE Kinds'
  BY <1>31, <1>0 DEF SettleCard, Show, Leave
<1>32. CASE UNCHANGED vars
  BY <1>32, <1>0 DEF vars
<1>33. QED
  BY <1>1, <1>2, <1>3, <1>4, <1>5, <1>6, <1>7, <1>8, <1>9, <1>10, <1>11, <1>12, <1>13,
     <1>14, <1>15, <1>16, <1>17, <1>18, <1>19, <1>20, <1>21, <1>22, <1>23, <1>24, <1>25,
     <1>26, <1>27, <1>28, <1>29, <1>30, <1>31, <1>32 DEF Next, GatewayStep, Verdict,
     RunStep, Actors

(* OnRecordStep: only Begin brings a thread into an Allow, and records it.   *)
LEMMA OnRecordStep == ASSUME ConstantsOK, DeskInv, [Next]_vars PROVE OnRecord'
<1> USE DEF DeskInv, Kinds, runVars, phoneVars, queueVars, hostVars, vars
<1>1. CASE TapButton
  BY <1>1, KeepRecord DEF TapButton, Elsewhere
<1>2. CASE TapAsk
  BY <1>2, KeepRecord DEF TapAsk, Elsewhere
<1>3. CASE TypedAsk
  BY <1>3, KeepRecord DEF TypedAsk, Elsewhere
<1>4. CASE Spoken
  <2>1. \A b \in Actors : Elsewhere(b)
    BY <1>4 DEF Spoken, Elsewhere, ActsOK
  <2>2. QED
    BY <1>4, <2>1, KeepRecord DEF Spoken
<1>5. CASE SetHalt
  BY <1>5, KeepRecord DEF SetHalt, Elsewhere
<1>6. CASE TakeTap
  BY <1>6, TapElsewhere, KeepRecord DEF TakeTap
<1>7. CASE Continue
  BY <1>7, ContinueElsewhere, KeepRecord DEF Continue
<1>8. CASE ContinueReturns
  <2>1. Done("gw") /\ history' = history
    BY <1>8 DEF ContinueReturns
  <2>2. QED
    BY <2>1, DoneElsewhere, KeepRecord DEF Actors
<1>9. CASE RetryTap
  <2>1. Done("gw") /\ history' = history
    BY <1>9 DEF RetryTap
  <2>2. QED
    BY <2>1, DoneElsewhere, KeepRecord DEF Actors
<1>10. CASE Dismiss
  <2>1. Done("gw") /\ history' = history
    BY <1>10 DEF Dismiss
  <2>2. QED
    BY <2>1, DoneElsewhere, KeepRecord DEF Actors
<1>11. CASE DrainAsk
  BY <1>11, KeepRecord DEF DrainAsk, Elsewhere
<1>12. CASE TickList
  BY <1>12, KeepRecord DEF TickList, Elsewhere
<1>13. CASE TickExpire
  <2>1. \A b \in Actors : Elsewhere(b)
    BY <1>13 DEF TickExpire, Elsewhere, ActsOK
  <2>2. QED
    BY <1>13, <2>1, KeepRecord DEF TickExpire
<1>14. CASE Age
  BY <1>14, KeepRecord DEF Age, Elsewhere
<1>15. CASE HostRestart
  <2>1. \A b \in Actors : act'[b] = Idle
    BY <1>15 DEF HostRestart
  <2>2. QED
    BY <2>1 DEF OnRecord, Allows, Idle
<1>16. ASSUME NEW a \in Actors, Begin(a) PROVE OnRecord'
  <2>1. /\ act'[a].verb = act[a].verb /\ act'[a].run = act[a].run
        /\ \A b \in Actors \ {a} : act'[b] = act[b]
    BY <1>16, StepKind DEF Begin, At, Steps
  <2>2. /\ history.allowed \subseteq history'.allowed
        /\ (act[a].verb # "deny" => act[a].run \in history'.allowed)
    BY <1>16, BeginHistory
  <2>3. QED
    BY <2>1, <2>2 DEF OnRecord, Allows
<1>17. ASSUME NEW a \in Actors, Look(a) PROVE OnRecord'
  BY <1>17, MoveRecord, DoneElsewhere, KeepRecord DEF Look, At, Steps
<1>18. ASSUME NEW a \in Actors, Take(a) PROVE OnRecord'
  BY <1>18, MoveRecord DEF Take, At, Steps
<1>19. ASSUME NEW a \in Actors, CloseParked(a) PROVE OnRecord'
  BY <1>19, MoveRecord DEF CloseParked, At, Steps
<1>20. ASSUME NEW a \in Actors, SubmitApproved(a) PROVE OnRecord'
  BY <1>20, DoneElsewhere, KeepRecord DEF SubmitApproved
<1>21. ASSUME NEW a \in Actors, DenyTake(a) PROVE OnRecord'
  BY <1>21, MoveRecord DEF DenyTake, At, Steps
<1>22. ASSUME NEW a \in Actors, DenyFail(a) PROVE OnRecord'
  <2>1. history'.allowed = history.allowed
    BY <1>22 DEF DenyFail
  <2>2. QED
    BY <1>22, <2>1, MoveRecord DEF DenyFail, At, Steps
<1>23. ASSUME NEW a \in Actors, DenyPaint(a) PROVE OnRecord'
  BY <1>23, DoneElsewhere, KeepRecord DEF DenyPaint
<1>24. ASSUME NEW r \in Runs, BeginHalted(r) PROVE OnRecord'
  <2>1. history'.allowed = history.allowed /\ act' = act
    BY <1>24 DEF BeginHalted
  <2>2. QED
    BY <2>1, KeepRecord DEF Elsewhere
<1>25. ASSUME NEW r \in Runs, BeginRun(r) PROVE OnRecord'
  BY <1>25, KeepRecord DEF BeginRun, Elsewhere
<1>26. ASSUME NEW r \in Runs, ParkOrCook(r) PROVE OnRecord'
  BY <1>26, KeepRecord DEF ParkOrCook, Elsewhere
<1>27. ASSUME NEW r \in Runs, Park1(r) PROVE OnRecord'
  BY <1>27, KeepRecord DEF Park1, Elsewhere
<1>28. ASSUME NEW r \in Runs, Park2(r) PROVE OnRecord'
  BY <1>28, KeepRecord DEF Park2, Elsewhere
<1>29. ASSUME NEW r \in Runs, Park3(r) PROVE OnRecord'
  BY <1>29, KeepRecord DEF Park3, Elsewhere
<1>30. ASSUME NEW r \in Runs, CookEnds(r) PROVE OnRecord'
  BY <1>30, KeepRecord DEF CookEnds, Elsewhere
<1>31. ASSUME NEW r \in Runs, SettleCard(r) PROVE OnRecord'
  BY <1>31, KeepRecord DEF SettleCard, Elsewhere
<1>32. CASE UNCHANGED vars
  BY <1>32, KeepRecord DEF Elsewhere
<1>33. QED
  BY <1>1, <1>2, <1>3, <1>4, <1>5, <1>6, <1>7, <1>8, <1>9, <1>10, <1>11, <1>12, <1>13,
     <1>14, <1>15, <1>16, <1>17, <1>18, <1>19, <1>20, <1>21, <1>22, <1>23, <1>24, <1>25,
     <1>26, <1>27, <1>28, <1>29, <1>30, <1>31, <1>32 DEF Next, GatewayStep, Verdict,
     RunStep, Actors

(* SanctionedStep: a run carries an Allow only from SubmitApproved, which is *)
(* in an Allow on record; a run cooks only past NeedsAllow.                  *)
LEMMA SanctionedStep == ASSUME ConstantsOK, DeskInv, [Next]_vars PROVE Sanctioned'
<1> USE DEF DeskInv, TypeOK, Kinds, Sanctioned, runVars, phoneVars, queueVars, hostVars, vars
<1>1. CASE TapButton
  BY <1>1 DEF TapButton
<1>2. CASE TapAsk
  BY <1>2 DEF TapAsk
<1>3. CASE TypedAsk
  <2>1. UNCHANGED <<grant, history, gate>>
    BY <1>3 DEF TypedAsk
  <2>2. PICK in \in Intakes : Make(in, "pool") /\ ~in.approved
    BY <1>3, TypedMakes
  <2>3. QED
    BY <2>1, <2>2, MadeSanctioned
<1>4. CASE Spoken
  BY <1>4 DEF Spoken
<1>5. CASE SetHalt
  BY <1>5 DEF SetHalt
<1>6. CASE TakeTap
  BY <1>6 DEF TakeTap
<1>7. CASE Continue
  <2>1. UNCHANGED <<grant, history, gate>>
    BY <1>7 DEF Continue
  <2>2. CASE row[act["gw"].run] \in Busy
    BY <1>7, <2>2 DEF Continue
  <2>3. CASE row[act["gw"].run] \notin Busy
    <3>1. PICK in \in Intakes : Make(in, "pool") /\ ~in.approved
      BY <1>7, <2>3, ContinueMakes
    <3>2. QED
      BY <2>1, <3>1, MadeSanctioned
  <2>4. QED
    BY <2>2, <2>3
<1>8. CASE ContinueReturns
  BY <1>8 DEF ContinueReturns
<1>9. CASE RetryTap
  BY <1>9 DEF RetryTap
<1>10. CASE Dismiss
  BY <1>10 DEF Dismiss, Show
<1>11. CASE DrainAsk
  <2>1. UNCHANGED <<grant, history, gate>>
    BY <1>11 DEF DrainAsk
  <2>2. CASE halted
    BY <1>11, <2>2 DEF DrainAsk
  <2>3. CASE ~halted
    <3>1. PICK in \in Intakes : Make(in, "pool") /\ ~in.approved
      BY <1>11, <2>3, DrainMakes
    <3>2. QED
      BY <2>1, <3>1, MadeSanctioned
  <2>4. QED
    BY <2>2, <2>3
<1>12. CASE TickList
  BY <1>12 DEF TickList
<1>13. CASE TickExpire
  BY <1>13 DEF TickExpire
<1>14. CASE Age
  BY <1>14 DEF Age
<1>15. CASE HostRestart
  <2>1. history'.allowed = history.allowed /\ UNCHANGED <<intake, grant, gate>>
    BY <1>15 DEF HostRestart
  <2>2. \A r \in Runs : pc'[r] = "gone" \/ pc'[r] = "none"
    BY <1>15 DEF HostRestart
  <2>3. \A r \in Runs : pc'[r] # "none" => pc[r] # "none"
    BY <1>15 DEF HostRestart
  <2>4. QED
    BY <2>1, <2>2, <2>3
<1>16. ASSUME NEW a \in Actors, Begin(a) PROVE Sanctioned'
  <2>1. grant => grant'
    BY <1>16 DEF Begin
  <2>2. history.allowed \subseteq history'.allowed
    BY <1>16, BeginHistory
  <2>3. UNCHANGED <<runVars, hostVars>>
    BY <1>16 DEF Begin
  <2>4. QED
    BY <2>1, <2>2, <2>3
<1>17. ASSUME NEW a \in Actors, Look(a) PROVE Sanctioned'
  BY <1>17 DEF Look
<1>18. ASSUME NEW a \in Actors, Take(a) PROVE Sanctioned'
  BY <1>18 DEF Take
<1>19. ASSUME NEW a \in Actors, CloseParked(a) PROVE Sanctioned'
  BY <1>19 DEF CloseParked
<1>20. ASSUME NEW a \in Actors, SubmitApproved(a) PROVE Sanctioned'
  <2>1. PICK in \in Intakes :
           Make(in, "pool") /\ in.approved /\ in.from = act[a].run /\ in.from \in Runs
    BY <1>20, SubmitMakes
  <2>2. act[a].run \in history.allowed
    BY <1>20, <2>1 DEF SubmitApproved, At, OnRecord, Allows
  <2>3. QED
    BY <1>20, <2>1, <2>2, MadeSanctioned DEF SubmitApproved
<1>21. ASSUME NEW a \in Actors, DenyTake(a) PROVE Sanctioned'
  BY <1>21 DEF DenyTake
<1>22. ASSUME NEW a \in Actors, DenyFail(a) PROVE Sanctioned'
  BY <1>22 DEF DenyFail
<1>23. ASSUME NEW a \in Actors, DenyPaint(a) PROVE Sanctioned'
  BY <1>23 DEF DenyPaint, Show
<1>24. ASSUME NEW r \in Runs, BeginHalted(r) PROVE Sanctioned'
  BY <1>24 DEF BeginHalted
<1>25. ASSUME NEW r \in Runs, BeginRun(r) PROVE Sanctioned'
  BY <1>25 DEF BeginRun, Show
<1>26. ASSUME NEW r \in Runs, ParkOrCook(r) PROVE Sanctioned'
  <2>1. UNCHANGED <<intake, grant, history, gate>>
    BY <1>26 DEF ParkOrCook
  <2>2. \A q \in Runs \ {r} : pc'[q] = pc[q]
    BY <1>26 DEF ParkOrCook
  <2>3. /\ pc[r] # "none"
        /\ pc'[r] = "cook" /\ intake[r].writes /\ gate => grant \/ intake[r].approved
    BY <1>26 DEF ParkOrCook, NeedsAllow
  <2>4. pc'[r] # "settle"
    BY <1>26 DEF ParkOrCook
  <2>5. QED
    BY <2>1, <2>2, <2>3, <2>4
<1>27. ASSUME NEW r \in Runs, Park1(r) PROVE Sanctioned'
  BY <1>27 DEF Park1
<1>28. ASSUME NEW r \in Runs, Park2(r) PROVE Sanctioned'
  BY <1>28 DEF Park2
<1>29. ASSUME NEW r \in Runs, Park3(r) PROVE Sanctioned'
  BY <1>29 DEF Park3, Show, Leave
<1>30. ASSUME NEW r \in Runs, CookEnds(r) PROVE Sanctioned'
  BY <1>30 DEF CookEnds
<1>31. ASSUME NEW r \in Runs, SettleCard(r) PROVE Sanctioned'
  BY <1>31 DEF SettleCard, Show, Leave
<1>32. CASE UNCHANGED vars
  BY <1>32 DEF vars
<1>33. QED
  BY <1>1, <1>2, <1>3, <1>4, <1>5, <1>6, <1>7, <1>8, <1>9, <1>10, <1>11, <1>12, <1>13,
     <1>14, <1>15, <1>16, <1>17, <1>18, <1>19, <1>20, <1>21, <1>22, <1>23, <1>24, <1>25,
     <1>26, <1>27, <1>28, <1>29, <1>30, <1>31, <1>32 DEF Next, GatewayStep, Verdict,
     RunStep, Actors

(* ParkedStep: Park1 alone raises the flag, and a run does not leave what     *)
(* follows its parking.                                                      *)
LEMMA ParkedStep == ASSUME ConstantsOK, DeskInv, [Next]_vars PROVE Parked'
<1> USE DEF ConstantsOK, DeskInv, TypeOK, Kinds, Parked, runVars, phoneVars, queueVars,
            hostVars, vars
<1>1. CASE TapButton
  BY <1>1 DEF TapButton
<1>2. CASE TapAsk
  BY <1>2 DEF TapAsk
<1>3. CASE TypedAsk
  BY <1>3 DEF TypedAsk, Make
<1>4. CASE Spoken
  BY <1>4 DEF Spoken
<1>5. CASE SetHalt
  BY <1>5 DEF SetHalt
<1>6. CASE TakeTap
  BY <1>6 DEF TakeTap
<1>7. CASE Continue
  BY <1>7 DEF Continue, Make, At
<1>8. CASE ContinueReturns
  BY <1>8 DEF ContinueReturns, At
<1>9. CASE RetryTap
  BY <1>9 DEF RetryTap, At
<1>10. CASE Dismiss
  BY <1>10 DEF Dismiss, Show, At
<1>11. CASE DrainAsk
  BY <1>11 DEF DrainAsk, Make
<1>12. CASE TickList
  BY <1>12 DEF TickList
<1>13. CASE TickExpire
  BY <1>13 DEF TickExpire
<1>14. CASE Age
  BY <1>14 DEF Age
<1>15. CASE HostRestart
  BY <1>15 DEF HostRestart
<1>16. ASSUME NEW a \in Actors, Begin(a) PROVE Parked'
  BY <1>16 DEF Begin, At
<1>17. ASSUME NEW a \in Actors, Look(a) PROVE Parked'
  BY <1>17 DEF Look, At
<1>18. ASSUME NEW a \in Actors, Take(a) PROVE Parked'
  BY <1>18 DEF Take, At
<1>19. ASSUME NEW a \in Actors, CloseParked(a) PROVE Parked'
  BY <1>19 DEF CloseParked, At
<1>20. ASSUME NEW a \in Actors, SubmitApproved(a) PROVE Parked'
  <2>1. UNCHANGED awaiting
    BY <1>20 DEF SubmitApproved
  <2>2. PICK in \in Intakes : Make(in, "pool")
    BY <1>20, SubmitMakes
  <2>3. QED
    BY <2>1, <2>2, MadeKind
<1>21. ASSUME NEW a \in Actors, DenyTake(a) PROVE Parked'
  BY <1>21 DEF DenyTake, At
<1>22. ASSUME NEW a \in Actors, DenyFail(a) PROVE Parked'
  BY <1>22 DEF DenyFail, At
<1>23. ASSUME NEW a \in Actors, DenyPaint(a) PROVE Parked'
  BY <1>23 DEF DenyPaint, Show, At
<1>24. ASSUME NEW r \in Runs, BeginHalted(r) PROVE Parked'
  BY <1>24 DEF BeginHalted
<1>25. ASSUME NEW r \in Runs, BeginRun(r) PROVE Parked'
  BY <1>25 DEF BeginRun, Show
<1>26. ASSUME NEW r \in Runs, ParkOrCook(r) PROVE Parked'
  BY <1>26 DEF ParkOrCook
<1>27. ASSUME NEW r \in Runs, Park1(r) PROVE Parked'
  BY <1>27 DEF Park1
<1>28. ASSUME NEW r \in Runs, Park2(r) PROVE Parked'
  BY <1>28 DEF Park2
<1>29. ASSUME NEW r \in Runs, Park3(r) PROVE Parked'
  BY <1>29 DEF Park3, Show, Leave
<1>30. ASSUME NEW r \in Runs, CookEnds(r) PROVE Parked'
  BY <1>30 DEF CookEnds
<1>31. ASSUME NEW r \in Runs, SettleCard(r) PROVE Parked'
  BY <1>31 DEF SettleCard, Show, Leave
<1>32. CASE UNCHANGED vars
  BY <1>32 DEF vars
<1>33. QED
  BY <1>1, <1>2, <1>3, <1>4, <1>5, <1>6, <1>7, <1>8, <1>9, <1>10, <1>11, <1>12, <1>13,
     <1>14, <1>15, <1>16, <1>17, <1>18, <1>19, <1>20, <1>21, <1>22, <1>23, <1>24, <1>25,
     <1>26, <1>27, <1>28, <1>29, <1>30, <1>31, <1>32 DEF Next, GatewayStep, Verdict,
     RunStep, Actors

(* OnceStep: the flag of a run lets one verdict through.  Begin meets nobody  *)
(* or the run is raced; Take finds the flag up, so nothing was started; what  *)
(* SubmitApproved starts is the first, and nobody else is in that verdict.   *)
LEMMA OnceStep == ASSUME ConstantsOK, DeskInv, [Next]_vars PROVE Once'
<1> USE DEF DeskInv, Kinds, runVars, phoneVars, queueVars, hostVars, vars
<1>1. CASE TapButton
  BY <1>1, StillFrozen, KeepOnce DEF TapButton, Elsewhere, Flagged
<1>2. CASE TapAsk
  BY <1>2, StillFrozen, KeepOnce DEF TapAsk, Elsewhere, Flagged
<1>3. CASE TypedAsk
  <2>1. Frozen
    <3>1. PICK in \in Intakes : Make(in, "pool") /\ ~in.approved
      BY <1>3, TypedMakes
    <3>2. UNCHANGED <<awaiting, history>>
      BY <1>3 DEF TypedAsk
    <3>3. QED
      BY <3>1, <3>2, MadeFrozen
  <2>2. \A p \in Runs : awaiting[p] => awaiting'[p]
    BY <1>3 DEF TypedAsk
  <2>3. \A b \in Actors : Elsewhere(b)
    BY <1>3 DEF TypedAsk, Elsewhere, ActsOK
  <2>9. QED
    BY <2>1, <2>2, <2>3, KeepOnce
<1>4. CASE Spoken
  BY <1>4, StillFrozen, KeepOnce DEF Spoken, Elsewhere, Flagged
<1>5. CASE SetHalt
  BY <1>5, StillFrozen, KeepOnce DEF SetHalt, Elsewhere, Flagged
<1>6. CASE TakeTap
  <2>1. Frozen
    BY <1>6, StillFrozen DEF TakeTap, Flagged
  <2>2. \A p \in Runs : awaiting[p] => awaiting'[p]
    BY <1>6 DEF TakeTap
  <2>3. \A b \in Actors : Elsewhere(b)
    BY <1>6, TapElsewhere
  <2>9. QED
    BY <2>1, <2>2, <2>3, KeepOnce
<1>7. CASE Continue
  <2>1. Frozen
    <3>1. CASE row[act["gw"].run] \in Busy
      BY <1>7, <3>1, StillFrozen DEF Continue
    <3>2. CASE row[act["gw"].run] \notin Busy
      <4>1. PICK in \in Intakes : Make(in, "pool") /\ ~in.approved
        BY <1>7, <3>2, ContinueMakes
      <4>2. UNCHANGED <<awaiting, history>>
        BY <1>7 DEF Continue
      <4>3. QED
        BY <4>1, <4>2, MadeFrozen
    <3>3. QED
      BY <3>1, <3>2
  <2>2. \A p \in Runs : awaiting[p] => awaiting'[p]
    BY <1>7 DEF Continue
  <2>3. \A b \in Actors : Elsewhere(b)
    BY <1>7, ContinueElsewhere
  <2>9. QED
    BY <2>1, <2>2, <2>3, KeepOnce
<1>8. CASE ContinueReturns
  <2>1. Frozen
    BY <1>8, StillFrozen DEF ContinueReturns, Flagged
  <2>2. \A p \in Runs : awaiting[p] => awaiting'[p]
    BY <1>8 DEF ContinueReturns
  <2>3. \A b \in Actors : Elsewhere(b)
    <3>1. Done("gw")
      BY <1>8 DEF ContinueReturns
    <3>2. QED
      BY <3>1, DoneElsewhere DEF Actors
  <2>9. QED
    BY <2>1, <2>2, <2>3, KeepOnce
<1>9. CASE RetryTap
  <2>1. Frozen
    BY <1>9, StillFrozen DEF RetryTap, Flagged
  <2>2. \A p \in Runs : awaiting[p] => awaiting'[p]
    BY <1>9 DEF RetryTap
  <2>3. \A b \in Actors : Elsewhere(b)
    <3>1. Done("gw")
      BY <1>9 DEF RetryTap
    <3>2. QED
      BY <3>1, DoneElsewhere DEF Actors
  <2>9. QED
    BY <2>1, <2>2, <2>3, KeepOnce
<1>10. CASE Dismiss
  <2>1. Frozen
    BY <1>10, StillFrozen DEF Dismiss, Flagged
  <2>2. \A p \in Runs : awaiting[p] => awaiting'[p]
    BY <1>10 DEF Dismiss
  <2>3. \A b \in Actors : Elsewhere(b)
    <3>1. Done("gw")
      BY <1>10 DEF Dismiss
    <3>2. QED
      BY <3>1, DoneElsewhere DEF Actors
  <2>9. QED
    BY <2>1, <2>2, <2>3, KeepOnce
<1>11. CASE DrainAsk
  <2>1. Frozen
    <3>1. CASE halted
      BY <1>11, <3>1, StillFrozen DEF DrainAsk
    <3>2. CASE ~halted
      <4>1. PICK in \in Intakes : Make(in, "pool") /\ ~in.approved
        BY <1>11, <3>2, DrainMakes
      <4>2. UNCHANGED <<awaiting, history>>
        BY <1>11 DEF DrainAsk
      <4>3. QED
        BY <4>1, <4>2, MadeFrozen
    <3>3. QED
      BY <3>1, <3>2
  <2>2. \A p \in Runs : awaiting[p] => awaiting'[p]
    BY <1>11 DEF DrainAsk
  <2>3. \A b \in Actors : Elsewhere(b)
    BY <1>11 DEF DrainAsk, Elsewhere, ActsOK
  <2>9. QED
    BY <2>1, <2>2, <2>3, KeepOnce
<1>12. CASE TickList
  BY <1>12, StillFrozen, KeepOnce DEF TickList, Elsewhere, Flagged
<1>13. CASE TickExpire
  BY <1>13, StillFrozen, KeepOnce DEF TickExpire, Elsewhere, Flagged
<1>14. CASE Age
  BY <1>14, StillFrozen, KeepOnce DEF Age, Elsewhere, Flagged
<1>15. CASE HostRestart
  <2>1. Frozen
    <3>1. history'.raced = history.raced /\ UNCHANGED <<intake, awaiting>>
      BY <1>15 DEF HostRestart
    <3>2. \A r \in Runs : pc'[r] = IF pc[r] = "none" THEN "none" ELSE "gone"
      BY <1>15 DEF HostRestart
    <3>3. QED
      BY <3>1, <3>2, StillFrozen DEF Flagged
  <2>2. \A p \in Runs : awaiting[p] => awaiting'[p]
    BY <1>15 DEF HostRestart
  <2>3. \A b \in Actors : Elsewhere(b)
    BY <1>15 DEF HostRestart, Elsewhere, Idle
  <2>9. QED
    BY <2>1, <2>2, <2>3, KeepOnce
<1>16. ASSUME NEW a \in Actors, Begin(a) PROVE Once'
  <2>1. PICK to \in {"deny", "look"} : Step(a, to)
    BY <1>16 DEF Begin
  <2>2. /\ act[a].step = "begin" /\ act'[a].run = act[a].run /\ act'[a].step = to
        /\ \A b \in Actors \ {a} : act'[b] = act[b]
    BY <1>16, <2>1, StepKind DEF Begin, At, Steps
  <2>3. /\ history.raced \subseteq history'.raced
        /\ Meets(a, act[a].run) => act[a].run \in history'.raced
    BY <1>16, BeginHistory
  <2>4. UNCHANGED runVars
    BY <1>16 DEF Begin
  <2>5. Frozen
    BY <2>3, <2>4, StillFrozen
  <2> SUFFICES ASSUME NEW p \in Runs \ history'.raced PROVE OneByOne(p)'
    BY DEF Once
  <2>6. OneByOne(p)
    BY <2>3 DEF Once
  <2>7. \A b \in Actors \ {a} : ~(In(a, p)' /\ In(b, p)')
    BY <2>2, <2>3 DEF In, Meets, Verdicts
  <2>8. \A b \in Actors \ {a} : In(b, p)' => In(b, p)
    BY <2>2 DEF In
  <2>9. \A b \in Actors : Allows(b, p, {"take"})' => Allows(b, p, {"take"})
    BY <2>2 DEF Allows
  <2>10. \A b \in Actors :
            Allows(b, p, {"row", "submit"})' => Allows(b, p, {"row", "submit"})
    BY <2>2 DEF Allows
  <2>11. Spent(p)' = Spent(p) /\ StartedFrom(p)' = StartedFrom(p) /\ awaiting' = awaiting
    BY <2>4 DEF Spent, StartedFrom
  <2>12. \A b \in Actors, c \in Actors : In(b, p)' /\ In(c, p)' => b = c
    BY <2>6, <2>7, <2>8 DEF OneByOne
  <2>13. \A b \in Actors : Allows(b, p, {"take"})' => awaiting'[p]
    BY <2>6, <2>9, <2>11 DEF OneByOne, Allows
  <2>14. \A b \in Actors :
            Allows(b, p, {"row", "submit"})' => Spent(p)' /\ StartedFrom(p)' = {}
    BY <2>6, <2>10, <2>11 DEF OneByOne, Allows
  <2>15. /\ StartedFrom(p)' # {} => Spent(p)'
         /\ \A q \in StartedFrom(p)', r \in StartedFrom(p)' : q = r
    BY <2>6, <2>11 DEF OneByOne
  <2>16. QED
    BY <2>12, <2>13, <2>14, <2>15 DEF OneByOne
<1>17. ASSUME NEW a \in Actors, Look(a) PROVE Once'
  <2>1. Frozen
    BY <1>17, StillFrozen DEF Look
  <2>2. act[a].step = "look" /\ act[a].verb \in Verdicts /\ awaiting' = awaiting
    BY <1>17 DEF Look, At, Verdicts
  <2>3. CASE awaiting[act[a].run]
    <3>1. Step(a, "take") /\ awaiting'[act[a].run]
      BY <1>17, <2>3 DEF Look
    <3>2. QED
      BY <2>1, <2>2, <3>1, MoveOnce DEF Steps
  <2>4. CASE ~awaiting[act[a].run]
    <3>1. \A b \in Actors : Elsewhere(b)
      BY <1>17, <2>4, DoneElsewhere DEF Look
    <3>2. QED
      BY <2>1, <2>2, <3>1, KeepOnce
  <2>5. QED
    BY <2>3, <2>4
<1>18. ASSUME NEW a \in Actors, Take(a) PROVE Once'
  <2>1. Frozen
    BY <1>18, StillFrozen DEF Take
  <2>2. act[a].verb \in Verdicts /\ act[a].run \in Runs
    BY <1>18 DEF Take, At, Verdicts, ActsOK
  <2>3. \A p \in Runs \ {act[a].run} : awaiting'[p] = awaiting[p]
    BY <1>18 DEF Take, TypeOK
  <2>4. /\ ~awaiting'[act[a].run] /\ pc' = pc /\ Step(a, "row")
        /\ act[a].verb \in {"approve", "always"} /\ act[a].step = "take"
    BY <1>18, <2>2 DEF Take, At, TypeOK
  <2>5. ASSUME NEW p \in Runs \ history.raced, p = act[a].run
        PROVE  Spent(p)' /\ StartedFrom(p) = {}
    <3>1. OneByOne(p)
      BY <2>2, <2>5 DEF Once
    <3>2. awaiting[p]
      BY <2>4, <2>5, <3>1 DEF OneByOne, Allows
    <3>3. pc[p] \in {"park2", "park3", "gone"}
      BY <2>2, <3>2 DEF Parked
    <3>4. StartedFrom(p) = {}
      BY <3>1, <3>2 DEF OneByOne, Spent
    <3>5. QED
      BY <2>4, <2>5, <3>3, <3>4 DEF Spent
  <2>6. QED
    BY <2>1, <2>2, <2>3, <2>4, <2>5, MoveOnce DEF Steps
<1>19. ASSUME NEW a \in Actors, CloseParked(a) PROVE Once'
  <2>1. Frozen
    BY <1>19, StillFrozen DEF CloseParked
  <2>2. act[a].verb \in Verdicts /\ act[a].run \in Runs
    BY <1>19 DEF CloseParked, At, Verdicts, ActsOK
  <2>3. \A p \in Runs \ {act[a].run} : awaiting'[p] = awaiting[p]
    BY <1>19 DEF CloseParked, TypeOK
  <2>4. Step(a, "submit") /\ act[a].verb \in {"approve", "always"} /\ act[a].step = "row"
    BY <1>19 DEF CloseParked, At
  <2>5. ASSUME NEW p \in Runs \ history.raced, p = act[a].run
        PROVE  Spent(p)' /\ StartedFrom(p) = {}
    <3>1. OneByOne(p)
      BY <2>2, <2>5 DEF Once
    <3>2. Spent(p) /\ StartedFrom(p) = {}
      BY <2>4, <2>5, <3>1 DEF OneByOne, Allows
    <3>3. QED
      BY <1>19, <3>2 DEF CloseParked, Spent
  <2>6. QED
    BY <2>1, <2>2, <2>3, <2>4, <2>5, MoveOnce DEF Steps
<1>20. ASSUME NEW a \in Actors, SubmitApproved(a) PROVE Once'
  <2> DEFINE p == act[a].run
  <2>1. PICK in \in Intakes :
           Make(in, "pool") /\ in.approved /\ in.from = p /\ p \in Runs
    BY <1>20, SubmitMakes
  <2>2. /\ pc[made + 1] = "none" /\ pc'[made + 1] = "pool" /\ intake'[made + 1] = in
        /\ made + 1 \in Runs
        /\ \A r \in Runs \ {made + 1} : pc'[r] = pc[r] /\ intake'[r] = intake[r]
    BY <2>1, MadeKind
  <2>3. UNCHANGED <<awaiting, history>> /\ Allows(a, p, {"row", "submit"}) /\ In(a, p)
    BY <1>20 DEF SubmitApproved, At, Allows, In, Verdicts
  <2>4. act'[a] = Idle /\ \A b \in Actors \ {a} : act'[b] = act[b]
    BY <1>20, DoneKind DEF SubmitApproved
  <2> SUFFICES ASSUME NEW o \in Runs \ history.raced PROVE OneByOne(o)'
    BY <2>3 DEF Once
  <2>5. OneByOne(o)
    BY DEF Once
  <2>6. Spent(o) => Spent(o)'
    BY <2>2, <2>3 DEF Spent
  <2>7. \A b \in Actors : In(b, o)' => In(b, o) /\ b # a
    BY <2>4 DEF In, Idle
  <2>8. \A b \in Actors : Allows(b, o, {"take"})' => Allows(b, o, {"take"})
    BY <2>4 DEF Allows, Idle
  <2>9. \A b \in Actors : Allows(b, o, {"row", "submit"})'
                             => Allows(b, o, {"row", "submit"}) /\ In(b, o)'
    BY <2>4 DEF Allows, Idle, In, Verdicts
  <2>10. \A b \in Actors, c \in Actors : In(b, o)' /\ In(c, o)' => b = c
    BY <2>5, <2>7 DEF OneByOne
  <2>11. \A b \in Actors : Allows(b, o, {"take"})' => awaiting'[o]
    BY <2>3, <2>5, <2>8 DEF OneByOne, Allows
  <2>12. CASE o = p
    <3>1. Spent(o) /\ StartedFrom(o) = {}
      BY <2>3, <2>5, <2>12 DEF OneByOne
    <3>2. StartedFrom(o)' \subseteq {made + 1}
      BY <2>2, <3>1 DEF StartedFrom
    <3>3. \A b \in Actors : ~Allows(b, o, {"row", "submit"})'
      BY <2>3, <2>5, <2>7, <2>9, <2>12 DEF OneByOne
    <3>4. QED
      BY <2>6, <2>10, <2>11, <3>1, <3>2, <3>3 DEF OneByOne
  <2>13. CASE o # p
    <3>1. StartedFrom(o)' = StartedFrom(o)
      BY <2>1, <2>2, <2>13 DEF StartedFrom
    <3>2. \A b \in Actors :
             Allows(b, o, {"row", "submit"})' => Spent(o)' /\ StartedFrom(o)' = {}
      BY <2>5, <2>6, <2>9, <3>1 DEF OneByOne, Allows
    <3>3. /\ StartedFrom(o)' # {} => Spent(o)'
          /\ \A q \in StartedFrom(o)', r \in StartedFrom(o)' : q = r
      BY <2>5, <2>6, <3>1 DEF OneByOne
    <3>4. QED
      BY <2>10, <2>11, <3>2, <3>3 DEF OneByOne
  <2>14. QED
    BY <2>12, <2>13
<1>21. ASSUME NEW a \in Actors, DenyTake(a) PROVE Once'
  <2>1. Frozen
    BY <1>21, StillFrozen DEF DenyTake
  <2>2. act[a].verb \in Verdicts /\ act[a].run \in Runs
    BY <1>21 DEF DenyTake, At, Verdicts, ActsOK
  <2>3. \A p \in Runs \ {act[a].run} : awaiting'[p] = awaiting[p]
    BY <1>21 DEF DenyTake, TypeOK
  <2>4. Step(a, "fail") /\ act[a].verb = "deny" /\ act[a].step = "deny"
    BY <1>21 DEF DenyTake, At
  <2>6. QED
    BY <2>1, <2>2, <2>3, <2>4, MoveOnce DEF Steps
<1>22. ASSUME NEW a \in Actors, DenyFail(a) PROVE Once'
  <2>1. Frozen
    BY <1>22, StillFrozen DEF DenyFail
  <2>2. act[a].verb \in Verdicts /\ act[a].run \in Runs
    BY <1>22 DEF DenyFail, At, Verdicts, ActsOK
  <2>3. \A p \in Runs \ {act[a].run} : awaiting'[p] = awaiting[p]
    BY <1>22 DEF DenyFail, TypeOK
  <2>4. Step(a, "paint") /\ act[a].verb = "deny" /\ act[a].step = "fail"
    BY <1>22 DEF DenyFail, At
  <2>6. QED
    BY <2>1, <2>2, <2>3, <2>4, MoveOnce DEF Steps
<1>23. ASSUME NEW a \in Actors, DenyPaint(a) PROVE Once'
  <2>1. Frozen
    BY <1>23, StillFrozen DEF DenyPaint, Flagged
  <2>2. \A p \in Runs : awaiting[p] => awaiting'[p]
    BY <1>23 DEF DenyPaint
  <2>3. \A b \in Actors : Elsewhere(b)
    BY <1>23, DoneElsewhere DEF DenyPaint
  <2>9. QED
    BY <2>1, <2>2, <2>3, KeepOnce
<1>24. ASSUME NEW r \in Runs, BeginHalted(r) PROVE Once'
  BY <1>24, StillFrozen, KeepOnce DEF BeginHalted, Elsewhere, Flagged
<1>25. ASSUME NEW r \in Runs, BeginRun(r) PROVE Once'
  BY <1>25, StillFrozen, KeepOnce DEF BeginRun, Elsewhere, Flagged
<1>26. ASSUME NEW r \in Runs, ParkOrCook(r) PROVE Once'
  BY <1>26, StillFrozen, KeepOnce DEF ParkOrCook, Elsewhere, Flagged
<1>27. ASSUME NEW r \in Runs, Park1(r) PROVE Once'
  BY <1>27, StillFrozen, KeepOnce DEF Park1, Elsewhere, Flagged
<1>28. ASSUME NEW r \in Runs, Park2(r) PROVE Once'
  BY <1>28, StillFrozen, KeepOnce DEF Park2, Elsewhere, Flagged
<1>29. ASSUME NEW r \in Runs, Park3(r) PROVE Once'
  BY <1>29, StillFrozen, KeepOnce DEF Park3, Leave, Elsewhere, Flagged
<1>30. ASSUME NEW r \in Runs, CookEnds(r) PROVE Once'
  BY <1>30, StillFrozen, KeepOnce DEF CookEnds, Elsewhere, Flagged
<1>31. ASSUME NEW r \in Runs, SettleCard(r) PROVE Once'
  BY <1>31, StillFrozen, KeepOnce DEF SettleCard, Leave, Elsewhere, Flagged
<1>32. CASE UNCHANGED vars
  <2>1. Frozen
    BY <1>32, StillFrozen
  <2>2. QED
    BY <1>32, <2>1, KeepOnce DEF Elsewhere
<1>33. QED
  BY <1>1, <1>2, <1>3, <1>4, <1>5, <1>6, <1>7, <1>8, <1>9, <1>10, <1>11, <1>12, <1>13,
     <1>14, <1>15, <1>16, <1>17, <1>18, <1>19, <1>20, <1>21, <1>22, <1>23, <1>24, <1>25,
     <1>26, <1>27, <1>28, <1>29, <1>30, <1>31, <1>32 DEF Next, GatewayStep, Verdict,
     RunStep, Actors

(* DeskInvInit: the invariant holds at the start.                            *)
LEMMA DeskInvInit == ASSUME ConstantsOK, Init PROVE DeskInv
<1> USE DEF Init
<1>1. TypeOK
  <2>1. made \in 0..MaxRuns
    BY DEF ConstantsOK
  <2>2. /\ intake \in [Runs -> Intakes]
        /\ look \in [Runs -> [run : Runs \cup {None},
                              shows : {"none", "onit", "parked", "completed", "failed",
                                       "denied", "cancelled"}]]
    BY DEF NoIntake, Intakes
  <2>3. \A a \in Actors : act[a].step = "idle" <=> act[a] = Idle
    BY DEF Idle
  <2>4. QED
    BY <2>1, <2>2, <2>3 DEF TypeOK, Intakes, Busy
<1>2. Kinds
  <2>1. ActsOK
    BY DEF ActsOK, Acts, Verbs, Idle
  <2>2. /\ taps \in Seq(Interactions) /\ asks \in Seq(Queued)
        /\ history \in [allowed : SUBSET Runs, raced : SUBSET Runs,
                        lost : SUBSET (Runs \cup {None}), denied : SUBSET Runs]
    OBVIOUS
  <2>3. QED
    BY <2>1, <2>2 DEF Kinds
<1>3. OnRecord
  BY DEF OnRecord, Allows, Idle
<1>4. Sanctioned /\ Parked
  BY DEF Sanctioned, Parked
<1>5. Once
  BY DEF Once, OneByOne, In, Allows, Idle, StartedFrom
<1>6. QED
  BY <1>1, <1>2, <1>3, <1>4, <1>5 DEF DeskInv

(* DeskInvStep: and every step keeps it.                                     *)
LEMMA DeskInvStep == ASSUME ConstantsOK, DeskInv, [Next]_vars PROVE DeskInv'
  BY TypeStep, KindsStep, OnRecordStep, SanctionedStep, ParkedStep, OnceStep DEF DeskInv

-----------------------------------------------------------------------------
(* InvariantHolds: DeskInv is an invariant of the desk, for any number of    *)
(* runs, taps, halts and restarts.                                           *)
THEOREM InvariantHolds == ASSUME ConstantsOK PROVE Spec => []DeskInv
<1>1. Init => DeskInv
  BY DeskInvInit
<1>2. DeskInv /\ [Next]_vars => DeskInv'
  BY DeskInvStep
<1>3. QED
  BY <1>1, <1>2, PTL DEF Spec

(* TypeCorrect: every variable keeps to its kind, and whoever holds the      *)
(* write lock of the thread is a run inside its run.                         *)
THEOREM TypeCorrect == ASSUME ConstantsOK PROVE Spec => []TypeOK
<1>1. DeskInv => TypeOK
  BY DEF DeskInv
<1>2. QED
  BY <1>1, InvariantHolds, PTL

(* WritesAllowed: no write cooks that nobody allowed, whoever asked for it   *)
(* and whatever was tapped, spoken, denied or cut short meanwhile.           *)
THEOREM WritesAllowed == ASSUME ConstantsOK PROVE Spec => []AllowedWrites
<1>1. DeskInv => AllowedWrites
  BY DEF DeskInv, Sanctioned, AllowedWrites
<1>2. QED
  BY <1>1, InvariantHolds, PTL

(* StartedOnce: a parked write is started once, but where the two threads    *)
(* meet in their verdicts on it.                                             *)
THEOREM StartedOnce == ASSUME ConstantsOK PROVE Spec => []StartOnce
<1>1. DeskInv => StartOnce
  <2> SUFFICES ASSUME DeskInv, NEW p \in Runs \ history.raced
               PROVE  Cardinality(StartedFrom(p)) <= 1
    BY DEF StartOnce
  <2>1. \A q \in StartedFrom(p), r \in StartedFrom(p) : q = r
    BY DEF DeskInv, Once, OneByOne
  <2>2. CASE StartedFrom(p) = {}
    BY <2>2, FS_EmptySet
  <2>3. CASE StartedFrom(p) # {}
    <3>1. PICK r \in StartedFrom(p) : StartedFrom(p) = {r}
      BY <2>1, <2>3
    <3>2. QED
      BY <3>1, FS_Singleton
  <2>4. QED
    BY <2>2, <2>3
<1>2. QED
  BY <1>1, InvariantHolds, PTL
=============================================================================
