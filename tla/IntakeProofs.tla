---------------------------- MODULE IntakeProofs ----------------------------
(***************************************************************************)
(* Proofs about Intake for any hosts, messages, starts and faults.         *)
(*                                                                         *)
(* NothingSkipped needs to know what a drain has in hand: Behind says that *)
(* what lies before a message in hand is dealt with or in hand too.        *)
(* CookOnce needs that a claimed message is in one place only until it is  *)
(* recorded or submitted (Apart), that nothing was recorded or submitted   *)
(* for it yet (HeldFresh), and that a host which replays rows meets none   *)
(* of those (DueNotHeld); besides that of the jobs of a message one at     *)
(* most is not over (OneLive), that a starting host finds none (Placed),   *)
(* and that a cooked message is never submitted again (CookedOver).  None  *)
(* of this holds of a message whose claim raised (slipped): it may be read *)
(* and taken on again at any time.                                         *)
(***************************************************************************)
EXTENDS Intake, Integers, FiniteSetTheorems, TLAPS

USE DEF Met, histVars

\* What is claimed or in hand has been posted.
Shape ==
    /\ ConstantsOK /\ TypeOK
    /\ Met \subseteq 1..posted
    /\ \A h \in Hosts : /\ whisper[h] \cup ready[h] \subseteq Met
                        /\ \A e \in batch[h] : e.msg \in 1..posted

Working == {"claimed", "recorded", "advance"}

\* Where a host is in its loop says what it has in hand.
Placed(h) ==
    /\ hpc[h] \in {"off", "stale", "list", "poll"} => batch[h] = {}
    /\ hpc[h] \in Working => batch[h] # {}
    /\ hpc[h] \in {"claimed", "recorded"} => Cur(h) \in Met
    /\ hpc[h] = "advance" => Handled(Cur(h))
    /\ hpc[h] = "replay" => \A e \in batch[h] : e.msg \in Met /\ ~e.memo
    /\ Listening(h) => gateway = h
    /\ ~Listening(h) => whisper[h] = {} /\ ready[h] = {}

Before1(m) == \A k \in 1..(m - 1) : Handled(k)

\* All that was posted before a message in hand is dealt with, or in hand.
Behind(h) ==
    /\ \A m \in whisper[h] \cup ready[h] : Before1(m)
    /\ Listening(h) => \A e \in batch[h] :
         IF e.memo THEN e.msg \in Met /\ Before1(e.msg)
         ELSE \A k \in 1..(e.msg - 1) : Handled(k) \/ [msg |-> k, memo |-> FALSE] \in batch[h]

\* The messages a host has claimed and not yet recorded or submitted.
Rest(h)  == IF hpc[h] \in Working THEN batch[h] \ {First(batch[h])} ELSE batch[h]
Memos(h) == {m \in Msgs : [msg |-> m, memo |-> TRUE] \in Rest(h)}
Taken(h) == IF hpc[h] = "claimed" THEN {Cur(h)} ELSE {}
Held(h)  == whisper[h] \cup ready[h] \cup Memos(h) \cup Taken(h)

Apart(h) ==
    /\ whisper[h] \cap ready[h] \subseteq slipped
    /\ Memos(h) \cap (whisper[h] \cup ready[h]) \subseteq slipped
    /\ Taken(h) \cap (whisper[h] \cup ready[h] \cup Memos(h)) \subseteq slipped

Fresh(m) == m \in slipped \/ (m \notin rows /\ jobs[m] = <<>>)

HeldFresh  == \A h \in Hosts : \A m \in Held(h) : m \in Met /\ Fresh(m)
UnseenNew  == \A m \in Msgs \ Met : jobs[m] = <<>>
Due(h)     == CASE hpc[h] = "replay" -> {e.msg : e \in batch[h]}
                [] hpc[h] = "recorded" -> {Cur(h)}
                [] OTHER -> {}
DueNotHeld == \A g, h \in Hosts : Due(g) \cap Held(h) \subseteq slipped

DrainInv ==
    /\ Shape /\ NothingSkipped
    /\ \A h \in Hosts : Placed(h) /\ Behind(h) /\ Apart(h)
    /\ HeldFresh /\ UnseenNew /\ DueNotHeld

-----------------------------------------------------------------------------
Live(m, i)   == i \in DOMAIN jobs[m] /\ jobs[m][i].pc \notin Ended
Cooked(m, i) == i \in DOMAIN jobs[m] /\ jobs[m][i].cooked

\* A job dies with its host, so a host that starts has none.
LiveUp == \A m \in Msgs : \A i \in DOMAIN jobs[m] :
            Live(m, i) => hpc[jobs[m][i].host] \notin {"off", "stale", "list"}

\* Only a fork's job has no row to drop.
RowKinds ==
    /\ \A m \in rows : kind[m] # "fork"
    /\ \A m \in Msgs : \A i \in DOMAIN jobs[m] :
         jobs[m][i].path = "anon" => m \in Met /\ kind[m] = "fork"

Sole == \A g, h \in Hosts : Up(g) /\ Up(h) => g = h

\* At most one job of a message is not over, and none while one is still due.
OneLive == \A m \in Msgs \ slipped : \A i, j \in DOMAIN jobs[m] :
             /\ Live(m, i) /\ Live(m, j) => i = j
             /\ Live(m, i) => \A h \in Hosts : m \notin Due(h)

\* A message that was cooked is neither remembered nor due, and no other job cooks it.
CookedOver == \A m \in Msgs \ slipped : \A i \in DOMAIN jobs[m] : Cooked(m, i) =>
                /\ m \notin rows /\ \A h \in Hosts : m \notin Due(h)
                /\ \A j \in DOMAIN jobs[m] : Cooked(m, j) \/ Live(m, j) => j = i

OnceInv ==
    /\ LiveUp /\ RowKinds
    /\ ~overlap => Sole /\ OneLive /\ CookedOver

-----------------------------------------------------------------------------
(* LeastNat: a set of numbers has a least one.  (The strict subsets of the   *)
(* finite sets 0..(n - 1) are well-founded.)                                 *)
LEMMA LeastNat ==
    ASSUME NEW S \in SUBSET Nat, S # {}
    PROVE  \E n \in S : \A m \in S : n <= m
<1> DEFINE Below == {0..(n - 1) : n \in S}
<1>1. Below \subseteq FiniteSubsetsOf(Nat) /\ Below # {}
  <2>1. ASSUME NEW n \in S PROVE IsFiniteSet(0..(n - 1)) /\ 0..(n - 1) \subseteq Nat
    <3>1. 0 \in Int /\ n - 1 \in Int
      OBVIOUS
    <3>2. QED
      BY <3>1, FS_Interval
  <2>2. QED
    BY <2>1 DEF FiniteSubsetsOf
<1>2. \E x \in Below : \A y \in Below : ~ (<<y, x>> \in StrictSubsetOrdering(Nat))
  <2> HIDE DEF Below
  <2>1. QED
    BY <1>1, WFMin, FS_StrictSubsetOrderingWellFounded
<1>3. PICK n \in S : \A m \in S : ~ (<<0..(m - 1), 0..(n - 1)>> \in StrictSubsetOrdering(Nat))
  BY <1>2
<1>4. ASSUME NEW m \in S, m < n PROVE FALSE
  <2>1. <<0..(m - 1), 0..(n - 1)>> \in StrictSubsetOrdering(Nat)
    BY <1>4 DEF StrictSubsetOrdering
  <2>2. QED
    BY <2>1, <1>3
<1>5. QED
  BY <1>4

(* FirstLeast: of what a host has in hand one entry is the first.            *)
LEMMA FirstLeast ==
    ASSUME NEW S \in SUBSET [msg : Msgs, memo : BOOLEAN], S # {}
    PROVE  First(S) \in S /\ \A f \in S \ {First(S)} : Before(First(S), f)
<1>1. ASSUME NEW T \in SUBSET S, T # {}, NEW b \in BOOLEAN, \A e \in T : e.memo = b
      PROVE  \E e \in T : \A f \in T \ {e} : e.msg < f.msg
  <2> DEFINE N == {e.msg : e \in T}
  <2>1. N \in SUBSET Nat /\ N # {}
    BY <1>1 DEF Msgs
  <2>2. PICK n \in N : \A m \in N : n <= m
    <3> HIDE DEF N
    <3>1. QED
      BY <2>1, LeastNat
  <2>3. PICK e \in T : e.msg = n
    BY <2>2
  <2>4. ASSUME NEW f \in T, f # e PROVE e.msg < f.msg
    <3>1. e = [msg |-> e.msg, memo |-> e.memo] /\ f = [msg |-> f.msg, memo |-> f.memo]
      BY <1>1
    <3>2. e.memo = f.memo
      BY <1>1
    <3>3. e.msg # f.msg
      BY <3>1, <3>2, <2>4
    <3>4. e.msg <= f.msg /\ e.msg \in Nat /\ f.msg \in Nat
      BY <2>2, <2>3 DEF Msgs
    <3>5. QED
      BY <3>3, <3>4
  <2>5. QED
    BY <2>4
<1>2. \E e \in S : \A f \in S \ {e} : Before(e, f)
  <2>1. CASE \E e \in S : e.memo
    <3>1. PICK e \in {f \in S : f.memo} : \A f \in {g \in S : g.memo} \ {e} : e.msg < f.msg
      <4>1. {f \in S : f.memo} # {} /\ \A e \in {f \in S : f.memo} : e.memo = TRUE
        BY <2>1
      <4>2. QED
        BY <4>1, <1>1
    <3>2. QED
      BY <3>1 DEF Before
  <2>2. CASE ~\E e \in S : e.memo
    <3>1. \A e \in S : e.memo = FALSE
      BY <2>2
    <3>2. PICK e \in S : \A f \in S \ {e} : e.msg < f.msg
      BY <3>1, <1>1
    <3>3. QED
      BY <3>1, <3>2 DEF Before
  <2>3. QED
    BY <2>1, <2>2
<1>3. QED
  BY <1>2 DEF First

(* CurFacts: the entry a host handles, and what is left when it is dropped.  *)
LEMMA CurFacts ==
    ASSUME Shape, NEW h \in Hosts, batch[h] # {}
    PROVE  /\ First(batch[h]) \in batch[h] /\ Preclaimed(h) \in BOOLEAN
           /\ First(batch[h]) = [msg |-> Cur(h), memo |-> Preclaimed(h)]
           /\ Cur(h) \in Msgs /\ Cur(h) \in 1..posted /\ Cur(h) \in Nat
           /\ \A f \in batch[h] \ {First(batch[h])} : Before(First(batch[h]), f)
<1>1. batch[h] \in SUBSET [msg : Msgs, memo : BOOLEAN]
  BY DEF Shape, TypeOK
<1>2. First(batch[h]) \in batch[h] /\ \A f \in batch[h] \ {First(batch[h])} : Before(First(batch[h]), f)
  BY <1>1, FirstLeast
<1>3. First(batch[h]) \in [msg : Msgs, memo : BOOLEAN]
  BY <1>1, <1>2
<1>4. QED
  BY <1>2, <1>3 DEF Cur, Preclaimed, Shape, Msgs

-----------------------------------------------------------------------------
(* JobSet: a job that goes on stays where it is.                             *)
JobChanges(m, i, r) == jobs' = [jobs EXCEPT ![m] = [jobs[m] EXCEPT ![i] = r]]

LEMMA JobSet ==
    ASSUME Shape, NEW m \in Msgs, NEW i \in DOMAIN jobs[m], NEW r \in JobRecords,
           JobChanges(m, i, r)
    PROVE  /\ jobs' \in [Msgs -> Seq(JobRecords)]
           /\ \A n \in Msgs : DOMAIN jobs'[n] = DOMAIN jobs[n] /\ (jobs[n] = <<>> <=> jobs'[n] = <<>>)
           /\ \A n \in Msgs : \A j \in DOMAIN jobs[n] :
                jobs'[n][j] = IF n = m /\ j = i THEN r ELSE jobs[n][j]
<1>1. jobs \in [Msgs -> Seq(JobRecords)]
  BY DEF Shape, TypeOK
<1>2. [jobs[m] EXCEPT ![i] = r] \in Seq(JobRecords)
  BY <1>1
<1>3. \A n \in Msgs : jobs'[n] = IF n = m THEN [jobs[m] EXCEPT ![i] = r] ELSE jobs[n]
  BY <1>1 DEF JobChanges
<1>4. jobs[m] # <<>>
  BY <1>1
<1>5. QED
  BY <1>1, <1>2, <1>3, <1>4 DEF JobChanges

(* JobAdd: a job that is submitted is the last of its message.               *)
LEMMA JobAdd ==
    ASSUME Shape, NEW h \in Hosts, NEW m \in Msgs, NEW path \in Paths, Submit(h, m, path)
    PROVE  /\ jobs' \in [Msgs -> Seq(JobRecords)]
           /\ \A n \in Msgs \ {m} : jobs'[n] = jobs[n]
           /\ DOMAIN jobs'[m] = DOMAIN jobs[m] \cup {Len(jobs[m]) + 1}
           /\ Len(jobs[m]) + 1 \notin DOMAIN jobs[m]
           /\ jobs'[m][Len(jobs[m]) + 1] = NewJob(h, path)
           /\ \A j \in DOMAIN jobs[m] : jobs'[m][j] = jobs[m][j]
           /\ jobs'[m] # <<>>
<1>1. jobs \in [Msgs -> Seq(JobRecords)]
  BY DEF Shape, TypeOK
<1>2. NewJob(h, path) \in JobRecords
  BY DEF NewJob, JobRecords, Waiting
<1>3. jobs' = [jobs EXCEPT ![m] = Append(jobs[m], NewJob(h, path))]
  BY DEF Submit
<1>4. QED
  BY <1>1, <1>2, <1>3

(* JobsInPlace: FailStale and the end of a host change jobs where they are.  *)
InPlace == jobs' = [m \in Msgs |-> [i \in DOMAIN jobs[m] |-> jobs'[m][i]]]

LEMMA JobsInPlace ==
    ASSUME Shape, InPlace,
           \A m \in Msgs : \A i \in DOMAIN jobs[m] : jobs'[m][i] \in JobRecords
    PROVE  /\ jobs' \in [Msgs -> Seq(JobRecords)]
           /\ \A n \in Msgs : DOMAIN jobs'[n] = DOMAIN jobs[n] /\ (jobs[n] = <<>> <=> jobs'[n] = <<>>)
<1> DEFINE new(n) == [i \in DOMAIN jobs[n] |-> jobs'[n][i]]
<1>1. jobs \in [Msgs -> Seq(JobRecords)]
  BY DEF Shape, TypeOK
<1>2. ASSUME NEW n \in Msgs
      PROVE  new(n) \in Seq(JobRecords) /\ DOMAIN new(n) = DOMAIN jobs[n]
             /\ (jobs[n] = <<>> <=> new(n) = <<>>)
  <2>1. DOMAIN jobs[n] = 1..Len(jobs[n]) /\ Len(jobs[n]) \in Nat
    BY <1>1
  <2>2. \A i \in 1..Len(jobs[n]) : jobs'[n][i] \in JobRecords
    BY <2>1
  <2>3. QED
    BY <2>1, <2>2
<1>3. jobs' = [n \in Msgs |-> new(n)]
  BY DEF InPlace
<1>4. QED
  <2> HIDE DEF new
  <2>1. \A n \in Msgs : jobs'[n] = new(n)
    BY <1>3
  <2>2. QED
    BY <1>2, <1>3, <2>1

-----------------------------------------------------------------------------
\* A step of one host: the others are where they were.
Only(h) ==
    \A g \in Hosts \ {h} : /\ hpc'[g] = hpc[g] /\ batch'[g] = batch[g]
                            /\ whisper'[g] = whisper[g] /\ ready'[g] = ready[g]

\* What is claimed, taken on or passed over stays so.
Grows == seen \subseteq seen' /\ slipped \subseteq slipped' /\ \A m : Handled(m) => Handled(m)'

LEMMA GrowsBy ==
    ASSUME Shape, seen \subseteq seen', paused \subseteq paused', slipped \subseteq slipped',
           \A m \in Msgs : jobs'[m] = <<>> => jobs[m] = <<>>,
           \A m \in slipped : kind'[m] = kind[m]
    PROVE  Grows
<1>1. slipped \subseteq Msgs
  BY DEF Shape, TypeOK
<1>2. QED
  BY <1>1 DEF Grows, Handled

LEMMA SkippedStays ==
    ASSUME NothingSkipped, Grows, watermark' = watermark
    PROVE  NothingSkipped'
  BY DEF NothingSkipped, Grows

(* Others: what is known of a host outlasts the steps of the others.         *)
LEMMA Others ==
    ASSUME NEW g \in Hosts, Placed(g), Behind(g), Apart(g), Grows,
           hpc'[g] = hpc[g], batch'[g] = batch[g], whisper'[g] = whisper[g], ready'[g] = ready[g],
           Listening(g) => gateway' = g
    PROVE  /\ Placed(g)' /\ Behind(g)' /\ Apart(g)' /\ Held(g)' = Held(g) /\ Due(g)' = Due(g)
<1> USE DEF Grows, Listening, Cur
<1>1. Placed(g)'
  BY DEF Placed
<1>2. Behind(g)'
  BY DEF Behind, Before1
<1>3. Rest(g)' = Rest(g) /\ Memos(g)' = Memos(g) /\ Taken(g)' = Taken(g)
  BY DEF Rest, Memos, Taken
<1>4. Apart(g)' /\ Held(g)' = Held(g)
  BY <1>3 DEF Apart, Held
<1>5. Due(g)' = Due(g)
  BY DEF Due
<1>6. QED
  BY <1>1, <1>2, <1>4, <1>5

(* HeldByReader: only the host that listens has messages to record or submit,*)
(* and there is one such host.                                               *)
LEMMA HeldByReader ==
    ASSUME Shape, \A h \in Hosts : Placed(h)
    PROVE  /\ \A h \in Hosts : Held(h) # {} => Listening(h)
           /\ OneListener
<1>1. ASSUME NEW h \in Hosts, ~Listening(h) PROVE Held(h) = {}
  <2>1. whisper[h] = {} /\ ready[h] = {} /\ hpc[h] \in {"off", "stale", "list", "replay"}
    BY <1>1 DEF Placed, Listening, Shape, TypeOK
  <2>2. Taken(h) = {} /\ Rest(h) = batch[h]
    BY <2>1 DEF Taken, Rest, Working
  <2>3. Memos(h) = {}
    BY <2>1, <2>2 DEF Memos, Placed
  <2>4. QED
    BY <2>1, <2>2, <2>3 DEF Held
<1>2. OneListener
  BY DEF OneListener, Placed
<1>3. QED
  BY <1>1, <1>2

\* What DrainInv says of hosts and the messages they hold.
HostsInv ==
    /\ \A h \in Hosts : Placed(h) /\ Behind(h) /\ Apart(h)
    /\ HeldFresh /\ UnseenNew /\ DueNotHeld

(* DueSeen: what a host has still to submit was claimed.                     *)
LEMMA DueSeen ==
    ASSUME NEW h \in Hosts, Placed(h)
    PROVE  Due(h) \subseteq Met
  BY DEF Due, Placed

(* JointDrain: a step of the host that drains concerns the others only by    *)
(* what it newly holds, which nobody has seen, and by what it has to submit. *)
LEMMA JointDrain ==
    ASSUME Shape, HostsInv, NEW h \in Hosts, Listening(h), Only(h), Grows, gateway' = gateway,
           Placed(h)', Behind(h)', Apart(h)',
           \A m \in Held(h)' :
             m \in Met' /\ Fresh(m)' /\ (m \in Held(h) \/ m \notin Met \/ m \in slipped'),
           UnseenNew', Due(h)' \cap Held(h)' \subseteq slipped'
    PROVE  HostsInv'
<1> USE DEF HostsInv
<1>1. \A g \in Hosts \ {h} : /\ Placed(g)' /\ Behind(g)' /\ Apart(g)'
                             /\ Held(g)' = Held(g) /\ Due(g)' = Due(g)
  <2>1. \A g \in Hosts : Listening(g) => gateway' = g
    BY DEF Placed
  <2>2. QED
    BY <2>1, Others DEF Only
<1>2. \A g \in Hosts \ {h} : Held(g) = {}
  BY HeldByReader DEF OneListener
<1>3. HeldFresh'
  BY <1>1, <1>2 DEF HeldFresh
<1>4. DueNotHeld'
  <2>1. ASSUME NEW g \in Hosts, NEW k \in Hosts
        PROVE  Due(g)' \cap Held(k)' \subseteq slipped'
    <3>1. CASE k # h
      BY <1>1, <1>2, <3>1
    <3>2. CASE k = h /\ g # h
      <4>1. Due(g)' = Due(g) /\ Due(g) \subseteq Met
        BY <1>1, <3>2, DueSeen
      <4>2. Due(g) \cap Held(h) \subseteq slipped'
        BY DEF DueNotHeld, Grows
      <4>3. QED
        BY <4>1, <4>2, <3>2
    <3>3. QED
      BY <3>1, <3>2
  <2>2. QED
    BY <2>1 DEF DueNotHeld
<1>5. QED
  BY <1>1, <1>3, <1>4

(* JointStart: a host that is not in its loop holds nothing, and what it     *)
(* submits nobody holds.                                                     *)
LEMMA JointStart ==
    ASSUME Shape, HostsInv, NEW h \in Hosts, Only(h), Grows,
           \A g \in Hosts \ {h} : Listening(g) => gateway' = g,
           Placed(h)', hpc'[h] \in {"off", "stale", "list", "replay", "poll"},
           whisper'[h] = {}, ready'[h] = {},
           \A m \in Msgs : Fresh(m) /\ ~Fresh(m)' => \A g \in Hosts : m \notin Held(g),
           UnseenNew', \A g \in Hosts : Due(h)' \cap Held(g) \subseteq slipped
    PROVE  HostsInv'
<1> USE DEF HostsInv
<1>1. \A g \in Hosts \ {h} : /\ Placed(g)' /\ Behind(g)' /\ Apart(g)'
                             /\ Held(g)' = Held(g) /\ Due(g)' = Due(g)
  BY Others DEF Only
<1>2. Held(h)' = {}
  <2>1. Taken(h)' = {} /\ Rest(h)' = batch'[h]
    BY DEF Taken, Rest, Working
  <2>2. Memos(h)' = {}
    BY <2>1 DEF Memos, Placed
  <2>3. QED
    BY <2>1, <2>2 DEF Held
<1>3. Apart(h)' /\ Behind(h)'
  <2>1. Apart(h)'
    BY <1>2 DEF Apart, Held
  <2>2. Behind(h)'
    BY DEF Behind, Listening, Placed
  <2>3. QED
    BY <2>1, <2>2
<1>4. HeldFresh'
  <2>1. ASSUME NEW g \in Hosts, NEW m \in Held(g)' PROVE m \in Met' /\ Fresh(m)'
    <3>1. m \in Held(g) /\ m \in Met /\ Fresh(m)
      BY <2>1, <1>1, <1>2 DEF HeldFresh
    <3>2. m \in Msgs
      BY <3>1 DEF Shape, TypeOK
    <3>3. QED
      BY <3>1, <3>2 DEF Grows
  <2>2. QED
    BY <2>1 DEF HeldFresh
<1>5. DueNotHeld'
  BY <1>1, <1>2 DEF DueNotHeld, Grows
<1>6. QED
  BY <1>1, <1>3, <1>4, <1>5

-----------------------------------------------------------------------------
(* FrameStep: a message that is posted, or a switch, touches no host.        *)
LEMMA FrameStep ==
    ASSUME DrainInv, \/ \E k \in Kinds : Post(k)
                     \/ SetHalted
                     \/ UNCHANGED vars
    PROVE  DrainInv'
<1> USE DEF storeVars, memVars, vars
<1>1. UNCHANGED <<storeVars, memVars, jobs, histVars, starts, faults>>
  BY DEF Post, SetHalted
<1>2. /\ kind' \in Seq(Kinds) /\ posted' <= MaxMsgs /\ posted' \in Nat /\ posted <= posted'
      /\ halted' \in BOOLEAN
  <2>1. kind \in Seq(Kinds) /\ posted <= MaxMsgs /\ posted \in Nat /\ halted \in BOOLEAN
    BY DEF DrainInv, Shape, TypeOK, posted
  <2>2. ASSUME NEW k \in Kinds, Post(k)
        PROVE  /\ kind' \in Seq(Kinds) /\ posted' = posted + 1 /\ posted < MaxMsgs
               /\ halted' = halted
    BY <2>1, <2>2 DEF Post, posted
  <2>3. ASSUME SetHalted \/ UNCHANGED vars
        PROVE  kind' = kind /\ posted' = posted /\ halted' \in BOOLEAN
    BY <2>1, <2>3 DEF SetHalted, posted
  <2>4. QED
    BY <2>1, <2>2, <2>3 DEF DrainInv, Shape, ConstantsOK
<1>3. Shape'
  <2>1. watermark \in 0..posted' /\ 1..posted \subseteq 1..posted'
    BY <1>2 DEF DrainInv, Shape, TypeOK, posted
  <2>2. QED
    BY <1>1, <1>2, <2>1 DEF DrainInv, Shape, TypeOK
<1>4. Grows /\ NothingSkipped'
  <2>1. \A m \in Met : kind'[m] = kind[m]
    <3>1. kind \in Seq(Kinds) /\ Met \subseteq 1..Len(kind)
      BY DEF DrainInv, Shape, TypeOK, posted
    <3>2. kind' = kind \/ \E k \in Kinds : kind' = Append(kind, k)
      BY DEF Post, SetHalted
    <3>3. QED
      BY <3>1, <3>2
  <2>2. QED
    BY <1>1, <2>1, GrowsBy, SkippedStays DEF DrainInv
<1>5. \A h \in Hosts : /\ Placed(h)' /\ Behind(h)' /\ Apart(h)'
                       /\ Held(h)' = Held(h) /\ Due(h)' = Due(h)
  <2>1. \A h \in Hosts : Listening(h) => gateway' = h
    BY <1>1 DEF DrainInv, Placed
  <2>2. QED
    BY <1>1, <1>4, <2>1, Others DEF DrainInv
<1>6. (HeldFresh /\ UnseenNew /\ DueNotHeld)'
  BY <1>1, <1>5 DEF DrainInv, HeldFresh, UnseenNew, DueNotHeld, Fresh
<1>7. QED
  BY <1>3, <1>4, <1>5, <1>6 DEF DrainInv

(* HostStartInv, ..., DieInv: a host starts, lists and replays its rows,     *)
(* claims the gateway, and dies.                                             *)
LEMMA HostStartInv == ASSUME DrainInv, NEW h \in Hosts, HostStart(h) PROVE DrainInv'
<1> USE DEF storeVars, HostsInv
<1>1. hpc[h] = "off" /\ batch[h] = {} /\ whisper[h] = {} /\ ready[h] = {}
  BY DEF DrainInv, HostStart, Up, Placed, Listening
<1>2. hpc' = [hpc EXCEPT ![h] = "stale"]
  BY DEF HostStart
<1>3. Only(h) /\ hpc'[h] = "stale"
  BY <1>2 DEF HostStart, Only, DrainInv, Shape, TypeOK
<1>4. Shape'
  <2>1. starts' \in 0..MaxStarts /\ overlap' \in BOOLEAN
    BY DEF ConstantsOK, HostStart, DrainInv, Shape, TypeOK
  <2>2. QED
    BY <2>1 DEF HostStart, DrainInv, Shape, TypeOK, posted
<1>5. Placed(h)' /\ Due(h)' = {}
  BY <1>1, <1>3 DEF HostStart, Placed, Listening, Working, Due
<1>6. Grows /\ NothingSkipped' /\ (\A g \in Hosts \ {h} : Listening(g) => gateway' = g) /\ UnseenNew'
  <2>1. Grows
    BY GrowsBy DEF HostStart, DrainInv
  <2>2. QED
    BY <2>1, SkippedStays DEF HostStart, DrainInv, UnseenNew, Placed
<1>7. \A m \in Msgs : Fresh(m) => Fresh(m)'
  BY DEF HostStart, Fresh
<1>8. QED
  BY <1>1, <1>3, <1>4, <1>5, <1>6, <1>7, JointStart DEF DrainInv, HostStart

LEMMA FailStaleInv == ASSUME DrainInv, NEW h \in Hosts, FailStale(h) PROVE DrainInv'
<1> USE DEF storeVars, HostsInv
<1>1. hpc[h] = "stale" /\ batch[h] = {} /\ whisper[h] = {} /\ ready[h] = {}
  BY DEF DrainInv, FailStale, Placed, Listening
<1>2. hpc' = [hpc EXCEPT ![h] = "list"]
  BY DEF FailStale
<1>3. Only(h) /\ hpc'[h] = "list"
  BY <1>2 DEF FailStale, Only, DrainInv, Shape, TypeOK
<1>4. /\ jobs' \in [Msgs -> Seq(JobRecords)]
      /\ \A m \in Msgs : DOMAIN jobs'[m] = DOMAIN jobs[m] /\ (jobs[m] = <<>> <=> jobs'[m] = <<>>)
  <2>1. jobs' = [m \in Msgs |-> [i \in DOMAIN jobs[m] |->
                   IF jobs[m][i].run = "running"
                   THEN [jobs[m][i] EXCEPT !.run = "failed"] ELSE jobs[m][i]]]
    BY DEF FailStale
  <2>2. InPlace
    BY <2>1 DEF InPlace
  <2>3. ASSUME NEW m \in Msgs, NEW i \in DOMAIN jobs[m] PROVE jobs'[m][i] \in JobRecords
    <3>1. jobs[m][i] \in JobRecords
      BY DEF DrainInv, Shape, TypeOK
    <3>2. [jobs[m][i] EXCEPT !.run = "failed"] \in JobRecords
      BY <3>1 DEF JobRecords
    <3>3. QED
      BY <2>1, <3>1, <3>2
  <2>4. QED
    BY <2>2, <2>3, JobsInPlace DEF DrainInv
<1>5. Shape'
  BY <1>4 DEF FailStale, DrainInv, Shape, TypeOK, posted
<1>6. Placed(h)' /\ Due(h)' = {}
  BY <1>1, <1>3 DEF FailStale, Placed, Listening, Working, Due
<1>7. Grows /\ NothingSkipped' /\ (\A g \in Hosts \ {h} : Listening(g) => gateway' = g) /\ UnseenNew'
  <2>1. Grows
    BY <1>4, GrowsBy DEF FailStale, DrainInv
  <2>2. QED
    BY <1>4, <2>1, SkippedStays DEF FailStale, DrainInv, UnseenNew, Placed
<1>8. \A m \in Msgs : Fresh(m) => Fresh(m)'
  BY <1>4 DEF FailStale, Fresh
<1>9. QED
  BY <1>1, <1>3, <1>5, <1>6, <1>7, <1>8, JointStart DEF DrainInv, FailStale

LEMMA ListRowsInv == ASSUME DrainInv, NEW h \in Hosts, ListRows(h) PROVE DrainInv'
<1> USE DEF storeVars, HostsInv
<1>1. hpc[h] = "list" /\ batch[h] = {} /\ whisper[h] = {} /\ ready[h] = {}
  BY DEF DrainInv, ListRows, Placed, Listening
<1>2. hpc' = [hpc EXCEPT ![h] = "replay"] /\ batch' = [batch EXCEPT ![h] = Entries(rows, FALSE)]
  BY DEF ListRows
<1>3. Only(h) /\ hpc'[h] = "replay" /\ batch'[h] = Entries(rows, FALSE)
  BY <1>2 DEF ListRows, Only, DrainInv, Shape, TypeOK
<1>4. /\ Entries(rows, FALSE) \in SUBSET [msg : Msgs, memo : BOOLEAN]
      /\ \A e \in Entries(rows, FALSE) : e.msg \in rows /\ ~e.memo /\ e.msg \in 1..posted
  <2>1. rows \subseteq Msgs /\ rows \subseteq 1..posted
    BY DEF DrainInv, Shape, TypeOK
  <2>2. ASSUME NEW e \in Entries(rows, FALSE)
        PROVE  /\ e \in [msg : Msgs, memo : BOOLEAN]
               /\ e.msg \in rows /\ ~e.memo /\ e.msg \in 1..posted
    <3>1. PICK m \in rows : e = [msg |-> m, memo |-> FALSE]
      BY DEF Entries
    <3>2. m \in Msgs /\ m \in 1..posted
      BY <2>1
    <3>3. QED
      BY <3>1, <3>2
  <2>3. QED
    BY <2>2
<1>5. Shape'
  BY <1>2, <1>4 DEF ListRows, DrainInv, Shape, TypeOK, posted
<1>6. Placed(h)'
  BY <1>1, <1>3, <1>4 DEF ListRows, Placed, Listening, Working, DrainInv, Shape, TypeOK
<1>7. \A g \in Hosts : Due(h)' \cap Held(g) \subseteq slipped
  <2>1. Due(h)' \subseteq rows
    BY <1>3, <1>4 DEF Due
  <2>2. QED
    BY <2>1 DEF DrainInv, HeldFresh, Fresh
<1>8. Grows /\ NothingSkipped' /\ (\A g \in Hosts \ {h} : Listening(g) => gateway' = g) /\ UnseenNew'
  <2>1. Grows
    BY GrowsBy DEF ListRows, DrainInv
  <2>2. QED
    BY <2>1, SkippedStays DEF ListRows, DrainInv, UnseenNew, Placed
<1>9. \A m \in Msgs : Fresh(m) => Fresh(m)'
  BY DEF ListRows, Fresh
<1>10. QED
  BY <1>1, <1>3, <1>5, <1>6, <1>7, <1>8, <1>9, JointStart DEF DrainInv, ListRows

LEMMA ListFailsInv == ASSUME DrainInv, NEW h \in Hosts, ListFails(h) PROVE DrainInv'
<1> USE DEF storeVars, HostsInv
<1>1. hpc[h] = "list" /\ batch[h] = {} /\ whisper[h] = {} /\ ready[h] = {}
  BY DEF DrainInv, ListFails, Placed, Listening
<1>2. /\ hpc' = [hpc EXCEPT ![h] = "replay"] /\ unlisted' \subseteq Msgs
      /\ faults' \in 0..MaxFaults
      /\ UNCHANGED <<kind, storeVars, halted, batch, whisper, ready, jobs, paused, slipped,
                     overlap, starts>>
  BY DEF ConstantsOK, ListFails, DrainInv, Shape, TypeOK
<1>3. Only(h) /\ hpc'[h] = "replay"
  BY <1>2 DEF Only, DrainInv, Shape, TypeOK
<1>4. Shape'
  BY <1>2 DEF DrainInv, Shape, TypeOK, posted
<1>5. Placed(h)' /\ Due(h)' = {}
  BY <1>1, <1>2, <1>3 DEF Placed, Listening, Working, Due
<1>6. Grows /\ NothingSkipped' /\ (\A g \in Hosts \ {h} : Listening(g) => gateway' = g) /\ UnseenNew'
  <2>1. Grows
    BY <1>2, GrowsBy DEF DrainInv
  <2>2. QED
    BY <1>2, <2>1, SkippedStays DEF DrainInv, UnseenNew, Placed
<1>7. \A m \in Msgs : Fresh(m) => Fresh(m)'
  BY <1>2 DEF Fresh
<1>8. QED
  BY <1>1, <1>2, <1>3, <1>4, <1>5, <1>6, <1>7, JointStart DEF DrainInv

\* A row is replayed: it goes, stays as it is, or stays and is submitted.
Replays(h) ==
    /\ At(h, "replay")
    /\ \/ rows' = rows \ {Cur(h)} /\ jobs' = jobs
       \/ rows' = rows /\ jobs' = jobs
       \/ rows' = rows /\ Submit(h, Cur(h), "claimed")
    /\ attempts' \in [Msgs -> Nat] /\ faults' \in 0..MaxFaults
    /\ Drop(h)
    /\ UNCHANGED <<kind, seen, watermark, gateway, halted, hpc, whisper, ready, histVars, starts>>

LEMMA ReplayFacts ==
    ASSUME Shape, NEW h \in Hosts, Replay(h) \/ ReplayUncounted(h) \/ GiveUpFails(h)
    PROVE  Replays(h)
<1>1. At(h, "replay") /\ Drop(h) /\ UNCHANGED replayFrame
  BY DEF Replay, ReplayUncounted, GiveUpFails
<1>2. Cur(h) \in Msgs
  BY <1>1, CurFacts DEF At
<1>3. attempts \in [Msgs -> Nat] /\ Attempt(Cur(h)) \in Nat
  BY <1>2 DEF Shape, TypeOK, Attempt
<1>4. [attempts EXCEPT ![Cur(h)] = Attempt(Cur(h))] \in [Msgs -> Nat]
  BY <1>2, <1>3
<1>5. attempts' \in [Msgs -> Nat]
  BY <1>3, <1>4 DEF Replay, ReplayUncounted, GiveUpFails
<1>6. faults' \in 0..MaxFaults
  BY DEF ConstantsOK, Shape, TypeOK, Replay, ReplayUncounted, GiveUpFails
<1>7. \/ rows' = rows \ {Cur(h)} /\ jobs' = jobs
      \/ rows' = rows /\ jobs' = jobs
      \/ rows' = rows /\ Submit(h, Cur(h), "claimed")
  BY DEF Replay, ReplayUncounted, GiveUpFails
<1>8. QED
  BY <1>1, <1>5, <1>6, <1>7 DEF Replays, replayFrame

LEMMA ReplayInv == ASSUME DrainInv, NEW h \in Hosts, Replays(h) PROVE DrainInv'
<1> USE DEF HostsInv
<1> DEFINE m == Cur(h)
           F == First(batch[h])
<1>1. /\ hpc[h] = "replay" /\ batch[h] # {} /\ ~Listening(h)
      /\ whisper[h] = {} /\ ready[h] = {} /\ m \in Met /\ m \in Msgs
      /\ F \in batch[h] /\ F = [msg |-> m, memo |-> FALSE]
      /\ \A e \in batch[h] : e.msg \in Met /\ ~e.memo
  <2>1. hpc[h] = "replay" /\ batch[h] # {} /\ ~Listening(h)
    BY DEF Replays, At, Listening
  <2>2. F \in batch[h] /\ F = [msg |-> m, memo |-> Preclaimed(h)] /\ m \in Msgs
    BY <2>1, CurFacts DEF DrainInv
  <2>3. ~F.memo /\ F.msg \in Met
    BY <2>1, <2>2 DEF DrainInv, Placed
  <2>4. Preclaimed(h) = FALSE
    BY <2>1, <2>3, CurFacts DEF Preclaimed, DrainInv
  <2>5. QED
    BY <2>1, <2>2, <2>3, <2>4 DEF DrainInv, Placed, Cur
<1>2. Only(h) /\ hpc'[h] = "replay" /\ batch'[h] = batch[h] \ {F}
      /\ whisper'[h] = {} /\ ready'[h] = {}
  <2>1. batch' = [batch EXCEPT ![h] = batch[h] \ {F}]
    BY DEF Replays, Drop
  <2>2. QED
    BY <1>1, <2>1 DEF Replays, Only, DrainInv, Shape, TypeOK
<1>3. m \in Due(h) /\ \A g \in Hosts : m \in Held(g) => m \in slipped
  <2>1. m \in Due(h)
    BY <1>1 DEF Due, Cur
  <2>2. QED
    BY <2>1 DEF DrainInv, DueNotHeld
<1>4. \/ rows' = rows \ {m} /\ jobs' = jobs
      \/ rows' = rows /\ jobs' = jobs
      \/ rows' = rows /\ Submit(h, m, "claimed")
  BY DEF Replays
<1>5. /\ jobs' \in [Msgs -> Seq(JobRecords)] /\ \A k \in Msgs \ {m} : jobs'[k] = jobs[k]
      /\ jobs'[m] = <<>> => jobs[m] = <<>>
  <2>1. CASE jobs' = jobs
    BY <2>1 DEF DrainInv, Shape, TypeOK
  <2>2. CASE Submit(h, m, "claimed")
    BY <2>2, <1>1, JobAdd DEF DrainInv, Paths
  <2>3. QED
    BY <2>1, <2>2, <1>4
<1>6. rows' \subseteq rows
  BY <1>4
<1>7. Shape'
  <2>1. batch' \in [Hosts -> SUBSET [msg : Msgs, memo : BOOLEAN]]
    BY DEF Replays, Drop, DrainInv, Shape, TypeOK
  <2>2. \A g \in Hosts : batch'[g] \subseteq batch[g]
    BY <1>2 DEF Only
  <2>3. /\ UNCHANGED <<kind, seen, watermark, gateway, halted, hpc, whisper, ready, histVars,
                       starts>>
        /\ attempts' \in [Msgs -> Nat] /\ faults' \in 0..MaxFaults
    BY DEF Replays
  <2>4. TypeOK'
    BY <2>1, <2>3, <1>5, <1>6 DEF DrainInv, Shape, TypeOK, posted
  <2>5. QED
    BY <2>2, <2>3, <2>4 DEF DrainInv, Shape, posted
<1>8. Grows /\ NothingSkipped'
  <2>1. Grows
    BY <1>5, GrowsBy DEF Replays, DrainInv
  <2>2. QED
    BY <2>1, SkippedStays DEF Replays, DrainInv
<1>9. Placed(h)'
  BY <1>1, <1>2 DEF Replays, Placed, Listening, Working
<1>10. \A g \in Hosts : Due(h)' \cap Held(g) \subseteq slipped
  <2>1. Due(h)' \subseteq Due(h)
    BY <1>1, <1>2 DEF Due
  <2>2. QED
    BY <2>1 DEF DrainInv, DueNotHeld
<1>11. \A g \in Hosts \ {h} : Listening(g) => gateway' = g
  BY DEF Replays, DrainInv, Placed
<1>12. UnseenNew'
  BY <1>1, <1>5 DEF Replays, DrainInv, UnseenNew
<1>13. \A k \in Msgs : Fresh(k) /\ ~Fresh(k)' => k = m /\ m \notin slipped
  BY <1>5, <1>6 DEF Fresh, Replays
<1>14. QED
  BY <1>2, <1>3, <1>7, <1>8, <1>9, <1>10, <1>11, <1>12, <1>13, JointStart DEF DrainInv

LEMMA ClaimGatewayInv == ASSUME DrainInv, NEW h \in Hosts, ClaimGateway(h) PROVE DrainInv'
<1> USE DEF HostsInv
<1>1. hpc[h] = "replay" /\ batch[h] = {} /\ whisper[h] = {} /\ ready[h] = {} /\ gateway = None
  BY DEF DrainInv, ClaimGateway, Placed, Listening
<1>2. hpc' = [hpc EXCEPT ![h] = "poll"]
  BY DEF ClaimGateway
<1>3. Only(h) /\ hpc'[h] = "poll" /\ gateway' = h
  BY <1>2 DEF ClaimGateway, Only, DrainInv, Shape, TypeOK
<1>4. Shape'
  BY <1>2 DEF ClaimGateway, DrainInv, Shape, TypeOK, posted
<1>5. Placed(h)' /\ Due(h)' = {}
  BY <1>1, <1>3 DEF ClaimGateway, Placed, Listening, Working, Due
<1>6. \A g \in Hosts : ~Listening(g)
  BY <1>1 DEF DrainInv, Shape, ConstantsOK, Placed
<1>7. Grows /\ NothingSkipped' /\ UnseenNew'
  <2>1. Grows
    BY GrowsBy DEF ClaimGateway, DrainInv
  <2>2. QED
    BY <2>1, SkippedStays DEF ClaimGateway, DrainInv, UnseenNew
<1>8. \A m \in Msgs : Fresh(m) => Fresh(m)'
  BY DEF ClaimGateway, Fresh
<1>9. QED
  BY <1>1, <1>3, <1>4, <1>5, <1>6, <1>7, <1>8, JointStart DEF DrainInv, ClaimGateway

\* The process ends, by a signal or refused by the gateway.
Ends(h) ==
    /\ Die(h)
    /\ UNCHANGED <<kind, seen, rows, attempts, watermark, halted, histVars, starts,
                   faults>>

LEMMA DieInv == ASSUME DrainInv, NEW h \in Hosts, Ends(h) PROVE DrainInv'
<1> USE DEF HostsInv
<1>1. /\ hpc' = [hpc EXCEPT ![h] = "off"] /\ batch' = [batch EXCEPT ![h] = {}]
      /\ whisper' = [whisper EXCEPT ![h] = {}] /\ ready' = [ready EXCEPT ![h] = {}]
      /\ gateway' = IF gateway = h THEN None ELSE gateway
  BY DEF Ends, Die
<1>2. Only(h) /\ hpc'[h] = "off" /\ batch'[h] = {} /\ whisper'[h] = {} /\ ready'[h] = {}
  BY <1>1 DEF Only, DrainInv, Shape, TypeOK
<1>3. /\ jobs' \in [Msgs -> Seq(JobRecords)]
      /\ \A m \in Msgs : DOMAIN jobs'[m] = DOMAIN jobs[m] /\ (jobs[m] = <<>> <=> jobs'[m] = <<>>)
  <2>1. jobs' = [m \in Msgs |-> [i \in DOMAIN jobs[m] |->
                   IF jobs[m][i].host = h /\ jobs[m][i].pc \notin Ended
                   THEN [jobs[m][i] EXCEPT !.pc = "killed"] ELSE jobs[m][i]]]
    BY DEF Ends, Die
  <2>2. InPlace
    BY <2>1 DEF InPlace
  <2>3. ASSUME NEW m \in Msgs, NEW i \in DOMAIN jobs[m] PROVE jobs'[m][i] \in JobRecords
    <3>1. jobs[m][i] \in JobRecords
      BY DEF DrainInv, Shape, TypeOK
    <3>2. [jobs[m][i] EXCEPT !.pc = "killed"] \in JobRecords
      BY <3>1 DEF JobRecords, Ended
    <3>3. QED
      BY <2>1, <3>1, <3>2
  <2>4. QED
    BY <2>2, <2>3, JobsInPlace DEF DrainInv
<1>4. Shape'
  <2>1. gateway' \in Hosts \cup {None}
    BY <1>1 DEF DrainInv, Shape, TypeOK
  <2>2. /\ hpc' \in [Hosts -> {"off", "stale", "list", "replay", "poll", "message", "claimed",
                               "recorded", "advance"}]
        /\ batch' \in [Hosts -> SUBSET [msg : Msgs, memo : BOOLEAN]]
        /\ whisper' \in [Hosts -> SUBSET Msgs] /\ ready' \in [Hosts -> SUBSET Msgs]
    BY <1>1 DEF DrainInv, Shape, TypeOK
  <2>3. \A g \in Hosts : batch'[g] \subseteq batch[g] /\ whisper'[g] \subseteq whisper[g]
                        /\ ready'[g] \subseteq ready[g]
    BY <1>2 DEF Only
  <2>4. TypeOK'
    BY <1>3, <2>1, <2>2 DEF Ends, DrainInv, Shape, TypeOK, posted
  <2>5. Shape'
    BY <2>3, <2>4 DEF Ends, DrainInv, Shape, posted
  <2>6. QED
    BY <2>5
<1>5. Placed(h)' /\ Due(h)' = {}
  BY <1>2 DEF Placed, Listening, Working, Due
<1>6. \A g \in Hosts \ {h} : Listening(g) => gateway' = g
  BY <1>1 DEF DrainInv, Placed
<1>7. Grows /\ NothingSkipped' /\ UnseenNew'
  <2>1. Grows
    BY <1>3, GrowsBy DEF Ends, DrainInv
  <2>2. QED
    BY <1>3, <2>1, SkippedStays DEF Ends, DrainInv, UnseenNew
<1>8. \A m \in Msgs : Fresh(m) => Fresh(m)'
  BY <1>3 DEF Ends, Fresh
<1>9. QED
  BY <1>2, <1>4, <1>5, <1>6, <1>7, <1>8, JointStart DEF DrainInv

-----------------------------------------------------------------------------
(* CurBefore: what was posted before the message a host handles is dealt     *)
(* with: it is the first in hand.                                            *)
LEMMA CurBefore ==
    ASSUME DrainInv, NEW h \in Hosts, Listening(h), batch[h] # {}
    PROVE  Before1(Cur(h)) /\ (Preclaimed(h) => Cur(h) \in Met)
<1> DEFINE F == First(batch[h])
<1>1. F \in batch[h] /\ F = [msg |-> Cur(h), memo |-> Preclaimed(h)] /\ Preclaimed(h) \in BOOLEAN
      /\ Cur(h) \in Nat /\ \A f \in batch[h] \ {F} : Before(F, f)
  BY CurFacts DEF DrainInv
<1>2. F.msg = Cur(h) /\ F.memo = Preclaimed(h)
  BY DEF Cur, Preclaimed
<1> HIDE DEF F
<1>3. IF Preclaimed(h) THEN Cur(h) \in Met /\ Before1(Cur(h))
      ELSE \A k \in 1..(Cur(h) - 1) : Handled(k) \/ [msg |-> k, memo |-> FALSE] \in batch[h]
  BY <1>1, <1>2 DEF DrainInv, Behind
<1>4. ASSUME ~Preclaimed(h), NEW k \in 1..(Cur(h) - 1) PROVE Handled(k)
  <2>1. ASSUME [msg |-> k, memo |-> FALSE] \in batch[h] PROVE FALSE
    <3>1. [msg |-> k, memo |-> FALSE] # F
      BY <1>1, <1>2, <1>4
    <3>2. Before(F, [msg |-> k, memo |-> FALSE])
      BY <1>1, <2>1, <3>1
    <3>3. F.msg < k
      BY <3>2, <1>2, <1>4 DEF Before
    <3>4. QED
      BY <3>3, <1>1, <1>2
  <2>2. QED
    BY <2>1, <1>3, <1>4
<1>5. QED
  BY <1>3, <1>4 DEF Before1

(* PollInv, ..., AdvanceFailsInv: the steps of a drain.                      *)
LEMMA PollInv == ASSUME DrainInv, NEW h \in Hosts, Poll(h) PROVE DrainInv'
<1> USE DEF storeVars, HostsInv
<1> DEFINE news == (watermark + 1)..posted
<1>1. hpc[h] = "poll" /\ batch[h] = {} /\ Listening(h) /\ gateway = h
  BY DEF Poll, DrainInv, Placed, Listening
<1>2. /\ hpc' = [hpc EXCEPT ![h] = "message"] /\ ready' = [ready EXCEPT ![h] = {}]
      /\ batch' = [batch EXCEPT ![h] = Entries(ready[h], TRUE) \cup Entries(news, FALSE)]
  BY DEF Poll
<1>3. Only(h) /\ hpc'[h] = "message" /\ ready'[h] = {} /\ whisper'[h] = whisper[h]
      /\ batch'[h] = Entries(ready[h], TRUE) \cup Entries(news, FALSE)
  BY <1>2 DEF Poll, Only, DrainInv, Shape, TypeOK
<1>4. /\ ready[h] \subseteq Msgs /\ ready[h] \subseteq 1..posted /\ ready[h] \subseteq Met
      /\ news \subseteq Msgs /\ news \subseteq 1..posted
      /\ watermark \in Nat /\ posted \in Nat /\ posted <= MaxMsgs /\ MaxMsgs \in Nat
  BY DEF ConstantsOK, DrainInv, Shape, TypeOK, posted, Msgs
<1>5. ASSUME NEW e \in batch'[h]
      PROVE  /\ e \in [msg : Msgs, memo : BOOLEAN] /\ e.msg \in 1..posted
             /\ IF e.memo THEN e.msg \in ready[h] ELSE e.msg \in news
  <2>1. CASE e \in Entries(ready[h], TRUE)
    <3>1. PICK m \in ready[h] : e = [msg |-> m, memo |-> TRUE]
      BY <2>1 DEF Entries
    <3>2. m \in Msgs /\ m \in 1..posted
      BY <1>4
    <3>3. QED
      BY <3>1, <3>2
  <2>2. CASE e \in Entries(news, FALSE)
    <3>1. PICK m \in news : e = [msg |-> m, memo |-> FALSE]
      BY <2>2 DEF Entries
    <3>2. m \in Msgs /\ m \in 1..posted
      BY <1>4
    <3>3. QED
      BY <3>1, <3>2
  <2>3. QED
    BY <2>1, <2>2, <1>3
<1>6. \A k \in news : [msg |-> k, memo |-> FALSE] \in batch'[h]
  BY <1>3 DEF Entries
<1> HIDE DEF news
<1>7. Shape'
  <2>1. Entries(ready[h], TRUE) \cup Entries(news, FALSE) \in SUBSET [msg : Msgs, memo : BOOLEAN]
    BY <1>3, <1>5
  <2>2. batch' \in [Hosts -> SUBSET [msg : Msgs, memo : BOOLEAN]]
    BY <1>2, <2>1 DEF DrainInv, Shape, TypeOK
  <2>3. TypeOK'
    BY <1>2, <2>2 DEF Poll, DrainInv, Shape, TypeOK, posted
  <2>4. posted' = posted
    BY DEF Poll, posted
  <2>5. \A g \in Hosts : \A e \in batch'[g] : e.msg \in 1..posted'
    BY <1>3, <1>5, <2>4 DEF Only, DrainInv, Shape
  <2>6. \A g \in Hosts : whisper'[g] \cup ready'[g] \subseteq Met'
    BY <1>3 DEF Poll, Only, DrainInv, Shape
  <2>7. QED
    BY <2>3, <2>4, <2>5, <2>6 DEF Poll, DrainInv, Shape
<1>8. NothingSkipped' /\ Grows /\ UnseenNew' /\ gateway' = gateway
  <2>1. Grows
    BY GrowsBy DEF Poll, DrainInv
  <2>2. QED
    BY <2>1, SkippedStays DEF Poll, DrainInv, UnseenNew
<1>9. Placed(h)'
  BY <1>1, <1>3, <1>8 DEF Placed, Listening, Working
<1>10. Behind(h)'
  <2>1. \A k : Handled(k) => Handled(k)'
    BY <1>8 DEF Grows
  <2>2. \A m \in whisper[h] \cup ready[h] : Before1(m)'
    BY <2>1 DEF DrainInv, Behind, Before1
  <2>3. ASSUME NEW e \in batch'[h]
        PROVE  IF e.memo THEN e.msg \in Met' /\ Before1(e.msg)'
               ELSE \A k \in 1..(e.msg - 1) :
                      Handled(k)' \/ [msg |-> k, memo |-> FALSE] \in batch'[h]
    <3>1. CASE e.memo
      BY <3>1, <1>4, <1>5, <2>2, <1>8 DEF Grows
    <3>2. CASE ~e.memo
      <4>1. e.msg \in news
        BY <3>2, <1>5
      <4>2. ASSUME NEW k \in 1..(e.msg - 1)
            PROVE  Handled(k) \/ [msg |-> k, memo |-> FALSE] \in batch'[h]
        <5>1. CASE k <= watermark
          BY <5>1, <4>1, <1>4 DEF DrainInv, NothingSkipped, news
        <5>2. CASE k > watermark
          <6>1. k \in news
            BY <5>2, <4>1, <1>4 DEF news
          <6>2. QED
            BY <6>1, <1>6
        <5>3. QED
          BY <5>1, <5>2, <4>1, <1>4 DEF news
      <4>3. QED
        BY <4>2, <2>1, <3>2
    <3>3. QED
      BY <3>1, <3>2
  <2>4. \A m \in whisper'[h] \cup ready'[h] : Before1(m)'
    BY <1>3, <2>2
  <2>5. QED
    BY <2>3, <2>4 DEF Behind
<1>11. Memos(h)' \subseteq ready[h] /\ Taken(h)' = {} /\ Due(h)' = {}
  <2>1. Rest(h)' = batch'[h] /\ Taken(h)' = {} /\ Due(h)' = {}
    BY <1>3 DEF Rest, Taken, Due, Working
  <2>2. QED
    BY <2>1, <1>5 DEF Memos
<1>12. Apart(h)'
  BY <1>3, <1>8, <1>11 DEF DrainInv, Apart, Grows
<1>13. \A m \in Held(h)' : m \in Met' /\ Fresh(m)' /\ m \in Held(h)
  <2>1. Held(h)' \subseteq Held(h)
    BY <1>3, <1>11 DEF Held
  <2>2. \A m \in Held(h) : m \in Met /\ Fresh(m)
    BY DEF DrainInv, HeldFresh
  <2>3. QED
    BY <2>1, <2>2 DEF Poll, Fresh
<1>14. HostsInv'
  BY <1>1, <1>3, <1>8, <1>9, <1>10, <1>11, <1>12, <1>13, JointDrain DEF DrainInv
<1>15. QED
  BY <1>7, <1>8, <1>14 DEF DrainInv

LEMMA PollEndInv == ASSUME DrainInv, NEW h \in Hosts, PollEnd(h) PROVE DrainInv'
<1> USE DEF storeVars, HostsInv
<1>1. hpc[h] = "message" /\ batch[h] = {} /\ Listening(h) /\ gateway = h
  BY DEF PollEnd, DrainInv, Placed, Listening
<1>2. hpc' = [hpc EXCEPT ![h] = "poll"]
  BY DEF PollEnd
<1>3. Only(h) /\ hpc'[h] = "poll" /\ ready'[h] = ready[h] /\ whisper'[h] = whisper[h]
      /\ batch'[h] = {}
  BY <1>1, <1>2 DEF PollEnd, Only, DrainInv, Shape, TypeOK
<1>4. Shape'
  BY <1>2 DEF PollEnd, DrainInv, Shape, TypeOK, posted
<1>5. NothingSkipped' /\ Grows /\ UnseenNew' /\ gateway' = gateway
  <2>1. Grows
    BY GrowsBy DEF PollEnd, DrainInv
  <2>2. QED
    BY <2>1, SkippedStays DEF PollEnd, DrainInv, UnseenNew
<1>6. Placed(h)'
  BY <1>1, <1>3, <1>5 DEF Placed, Listening, Working
<1>7. Behind(h)'
  BY <1>3, <1>5 DEF PollEnd, DrainInv, Behind, Before1, Grows
<1>8. Memos(h)' = {} /\ Taken(h)' = {} /\ Due(h)' = {}
  BY <1>3 DEF Memos, Rest, Taken, Due, Working
<1>9. Apart(h)'
  BY <1>3, <1>5, <1>8 DEF DrainInv, Apart, Grows
<1>10. \A m \in Held(h)' : m \in Met' /\ Fresh(m)' /\ m \in Held(h)
  BY <1>3, <1>8 DEF Held, DrainInv, HeldFresh, PollEnd, Fresh
<1>11. HostsInv'
  BY <1>1, <1>3, <1>5, <1>6, <1>7, <1>8, <1>9, <1>10, JointDrain DEF DrainInv
<1>12. QED
  BY <1>4, <1>5, <1>11 DEF DrainInv

(* PassedInv: the message is dropped or was seen before.                     *)
LEMMA PassedInv == ASSUME DrainInv, NEW h \in Hosts, PassOver(h) \/ SkipSeen(h) PROVE DrainInv'
<1> USE DEF storeVars, HostsInv
<1>1. /\ hpc[h] = "message" /\ batch[h] # {} /\ Listening(h) /\ gateway = h
      /\ Cur(h) \in Msgs /\ Cur(h) \in 1..posted
  BY CurFacts DEF PassOver, SkipSeen, At, DrainInv, Placed, Listening
<1>2. hpc' = [hpc EXCEPT ![h] = "advance"]
  BY DEF PassOver, SkipSeen, Goto
<1>3. /\ UNCHANGED <<kind, storeVars, halted, batch, whisper, ready, jobs, slipped,
                     unlisted, overlap, starts, faults>>
      /\ paused' \in {paused, paused \cup {Cur(h)}} /\ Cur(h) \in seen' \cup paused'
  BY DEF PassOver, SkipSeen
<1>4. Only(h) /\ hpc'[h] = "advance"
  BY <1>2, <1>3 DEF Only, DrainInv, Shape, TypeOK
<1>5. Shape'
  BY <1>1, <1>2, <1>3 DEF DrainInv, Shape, TypeOK, posted
<1>6. NothingSkipped' /\ Grows /\ UnseenNew' /\ gateway' = gateway
  <2>1. Grows
    BY <1>3, GrowsBy DEF DrainInv
  <2>2. QED
    BY <1>3, <2>1, SkippedStays DEF DrainInv, UnseenNew
<1>7. Placed(h)'
  BY <1>1, <1>3, <1>4 DEF Placed, Listening, Working, Handled, Cur
<1>8. Behind(h)'
  BY <1>1, <1>3, <1>6 DEF Grows, DrainInv, Behind, Before1
<1>9. Memos(h)' \subseteq Memos(h) /\ Taken(h)' = {} /\ Due(h)' = {}
  BY <1>1, <1>3, <1>4 DEF Memos, Rest, Taken, Due, Working
<1>10. Apart(h)'
  BY <1>3, <1>9 DEF DrainInv, Apart
<1>11. \A m \in Held(h)' : m \in Met' /\ Fresh(m)' /\ m \in Held(h)
  <2>1. Held(h)' \subseteq Held(h)
    BY <1>3, <1>9 DEF Held
  <2>2. QED
    BY <1>3, <2>1 DEF DrainInv, HeldFresh, Fresh
<1>12. HostsInv'
  BY <1>1, <1>4, <1>6, <1>7, <1>8, <1>9, <1>10, <1>11, JointDrain DEF DrainInv
<1>13. QED
  BY <1>5, <1>6, <1>12 DEF DrainInv

(* ClaimInv: the message is claimed, or taken on although the claim raised.  *)
LEMMA ClaimInv == ASSUME DrainInv, NEW h \in Hosts, Claim(h) \/ ClaimRaises(h) PROVE DrainInv'
<1> USE DEF HostsInv
<1> DEFINE c == Cur(h)
           F == First(batch[h])
<1>1. /\ hpc[h] = "message" /\ batch[h] # {} /\ Listening(h) /\ gateway = h
      /\ c \in Msgs /\ c \in 1..posted /\ F \in batch[h]
      /\ F = [msg |-> c, memo |-> Preclaimed(h)] /\ Preclaimed(h) \in BOOLEAN
  BY CurFacts DEF Claim, ClaimRaises, At, DrainInv, Placed, Listening
<1>2. /\ UNCHANGED <<kind, rows, attempts, watermark, gateway, halted, batch, ready, jobs,
                     paused, unlisted, overlap, starts>>
      /\ \/ seen' = seen \cup {c} /\ slipped' = slipped
         \/ seen' = seen /\ slipped' = slipped \cup {c}
      /\ c \notin seen \/ Preclaimed(h) \/ c \in slipped'
      /\ faults' \in 0..MaxFaults
  BY <1>1 DEF Claim, ClaimRaises, storeVars, ConstantsOK, DrainInv, Shape, TypeOK
<1>3. \/ /\ ~Preclaimed(h) /\ kind[c] = "voice"
         /\ whisper' = [whisper EXCEPT ![h] = @ \cup {c}] /\ hpc' = [hpc EXCEPT ![h] = "advance"]
      \/ whisper' = whisper /\ hpc' = [hpc EXCEPT ![h] = "claimed"]
  BY DEF Claim, ClaimRaises, TakeOn, Goto
<1>4. /\ Only(h) /\ hpc'[h] \in {"advance", "claimed"}
      /\ hpc'[h] = "advance" =>
           ~Preclaimed(h) /\ kind[c] = "voice" /\ whisper'[h] = whisper[h] \cup {c}
      /\ hpc'[h] = "claimed" => whisper'[h] = whisper[h]
  BY <1>2, <1>3 DEF Only, DrainInv, Shape, TypeOK
<1>5. Shape'
  <2>1. /\ hpc' \in [Hosts -> {"off", "stale", "list", "replay", "poll", "message", "claimed",
                               "recorded", "advance"}]
        /\ whisper' \in [Hosts -> SUBSET Msgs]
    <3>1. CASE whisper' = whisper /\ hpc' = [hpc EXCEPT ![h] = "claimed"]
      BY <3>1 DEF DrainInv, Shape, TypeOK
    <3>2. CASE /\ whisper' = [whisper EXCEPT ![h] = @ \cup {c}]
               /\ hpc' = [hpc EXCEPT ![h] = "advance"]
      <4>1. whisper[h] \cup {c} \in SUBSET Msgs
        BY <1>1 DEF DrainInv, Shape, TypeOK
      <4>2. QED
        BY <3>2, <4>1 DEF DrainInv, Shape, TypeOK
    <3>3. QED
      BY <1>3, <3>1, <3>2
  <2>2. TypeOK'
    BY <1>1, <1>2, <2>1 DEF DrainInv, Shape, TypeOK, posted
  <2>3. \A g \in Hosts : whisper'[g] \cup ready'[g] \subseteq Met'
    BY <1>2, <1>4 DEF Only, DrainInv, Shape
  <2>4. QED
    BY <1>1, <1>2, <2>2, <2>3 DEF DrainInv, Shape, posted
<1>6. NothingSkipped' /\ Grows /\ UnseenNew' /\ gateway' = gateway
  <2>1. Grows
    BY <1>2, GrowsBy DEF DrainInv
  <2>2. QED
    BY <1>2, <2>1, SkippedStays DEF DrainInv, UnseenNew
<1>7. Placed(h)'
  <2>1. Cur(h)' = c /\ kind' = kind
    BY <1>2 DEF Cur
  <2>2. hpc'[h] = "advance" => Handled(Cur(h))'
    BY <1>2, <1>4, <2>1 DEF Handled
  <2>3. QED
    BY <1>1, <1>2, <1>4, <2>1, <2>2 DEF Placed, Listening, Working
<1>8. Behind(h)'
  <2>1. \A k \in whisper'[h] \cup ready'[h] : Before1(k)
    BY <1>1, <1>2, <1>4, CurBefore DEF DrainInv, Behind
  <2>2. \A k \in whisper'[h] \cup ready'[h] : Before1(k)'
    BY <1>6, <2>1 DEF Before1, Grows
  <2>3. QED
    BY <1>1, <1>2, <1>6, <2>2 DEF DrainInv, Behind, Before1, Grows
<1>9. /\ Memos(h)' \subseteq Memos(h) /\ (Preclaimed(h) => c \notin Memos(h)' /\ c \in Memos(h))
      /\ Taken(h) = {} /\ Due(h)' = {}
      /\ Taken(h)' = IF hpc'[h] = "claimed" THEN {c} ELSE {}
  <2>1. Rest(h) = batch[h] /\ Rest(h)' = batch[h] \ {F}
    BY <1>1, <1>2, <1>4 DEF Rest, Working
  <2>2. Memos(h)' \subseteq Memos(h) /\ (Preclaimed(h) => c \notin Memos(h)' /\ c \in Memos(h))
    BY <1>1, <2>1 DEF Memos
  <2>3. Taken(h) = {} /\ Due(h)' = {} /\ Taken(h)' = IF hpc'[h] = "claimed" THEN {c} ELSE {}
    BY <1>1, <1>2, <1>4 DEF Taken, Due, Cur
  <2>4. QED
    BY <2>2, <2>3
<1>10. ~Preclaimed(h) => c \notin Met \/ c \in slipped'
  BY <1>2
<1>11. c \notin whisper[h] \cup ready[h] \cup Memos(h)' \/ c \in slipped'
  <2>1. CASE Preclaimed(h)
    BY <2>1, <1>2, <1>9 DEF Held, DrainInv, Apart
  <2>2. CASE ~Preclaimed(h)
    BY <2>2, <1>2, <1>9, <1>10 DEF Held, DrainInv, HeldFresh
  <2>3. QED
    BY <1>1, <2>1, <2>2
<1>12. Apart(h)'
  BY <1>2, <1>4, <1>9, <1>11 DEF DrainInv, Apart
<1>13. ASSUME NEW m \in Held(h)'
       PROVE  m \in Met' /\ Fresh(m)' /\ (m \in Held(h) \/ m \notin Met \/ m \in slipped')
  <2>1. m \in Held(h) \/ m = c
    BY <1>2, <1>4, <1>9 DEF Held
  <2>2. CASE m \in Held(h)
    BY <1>2, <2>2 DEF DrainInv, HeldFresh, Fresh
  <2>3. CASE m = c
    <3>1. Preclaimed(h) => c \in Held(h)
      BY <1>9 DEF Held
    <3>2. CASE c \notin Met \/ c \in slipped'
      BY <1>1, <1>2, <2>3, <3>2 DEF DrainInv, UnseenNew, Fresh, Shape, TypeOK
    <3>3. QED
      BY <1>10, <3>1, <3>2, <2>2, <2>3
  <2>4. QED
    BY <2>1, <2>2, <2>3
<1>14. HostsInv'
  BY <1>1, <1>4, <1>6, <1>7, <1>8, <1>9, <1>12, <1>13, JointDrain DEF DrainInv
<1>15. QED
  BY <1>5, <1>6, <1>14 DEF DrainInv

(* RecordedInv: the row is written, or the ask goes on without one.          *)
LEMMA RecordedInv == ASSUME DrainInv, NEW h \in Hosts, Record(h) \/ RecordFails(h) PROVE DrainInv'
<1> USE DEF storeVars, HostsInv
<1> DEFINE c == Cur(h)
<1>1. /\ hpc[h] = "claimed" /\ batch[h] # {} /\ Listening(h) /\ gateway = h
      /\ c \in Msgs /\ c \in Met /\ Taken(h) = {c} /\ c \in Held(h)
  BY CurFacts DEF Record, RecordFails, At, DrainInv, Placed, Listening, Taken, Held
<1>2. /\ UNCHANGED <<kind, seen, watermark, gateway, halted, batch, whisper, ready, jobs,
                     histVars, starts>>
      /\ rows' \in {rows, rows \cup {c}} /\ faults' \in 0..MaxFaults
      /\ hpc' = [hpc EXCEPT ![h] = "recorded"]
  BY DEF ConstantsOK, Record, RecordFails, Goto, DrainInv, Shape, TypeOK
<1>3. attempts' \in [Msgs -> Nat]
  <2>1. CASE Record(h)
    <3>1. attempts' = [attempts EXCEPT ![c] = IF c \in rows THEN @ ELSE 0]
      BY <2>1 DEF Record
    <3>2. QED
      BY <1>1, <3>1 DEF DrainInv, Shape, TypeOK
  <2>2. CASE RecordFails(h)
    BY <2>2 DEF RecordFails, DrainInv, Shape, TypeOK
  <2>3. QED
    BY <2>1, <2>2
<1>4. Only(h) /\ hpc'[h] = "recorded"
  BY <1>2 DEF Only, DrainInv, Shape, TypeOK
<1>5. Shape'
  BY <1>1, <1>2, <1>3 DEF DrainInv, Shape, TypeOK, posted
<1>6. NothingSkipped' /\ Grows /\ UnseenNew' /\ gateway' = gateway
  <2>1. Grows
    BY <1>2, GrowsBy DEF DrainInv
  <2>2. QED
    BY <1>2, <2>1, SkippedStays DEF DrainInv, UnseenNew
<1>7. Placed(h)'
  BY <1>1, <1>2, <1>4 DEF Placed, Listening, Working, Cur
<1>8. Behind(h)'
  BY <1>1, <1>2, <1>4, <1>6 DEF DrainInv, Behind, Before1, Grows
<1>9. Memos(h)' = Memos(h) /\ Taken(h)' = {} /\ Due(h)' = {c}
  BY <1>1, <1>2, <1>4 DEF Memos, Rest, Taken, Due, Working, Cur
<1>10. Apart(h)'
  BY <1>2, <1>9 DEF DrainInv, Apart
<1>11. Held(h)' \subseteq Held(h) /\ (c \in Held(h)' => c \in slipped)
  BY <1>1, <1>2, <1>9 DEF Held, DrainInv, Apart
<1>12. \A m \in Held(h)' : m \in Met' /\ Fresh(m)' /\ m \in Held(h)
  BY <1>2, <1>11 DEF DrainInv, HeldFresh, Fresh
<1>13. HostsInv'
  BY <1>1, <1>2, <1>4, <1>6, <1>7, <1>8, <1>9, <1>10, <1>11, <1>12, JointDrain DEF DrainInv
<1>14. QED
  BY <1>5, <1>6, <1>13 DEF DrainInv

(* SubmittedInv: an ask, a handoff or a fork becomes a job.                  *)
Submits(h, path) ==
    /\ \/ At(h, "recorded") /\ path = "claimed"
       \/ At(h, "claimed") /\ kind[Cur(h)] = "handoff" /\ path = "unclaimed"
       \/ At(h, "claimed") /\ kind[Cur(h)] = "fork" /\ path = "anon"
    /\ Submit(h, Cur(h), path)
    /\ Goto(h, "advance")
    /\ UNCHANGED <<kind, storeVars, halted, batch, whisper, ready, histVars, starts,
                   faults>>

LEMMA SubmittedInv ==
    ASSUME DrainInv, NEW h \in Hosts, NEW path \in Paths, Submits(h, path) PROVE DrainInv'
<1> USE DEF storeVars, HostsInv
<1> DEFINE c == Cur(h)
<1>1. /\ hpc[h] \in {"claimed", "recorded"} /\ batch[h] # {} /\ Listening(h) /\ gateway = h
      /\ c \in Msgs /\ c \in Met
  BY CurFacts DEF Submits, At, DrainInv, Placed, Listening
<1>2. /\ UNCHANGED <<kind, storeVars, halted, batch, whisper, ready, histVars, starts,
                     faults>>
      /\ hpc' = [hpc EXCEPT ![h] = "advance"]
  BY DEF Submits, Goto
<1>3. Only(h) /\ hpc'[h] = "advance"
  BY <1>2 DEF Only, DrainInv, Shape, TypeOK
<1>4. /\ jobs' \in [Msgs -> Seq(JobRecords)]
      /\ \A n \in Msgs \ {c} : jobs'[n] = jobs[n]
      /\ jobs'[c] # <<>>
  <2>1. Submit(h, c, path)
    BY DEF Submits
  <2>2. QED
    BY <1>1, <2>1, JobAdd DEF DrainInv
<1>5. Shape'
  BY <1>1, <1>2, <1>4 DEF DrainInv, Shape, TypeOK, posted
<1>6. NothingSkipped' /\ Grows /\ UnseenNew' /\ gateway' = gateway
  <2>1. Grows
    BY <1>1, <1>2, <1>4, GrowsBy DEF DrainInv
  <2>2. QED
    BY <1>1, <1>2, <1>4, <2>1, SkippedStays DEF DrainInv, UnseenNew
<1>7. Placed(h)'
  BY <1>1, <1>2, <1>3, <1>4 DEF Placed, Listening, Working, Handled, Cur
<1>8. Behind(h)'
  BY <1>1, <1>2, <1>3, <1>6 DEF DrainInv, Behind, Before1, Grows
<1>9. Memos(h)' = Memos(h) /\ Taken(h)' = {} /\ Due(h)' = {}
  BY <1>1, <1>2, <1>3 DEF Memos, Rest, Taken, Due, Working, Cur
<1>10. Apart(h)'
  BY <1>2, <1>9 DEF DrainInv, Apart
<1>11. Held(h)' \subseteq Held(h) /\ (c \in Held(h)' => c \in slipped)
  <2>1. CASE hpc[h] = "claimed"
    <3>1. Taken(h) = {c}
      BY <2>1 DEF Taken
    <3>2. QED
      BY <1>2, <1>9, <3>1 DEF Held, DrainInv, Apart
  <2>2. CASE hpc[h] = "recorded"
    <3>1. Due(h) = {c}
      BY <2>2 DEF Due
    <3>2. Held(h)' \subseteq Held(h)
      BY <1>2, <1>9 DEF Held
    <3>3. QED
      BY <3>1, <3>2 DEF DrainInv, DueNotHeld
  <2>3. QED
    BY <1>1, <2>1, <2>2
<1>12. \A m \in Held(h)' : m \in Met' /\ Fresh(m)' /\ m \in Held(h)
  <2>1. \A m \in Held(h) : m \in Met /\ Fresh(m) /\ m \in Msgs
    BY DEF DrainInv, HeldFresh, Shape, TypeOK
  <2>2. QED
    BY <1>2, <1>4, <1>11, <2>1 DEF Fresh
<1>13. HostsInv'
  BY <1>1, <1>3, <1>6, <1>7, <1>8, <1>9, <1>10, <1>12, JointDrain DEF DrainInv
<1>14. QED
  BY <1>5, <1>6, <1>13 DEF DrainInv

LEMMA AdvanceInv == ASSUME DrainInv, NEW h \in Hosts, Advance(h) PROVE DrainInv'
<1> USE DEF HostsInv
<1> DEFINE c == Cur(h)
           F == First(batch[h])
<1>1. /\ hpc[h] = "advance" /\ batch[h] # {} /\ Listening(h) /\ gateway = h
      /\ c \in 1..posted /\ Handled(c) /\ Before1(c) /\ F \in batch[h] /\ F.msg = c
  BY CurFacts, CurBefore DEF Advance, At, DrainInv, Placed, Listening, Cur
<1>2. /\ UNCHANGED <<kind, seen, rows, attempts, gateway, halted, whisper, ready, jobs,
                     histVars, starts, faults>>
      /\ batch' = [batch EXCEPT ![h] = batch[h] \ {F}] /\ hpc' = [hpc EXCEPT ![h] = "message"]
      /\ watermark' = IF c > watermark THEN c ELSE watermark
  BY DEF Advance, Drop, Goto
<1>3. Only(h) /\ hpc'[h] = "message" /\ batch'[h] = batch[h] \ {F}
  BY <1>2 DEF Only, DrainInv, Shape, TypeOK
<1>4. watermark \in 0..posted /\ posted \in Nat /\ watermark' \in 0..posted
  BY <1>1, <1>2 DEF DrainInv, Shape, TypeOK, posted
<1>5. Shape'
  <2>1. batch' \in [Hosts -> SUBSET [msg : Msgs, memo : BOOLEAN]]
    BY <1>2 DEF DrainInv, Shape, TypeOK
  <2>2. TypeOK'
    BY <1>2, <1>4, <2>1 DEF DrainInv, Shape, TypeOK, posted
  <2>3. \A g \in Hosts : batch'[g] \subseteq batch[g]
    BY <1>3 DEF Only
  <2>4. QED
    BY <1>2, <2>2, <2>3 DEF DrainInv, Shape, posted
<1>6. Grows /\ UnseenNew' /\ gateway' = gateway
  BY <1>2, GrowsBy DEF DrainInv, UnseenNew
<1>7. NothingSkipped'
  <2>1. ASSUME NEW k \in 1..watermark' PROVE Handled(k)
    <3>1. CASE k <= watermark
      BY <3>1, <1>2, <1>4 DEF DrainInv, NothingSkipped
    <3>2. CASE k > watermark
      <4>1. k \in 1..c
        BY <3>2, <1>1, <1>2, <1>4
      <4>2. QED
        BY <4>1, <1>1 DEF Before1
    <3>3. QED
      BY <3>1, <3>2, <1>4
  <2>2. QED
    BY <1>6, <2>1 DEF NothingSkipped, Grows
<1>8. Placed(h)'
  BY <1>1, <1>2, <1>3 DEF Placed, Listening, Working
<1>9. Behind(h)'
  <2>1. (\A k : Handled(k) => Handled(k)') /\ whisper'[h] \cup ready'[h] = whisper[h] \cup ready[h]
    BY <1>2, <1>6 DEF Grows
  <2>2. ASSUME NEW e \in batch'[h], ~e.memo, NEW k \in 1..(e.msg - 1)
        PROVE  Handled(k) \/ [msg |-> k, memo |-> FALSE] \in batch'[h]
    <3>1. Handled(k) \/ [msg |-> k, memo |-> FALSE] \in batch[h]
      BY <1>1, <1>3, <2>2 DEF DrainInv, Behind
    <3>2. [msg |-> k, memo |-> FALSE] = F => Handled(k)
      BY <1>1
    <3>3. QED
      BY <3>1, <3>2, <1>3
  <2>3. \A e \in batch'[h] : e.memo => e.msg \in Met' /\ Before1(e.msg)
    BY <1>1, <1>2, <1>3 DEF DrainInv, Behind
  <2>4. \A k : Before1(k) => Before1(k)'
    BY <2>1 DEF Before1
  <2>5. QED
    BY <2>1, <2>2, <2>3, <2>4 DEF DrainInv, Behind
<1>10. Memos(h)' = Memos(h) /\ Taken(h)' = {} /\ Taken(h) = {} /\ Due(h)' = {}
  BY <1>1, <1>3 DEF Memos, Rest, Taken, Due, Working
<1>11. Apart(h)'
  BY <1>2, <1>10 DEF DrainInv, Apart
<1>12. \A m \in Held(h)' : m \in Met' /\ Fresh(m)' /\ m \in Held(h)
  BY <1>2, <1>10 DEF Held, DrainInv, HeldFresh, Fresh
<1>13. HostsInv'
  BY <1>1, <1>3, <1>6, <1>8, <1>9, <1>10, <1>11, <1>12, JointDrain DEF DrainInv
<1>14. QED
  BY <1>5, <1>6, <1>7, <1>13 DEF DrainInv

LEMMA AdvanceFailsInv == ASSUME DrainInv, NEW h \in Hosts, AdvanceFails(h) PROVE DrainInv'
<1> USE DEF storeVars, HostsInv
<1>1. hpc[h] = "advance" /\ batch[h] # {} /\ Listening(h) /\ gateway = h
  BY DEF AdvanceFails, At, DrainInv, Placed, Listening
<1>2. /\ UNCHANGED <<kind, storeVars, halted, whisper, ready, jobs, histVars, starts>>
      /\ batch' = [batch EXCEPT ![h] = {}] /\ hpc' = [hpc EXCEPT ![h] = "poll"]
      /\ faults' \in 0..MaxFaults
  BY DEF ConstantsOK, AdvanceFails, Goto, DrainInv, Shape, TypeOK
<1>3. Only(h) /\ hpc'[h] = "poll" /\ batch'[h] = {}
  BY <1>2 DEF Only, DrainInv, Shape, TypeOK
<1>4. Shape'
  <2>1. TypeOK'
    BY <1>2 DEF DrainInv, Shape, TypeOK, posted
  <2>2. \A g \in Hosts : batch'[g] \subseteq batch[g]
    BY <1>3 DEF Only
  <2>3. QED
    BY <1>2, <2>1, <2>2 DEF DrainInv, Shape, posted
<1>5. NothingSkipped' /\ Grows /\ UnseenNew' /\ gateway' = gateway
  <2>1. Grows
    BY <1>2, GrowsBy DEF DrainInv
  <2>2. QED
    BY <1>2, <2>1, SkippedStays DEF DrainInv, UnseenNew
<1>6. Placed(h)'
  BY <1>1, <1>2, <1>3 DEF Placed, Listening, Working
<1>7. Behind(h)'
  BY <1>2, <1>3, <1>5 DEF DrainInv, Behind, Before1, Grows
<1>8. Memos(h)' = {} /\ Taken(h)' = {} /\ Due(h)' = {}
  BY <1>3 DEF Memos, Rest, Taken, Due, Working
<1>9. Apart(h)'
  BY <1>2, <1>8 DEF DrainInv, Apart
<1>10. \A m \in Held(h)' : m \in Met' /\ Fresh(m)' /\ m \in Held(h)
  BY <1>2, <1>8 DEF Held, DrainInv, HeldFresh, Fresh
<1>11. HostsInv'
  BY <1>1, <1>3, <1>5, <1>6, <1>7, <1>8, <1>9, <1>10, JointDrain DEF DrainInv
<1>12. QED
  BY <1>4, <1>5, <1>11 DEF DrainInv

LEMMA TranscribedInv ==
    ASSUME DrainInv, NEW h \in Hosts, NEW m \in Msgs, NEW ok \in BOOLEAN, Transcribed(h, m, ok)
    PROVE  DrainInv'
<1> USE DEF storeVars, HostsInv
<1>1. m \in whisper[h] /\ Listening(h) /\ gateway = h
  BY DEF Transcribed, DrainInv, Placed
<1>2. /\ UNCHANGED <<kind, storeVars, halted, hpc, batch, jobs, histVars, starts, faults>>
      /\ whisper' = [whisper EXCEPT ![h] = whisper[h] \ {m}]
      /\ ready' = IF ok THEN [ready EXCEPT ![h] = ready[h] \cup {m}] ELSE ready
  BY DEF Transcribed
<1>3. /\ Only(h) /\ whisper'[h] = whisper[h] \ {m}
      /\ ready'[h] \in {ready[h], ready[h] \cup {m}}
  <2>1. whisper'[h] = whisper[h] \ {m} /\ \A g \in Hosts \ {h} : whisper'[g] = whisper[g]
    BY <1>2 DEF DrainInv, Shape, TypeOK
  <2>2. ready'[h] \in {ready[h], ready[h] \cup {m}} /\ \A g \in Hosts \ {h} : ready'[g] = ready[g]
    BY <1>2 DEF DrainInv, Shape, TypeOK
  <2>3. QED
    BY <1>2, <2>1, <2>2 DEF Only
<1>4. Shape'
  <2>1. whisper' \in [Hosts -> SUBSET Msgs]
    BY <1>2 DEF DrainInv, Shape, TypeOK
  <2>2. ready[h] \cup {m} \in SUBSET Msgs
    BY DEF DrainInv, Shape, TypeOK
  <2>3. ready' \in [Hosts -> SUBSET Msgs]
    BY <1>2, <2>2 DEF DrainInv, Shape, TypeOK
  <2>4. TypeOK'
    BY <1>2, <2>1, <2>3 DEF DrainInv, Shape, TypeOK, posted
  <2>5. \A g \in Hosts : whisper'[g] \cup ready'[g] \subseteq Met
    BY <1>1, <1>3 DEF Only, DrainInv, Shape
  <2>6. QED
    BY <1>2, <2>4, <2>5 DEF DrainInv, Shape, posted
<1>5. NothingSkipped' /\ Grows /\ UnseenNew' /\ gateway' = gateway
  <2>1. Grows
    BY <1>2, GrowsBy DEF DrainInv
  <2>2. QED
    BY <1>2, <2>1, SkippedStays DEF DrainInv, UnseenNew
<1>6. Placed(h)'
  BY <1>1, <1>2, <1>5 DEF DrainInv, Placed, Listening, Working, Cur, Grows
<1>7. Behind(h)'
  <2>1. whisper'[h] \cup ready'[h] \subseteq whisper[h] \cup ready[h]
    BY <1>1, <1>3
  <2>2. QED
    BY <1>2, <1>5, <2>1 DEF DrainInv, Behind, Before1, Grows, Listening
<1>8. Memos(h)' = Memos(h) /\ Taken(h)' = Taken(h) /\ Due(h)' = Due(h)
  BY <1>2 DEF Memos, Rest, Taken, Due, Working, Cur
<1>9. Apart(h)'
  BY <1>1, <1>3, <1>5, <1>8 DEF DrainInv, Apart, Grows
<1>10. Held(h)' \subseteq Held(h)
  BY <1>1, <1>3, <1>8 DEF Held
<1>11. \A k \in Held(h)' : k \in Met' /\ Fresh(k)' /\ k \in Held(h)
  BY <1>2, <1>10 DEF DrainInv, HeldFresh, Fresh
<1>12. Due(h)' \cap Held(h)' \subseteq slipped'
  BY <1>2, <1>8, <1>10 DEF DrainInv, DueNotHeld
<1>13. HostsInv'
  BY <1>1, <1>3, <1>5, <1>6, <1>7, <1>9, <1>11, <1>12, JointDrain DEF DrainInv
<1>14. QED
  BY <1>4, <1>5, <1>13 DEF DrainInv

(* JobStepFacts: a step of a job is a change of its record in place.  It     *)
(* claims only what was met; BindInbound alone drops a row and begins a cook.*)
LEMMA JobStepFacts ==
    ASSUME DrainInv, NEW m \in Msgs, NEW i \in Slots, JobStep(m, i)
    PROVE  /\ i \in DOMAIN jobs[m] /\ UNCHANGED jobVars /\ faults' \in 0..MaxFaults
           /\ seen \subseteq seen' /\ Met' = Met
           /\ jobs[m][i].pc \notin Ended
           /\ rows' \subseteq rows /\ (rows' # rows => BindInbound(m, i))
           /\ \E r \in JobRecords :
                /\ JobChanges(m, i, r) /\ r.host = jobs[m][i].host /\ r.path = jobs[m][i].path
                /\ \/ r.cooked = jobs[m][i].cooked
                   \/ BindInbound(m, i) /\ r.cooked /\ r.pc \notin Ended
<1> DEFINE J == jobs[m][i]
           With(p, q, b) == [J EXCEPT !.pc = p, !.run = q, !.cooked = b]
<1>1. i \in DOMAIN jobs[m]
  BY DEF JobStep, RunTask, RunHalted, CreateRun, ThreadBindFails, BindInbound, Finish,
         RunRaises, JobAt
<1>2. J \in JobRecords /\ jobs[m] # <<>> /\ m \in Met
  BY <1>1 DEF DrainInv, Shape, TypeOK, UnseenNew
<1>3. UNCHANGED jobVars /\ J.pc \notin Ended
  BY <1>2 DEF JobStep, RunTask, RunHalted, CreateRun, ThreadBindFails, BindInbound, Finish,
              RunRaises, JobAt, jobFrame, Ended
<1>4. rows' \subseteq rows /\ (rows' # rows => BindInbound(m, i))
  BY DEF JobStep, RunTask, RunHalted, CreateRun, ThreadBindFails, BindInbound, Finish, RunRaises
<1>11. faults' \in 0..MaxFaults
  BY DEF JobStep, RunTask, RunHalted, CreateRun, ThreadBindFails, BindInbound, Finish, RunRaises,
         jobFrame, DrainInv, Shape, TypeOK, ConstantsOK
<1>12. seen \subseteq seen' /\ seen' \subseteq seen \cup {m} /\ slipped' = slipped
  BY DEF JobStep, RunTask, RunHalted, CreateRun, ThreadBindFails, BindInbound, Finish, RunRaises,
         jobFrame, jobVars
<1>5. ASSUME NEW p \in Waiting \cup InRun \cup Ended,
             NEW q \in {"none", "running", "failed", "settled"}, NEW b \in BOOLEAN
      PROVE  /\ With(p, q, b) \in JobRecords /\ With(p, q, b).host = J.host
             /\ With(p, q, b).path = J.path /\ With(p, q, b).cooked = b /\ With(p, q, b).pc = p
  BY <1>2 DEF JobRecords
<1>6. J.cooked \in BOOLEAN /\ J.run \in {"none", "running", "failed", "settled"}
      /\ J = [host |-> J.host, path |-> J.path, pc |-> J.pc, run |-> J.run, cooked |-> J.cooked]
  BY <1>2 DEF JobRecords
<1>7. \E p \in Waiting \cup InRun \cup Ended, q \in {"none", "running", "failed", "settled"},
         b \in BOOLEAN :
        /\ JobChanges(m, i, With(p, q, b))
        /\ b = J.cooked \/ (BindInbound(m, i) /\ b /\ p = "cook")
  <2>1. CASE RunTask(m, i)
    <3>1. PICK p \in {"duplicate", "admitted"} : jobs' = [jobs EXCEPT ![m][i].pc = p]
      BY <2>1 DEF RunTask
    <3>2. [J EXCEPT !.pc = p] = With(p, J.run, J.cooked)
      BY <1>6
    <3>3. JobChanges(m, i, With(p, J.run, J.cooked))
      BY <3>1, <3>2 DEF JobChanges
    <3>4. p \in Waiting \cup InRun \cup Ended
      BY DEF Waiting, Ended
    <3>5. QED
      BY <1>6, <3>3, <3>4
  <2>2. CASE RunHalted(m, i)
    <3>1. JobChanges(m, i, [J EXCEPT !.pc = "halted"])
      BY <2>2 DEF RunHalted, JobChanges
    <3>2. [J EXCEPT !.pc = "halted"] = With("halted", J.run, J.cooked)
      BY <1>6
    <3>3. QED
      BY <3>1, <3>2, <1>6 DEF Ended
  <2>3. CASE CreateRun(m, i)
    <3>1. JobChanges(m, i, [J EXCEPT !.pc = "created", !.run = "running"])
      BY <2>3 DEF CreateRun, JobChanges
    <3>2. [J EXCEPT !.pc = "created", !.run = "running"] = With("created", "running", J.cooked)
      BY <1>6
    <3>3. QED
      BY <3>1, <3>2, <1>6 DEF InRun
  <2>4. CASE ThreadBindFails(m, i)
    <3>1. JobChanges(m, i, [J EXCEPT !.pc = "unbound", !.run = "failed"])
      BY <2>4 DEF ThreadBindFails, JobChanges
    <3>2. [J EXCEPT !.pc = "unbound", !.run = "failed"] = With("unbound", "failed", J.cooked)
      BY <1>6
    <3>3. QED
      BY <3>1, <3>2, <1>6 DEF Ended
  <2>5. CASE BindInbound(m, i)
    <3>1. JobChanges(m, i, [J EXCEPT !.pc = "cook", !.cooked = TRUE])
      BY <2>5 DEF BindInbound, JobChanges
    <3>2. [J EXCEPT !.pc = "cook", !.cooked = TRUE] = With("cook", J.run, TRUE)
      BY <1>6
    <3>3. QED
      BY <2>5, <3>1, <3>2, <1>6 DEF InRun
  <2>6. CASE Finish(m, i)
    <3>1. JobChanges(m, i, [J EXCEPT !.pc = "done", !.run = "settled"])
      BY <2>6 DEF Finish, JobChanges
    <3>2. [J EXCEPT !.pc = "done", !.run = "settled"] = With("done", "settled", J.cooked)
      BY <1>6
    <3>3. QED
      BY <3>1, <3>2, <1>6 DEF Ended
  <2>7. CASE RunRaises(m, i)
    <3>1. PICK q \in {J.run, "failed"} :
             jobs' = [jobs EXCEPT ![m][i] = [@ EXCEPT !.pc = "crashed", !.run = q]]
      BY <2>7 DEF RunRaises
    <3>2. JobChanges(m, i, [J EXCEPT !.pc = "crashed", !.run = q])
      BY <3>1 DEF JobChanges
    <3>3. [J EXCEPT !.pc = "crashed", !.run = q] = With("crashed", q, J.cooked)
      BY <1>6
    <3>4. q \in {"none", "running", "failed", "settled"}
      BY <1>6
    <3>5. QED
      BY <3>2, <3>3, <3>4, <1>6 DEF Ended
  <2>8. QED
    BY <2>1, <2>2, <2>3, <2>4, <2>5, <2>6, <2>7 DEF JobStep
<1>8. PICK p \in Waiting \cup InRun \cup Ended, q \in {"none", "running", "failed", "settled"},
           b \in BOOLEAN :
        /\ JobChanges(m, i, With(p, q, b))
        /\ b = J.cooked \/ (BindInbound(m, i) /\ b /\ p = "cook")
  BY <1>7
<1>9. \E r \in JobRecords :
        /\ JobChanges(m, i, r) /\ r.host = J.host /\ r.path = J.path
        /\ r.cooked = J.cooked \/ (BindInbound(m, i) /\ r.cooked /\ r.pc \notin Ended)
  <2> HIDE DEF With
  <2>1. "cook" \notin Ended
    BY DEF Ended
  <2>2. QED
    BY <1>5, <1>8, <2>1
<1>10. QED
  BY <1>1, <1>2, <1>3, <1>4, <1>9, <1>11, <1>12

LEMMA JobStepInv ==
    ASSUME DrainInv, NEW m \in Msgs, NEW i \in Slots, JobStep(m, i) PROVE DrainInv'
<1> USE DEF HostsInv
<1>1. /\ i \in DOMAIN jobs[m] /\ UNCHANGED jobVars /\ rows' \subseteq rows
      /\ seen \subseteq seen' /\ Met' = Met /\ faults' \in 0..MaxFaults
      /\ \E r \in JobRecords : JobChanges(m, i, r)
  BY JobStepFacts
<1>2. UNCHANGED <<kind, attempts, watermark, gateway, halted, memVars, histVars, starts>>
  BY <1>1 DEF jobVars
<1>3. /\ jobs' \in [Msgs -> Seq(JobRecords)]
      /\ \A n \in Msgs : jobs[n] = <<>> <=> jobs'[n] = <<>>
  BY <1>1, JobSet DEF DrainInv
<1>4. Shape'
  <2>1. TypeOK'
    BY <1>1, <1>2, <1>3 DEF memVars, DrainInv, Shape, TypeOK, posted
  <2>2. QED
    BY <1>1, <1>2, <2>1 DEF memVars, DrainInv, Shape, posted
<1>5. NothingSkipped' /\ Grows /\ UnseenNew'
  <2>1. Grows
    BY <1>1, <1>2, <1>3, GrowsBy DEF DrainInv
  <2>2. NothingSkipped'
    BY <1>2, <2>1, SkippedStays DEF DrainInv
  <2>3. UnseenNew'
    BY <1>1, <1>3 DEF DrainInv, UnseenNew
  <2>4. QED
    BY <2>1, <2>2, <2>3
<1>6. \A h \in Hosts : /\ Placed(h)' /\ Behind(h)' /\ Apart(h)'
                       /\ Held(h)' = Held(h) /\ Due(h)' = Due(h)
  <2>1. \A h \in Hosts : Listening(h) => gateway' = h
    BY <1>2 DEF DrainInv, Placed
  <2>2. QED
    BY <1>2, <1>5, <2>1, Others DEF DrainInv, memVars
<1>7. HeldFresh'
  <2>1. \A k \in Msgs : Fresh(k) => Fresh(k)'
    BY <1>1, <1>2, <1>3 DEF Fresh
  <2>2. \A h \in Hosts : \A k \in Held(h) : k \in Msgs
    BY DEF DrainInv, HeldFresh, Shape, TypeOK
  <2>3. QED
    BY <1>1, <1>6, <2>1, <2>2 DEF DrainInv, HeldFresh
<1>8. DueNotHeld'
  BY <1>2, <1>6 DEF DrainInv, DueNotHeld
<1>9. QED
  BY <1>4, <1>5, <1>6, <1>7, <1>8 DEF DrainInv

-----------------------------------------------------------------------------
LEMMA DrainInit == ConstantsOK /\ Init => DrainInv
<1> SUFFICES ASSUME ConstantsOK, Init PROVE DrainInv
  OBVIOUS
<1> USE DEF Init
<1>1. posted = 0 /\ kind \in Seq(Kinds)
  BY DEF posted
<1>2. jobs \in [Msgs -> Seq(JobRecords)]
  OBVIOUS
<1>3. Shape
  <2>1. 0 \in Nat /\ 0 \in 0..MaxStarts /\ 0 \in 0..MaxFaults /\ 0 \in 0..0
        /\ 0 <= MaxMsgs
    BY DEF ConstantsOK
  <2>2. /\ attempts \in [Msgs -> Nat] /\ hpc \in [Hosts -> {"off"}]
        /\ batch \in [Hosts -> {{}}] /\ whisper \in [Hosts -> {{}}] /\ ready \in [Hosts -> {{}}]
    BY <2>1
  <2>3. TypeOK
    BY <1>1, <1>2, <2>1, <2>2 DEF TypeOK
  <2>4. QED
    BY <2>3 DEF Shape
<1>4. NothingSkipped /\ UnseenNew
  BY DEF NothingSkipped, UnseenNew
<1>5. \A h \in Hosts : Held(h) = {} /\ Due(h) = {}
  BY DEF Held, Due, Memos, Rest, Taken, Working
<1>6. HeldFresh /\ DueNotHeld
  BY <1>5 DEF HeldFresh, DueNotHeld
<1>7. \A h \in Hosts : Placed(h) /\ Behind(h) /\ Apart(h)
  BY <1>5 DEF Placed, Behind, Apart, Listening, Working, Taken, Memos, Rest
<1>8. QED
  BY <1>3, <1>4, <1>6, <1>7 DEF DrainInv

LEMMA DrainNext == DrainInv /\ [Next]_vars => DrainInv'
<1> SUFFICES ASSUME DrainInv, [Next]_vars PROVE DrainInv'
  OBVIOUS
<1>1. CASE \/ \E k \in Kinds : Post(k)
           \/ SetHalted
           \/ UNCHANGED vars
  BY <1>1, FrameStep
<1>2. CASE \E h \in Hosts : HostStart(h) \/ HostDie(h) \/ StartStep(h)
  <2>1. PICK h \in Hosts : HostStart(h) \/ HostDie(h) \/ StartStep(h)
    BY <1>2
  <2>2. CASE HostDie(h) \/ RefuseGateway(h)
    BY <2>2, DieInv DEF HostDie, RefuseGateway, Ends
  <2>3. CASE Replay(h) \/ ReplayUncounted(h) \/ GiveUpFails(h)
    <3>1. Replays(h)
      BY <2>3, ReplayFacts DEF DrainInv
    <3>2. QED
      BY <3>1, ReplayInv
  <2>4. QED
    BY <2>1, <2>2, <2>3, HostStartInv, FailStaleInv, ListRowsInv, ListFailsInv, ClaimGatewayInv
       DEF StartStep
<1>3. CASE \E h \in Hosts : DrainStep(h)
  <2>1. PICK h \in Hosts : DrainStep(h)
    BY <1>3
  <2>2. CASE SubmitAsk(h) \/ SubmitHandoff(h) \/ SubmitFork(h)
    <3>1. \E path \in Paths : Submits(h, path)
      BY <2>2 DEF SubmitAsk, SubmitHandoff, SubmitFork, Submits, Paths
    <3>2. QED
      BY <3>1, SubmittedInv
  <2>3. QED
    BY <2>1, <2>2, PollInv, PollEndInv, PassedInv, ClaimInv, RecordedInv, AdvanceInv,
       AdvanceFailsInv DEF DrainStep
<1>4. CASE \E h \in Hosts, m \in Msgs, ok \in BOOLEAN : Transcribed(h, m, ok)
  BY <1>4, TranscribedInv
<1>5. CASE \E m \in Msgs, i \in Slots : JobStep(m, i)
  BY <1>5, JobStepInv
<1>6. QED
  BY <1>1, <1>2, <1>3, <1>4, <1>5 DEF Next

(* DrainInvariant: DrainInv is inductive.                                    *)
LEMMA DrainInvariant == ASSUME ConstantsOK PROVE Spec => []DrainInv
  BY DrainInit, DrainNext, PTL DEF Spec

(* TypeCorrect: the tables, the hosts and the jobs keep their types.         *)
THEOREM TypeCorrect == ASSUME ConstantsOK PROVE Spec => []TypeOK
<1>1. DrainInv => TypeOK
  BY DEF DrainInv, Shape
<1>2. QED
  BY <1>1, DrainInvariant, PTL

(* WatermarkCovers: whatever burst, failed write or crash breaks into a      *)
(* drain, a message behind the watermark was claimed, or dropped while the   *)
(* channel was paused, or, its claim having raised, submitted or handed to   *)
(* whisper all the same.                                                     *)
THEOREM WatermarkCovers == ASSUME ConstantsOK PROVE Spec => []NothingSkipped
<1>1. DrainInv => NothingSkipped
  BY DEF DrainInv
<1>2. QED
  BY <1>1, DrainInvariant, PTL

(* OneReader: no two hosts read the channel at the same time.                *)
THEOREM OneReader == ASSUME ConstantsOK PROVE Spec => []OneListener
<1>1. DrainInv => OneListener
  BY HeldByReader DEF DrainInv
<1>2. QED
  BY <1>1, DrainInvariant, PTL

-----------------------------------------------------------------------------
(* RowsKept: a row of pending_intake goes when its run begins to cook, or    *)
(* when its replays are used up, and never otherwise.                        *)
LEMMA BindCooks ==
    ASSUME DrainInv, NEW m \in Msgs, NEW i \in Slots, BindInbound(m, i)
    PROVE  Cooks(m)' > 0
<1> DEFINE S == {j \in DOMAIN jobs'[m] : jobs'[m][j].cooked}
           r == [jobs[m][i] EXCEPT !.pc = "cook", !.cooked = TRUE]
<1>1. i \in DOMAIN jobs[m] /\ jobs[m][i] \in JobRecords
  BY DEF BindInbound, JobAt, DrainInv, Shape, TypeOK
<1>2. r \in JobRecords /\ r.cooked
  BY <1>1 DEF JobRecords, InRun
<1>3. JobChanges(m, i, r)
  BY DEF BindInbound, JobChanges
<1> HIDE DEF r
<1>4. jobs' \in [Msgs -> Seq(JobRecords)] /\ i \in DOMAIN jobs'[m] /\ jobs'[m][i] = r
  BY <1>1, <1>2, <1>3, JobSet DEF DrainInv
<1>5. i \in S
  BY <1>2, <1>4
<1>6. IsFiniteSet(DOMAIN jobs'[m])
  <2>1. jobs'[m] \in Seq(JobRecords)
    BY <1>4
  <2>2. DOMAIN jobs'[m] = 1..Len(jobs'[m]) /\ 1 \in Int /\ Len(jobs'[m]) \in Int
    BY <2>1
  <2>3. QED
    BY <2>2, FS_Interval
<1>7. IsFiniteSet(S)
  BY <1>6, FS_Subset
<1>8. Cardinality(S) \in Nat /\ Cardinality(S) # 0
  <2> HIDE DEF S
  <2>1. QED
    BY <1>5, <1>7, FS_CardinalityType, FS_EmptySet
<1>9. QED
  BY <1>8 DEF Cooks

LEMMA RowsGo ==
    ASSUME DrainInv, Next, NEW m \in rows \ rows'
    PROVE  Cooks(m)' > 0 \/ attempts'[m] > MaxAttempts
<1>1. CASE \E h \in Hosts : Replay(h)
  <2>1. PICK h \in Hosts : Replay(h)
    BY <1>1
  <2> DEFINE n == Attempt(Cur(h))
  <2>2. Cur(h) \in Msgs
    BY <2>1, CurFacts DEF DrainInv, Replay, At
  <2>3. m = Cur(h) /\ n > MaxAttempts
    BY <2>1 DEF Replay
  <2>4. attempts' = [attempts EXCEPT ![Cur(h)] = n]
    BY <2>1 DEF Replay
  <2>5. attempts'[m] = n
    BY <2>2, <2>3, <2>4 DEF DrainInv, Shape, TypeOK
  <2>6. QED
    BY <2>3, <2>5
<1>2. CASE \E k \in Msgs, i \in Slots : JobStep(k, i)
  <2>1. PICK k \in Msgs, i \in Slots : JobStep(k, i)
    BY <1>2
  <2>2. BindInbound(k, i)
    BY <2>1, JobStepFacts
  <2>3. m = k
    BY <2>2 DEF BindInbound
  <2>4. QED
    BY <2>2, <2>3, BindCooks
<1>3. CASE \/ \E k \in Kinds : Post(k)
           \/ SetHalted
           \/ \E h \in Hosts : HostStart(h) \/ HostDie(h) \/ FailStale(h) \/ ListRows(h)
                               \/ ListFails(h) \/ ReplayUncounted(h) \/ GiveUpFails(h)
                               \/ ClaimGateway(h) \/ RefuseGateway(h) \/ DrainStep(h)
           \/ \E h \in Hosts, k \in Msgs, ok \in BOOLEAN : Transcribed(h, k, ok)
  BY <1>3 DEF storeVars, Post, SetHalted, HostStart, HostDie, FailStale, ListRows, ListFails,
       ReplayUncounted, GiveUpFails, ClaimGateway, RefuseGateway, DrainStep, Poll, PollEnd,
       PassOver, SkipSeen, Claim, ClaimRaises, Record, RecordFails, SubmitAsk, SubmitHandoff,
       SubmitFork, Advance, AdvanceFails, Transcribed
<1>4. QED
  BY <1>1, <1>2, <1>3 DEF Next, StartStep

THEOREM RowsKept == ASSUME ConstantsOK PROVE Spec => RowKeptUntilCooked
<1>1. DrainInv /\ [Next]_vars =>
        [\A m \in rows \ rows' : Cooks(m)' > 0 \/ attempts'[m] > MaxAttempts]_vars
  BY RowsGo
<1>2. QED
  BY <1>1, DrainInvariant, PTL DEF Spec, RowKeptUntilCooked

-----------------------------------------------------------------------------
\* What cannot make a message cook twice: its jobs stay as they are or end, and
\* what becomes due or is remembered has no job that lives or has cooked.
Untouched(m) == \A i \in DOMAIN jobs[m] : ~Live(m, i) /\ ~Cooked(m, i)

SameJobs ==
    \A m \in Msgs :
      /\ DOMAIN jobs'[m] = DOMAIN jobs[m]
      /\ \A i \in DOMAIN jobs[m] :
           /\ jobs'[m][i].host = jobs[m][i].host /\ jobs'[m][i].path = jobs[m][i].path
           /\ jobs'[m][i].cooked = jobs[m][i].cooked
           /\ jobs'[m][i].pc \notin Ended => jobs[m][i].pc \notin Ended

\* kind tells the same of what was posted.
Known == Met \subseteq Met' /\ slipped \subseteq slipped' /\ \A m \in Met : kind'[m] = kind[m]

\* What may become a row or due.
NewRow(m) == m \in Msgs /\ (m \in slipped' \/ jobs[m] = <<>>) /\ kind'[m] # "fork"
NewDue(m) == m \in slipped' \/ (~overlap => Untouched(m))

(* QuietStep: such a step keeps OnceInv.                                     *)
LEMMA QuietStep ==
    ASSUME DrainInv, OnceInv, SameJobs, Known, LiveUp',
           \A m \in rows' : m \in rows \/ NewRow(m),
           ~overlap' => ~overlap /\ Sole',
           \A h \in Hosts : \A m \in Due(h)' :
              (\E g \in Hosts : m \in Due(g)) \/ NewDue(m)
    PROVE  OnceInv'
<1> USE DEF NewRow
<1>1. \A m \in Msgs : \A i : Live(m, i)' => Live(m, i)
  BY DEF SameJobs, Live
<1>2. \A m \in Msgs : \A i : Cooked(m, i)' <=> Cooked(m, i)
  BY DEF SameJobs, Cooked
<1>3. \A m \in rows : m \in Met /\ m \in Msgs
  BY DEF DrainInv, Shape, TypeOK
<1>4. RowKinds'
  <2>1. \A m \in rows' : kind'[m] # "fork"
    BY <1>3 DEF OnceInv, RowKinds, Known
  <2>2. ASSUME NEW m \in Msgs, NEW i \in DOMAIN jobs'[m], jobs'[m][i].path = "anon"
        PROVE  m \in Met' /\ kind'[m] = "fork"
    <3>1. i \in DOMAIN jobs[m] /\ jobs[m][i].path = "anon"
      BY <2>2 DEF SameJobs
    <3>2. QED
      BY <3>1 DEF OnceInv, RowKinds, Known
  <2>3. QED
    BY <2>1, <2>2 DEF RowKinds
<1>5. ASSUME ~overlap' PROVE OneLive' /\ CookedOver'
  <2>1. OneLive /\ CookedOver /\ ~overlap
    BY <1>5 DEF OnceInv
  <2> DEFINE Plain == Msgs \ slipped'
  <2>0. Plain \subseteq Msgs \ slipped /\ Plain \subseteq Msgs
    BY DEF Known
  <2>2. \A m \in Plain : \A i \in DOMAIN jobs[m] :
          Live(m, i) \/ Cooked(m, i) => \A h \in Hosts : m \notin Due(h)'
    <3>1. ASSUME NEW m \in Plain, NEW i \in DOMAIN jobs[m], Live(m, i) \/ Cooked(m, i),
                 NEW h \in Hosts, m \in Due(h)'
          PROVE  FALSE
      <4>1. (\E g \in Hosts : m \in Due(g)) \/ NewDue(m)
        BY <3>1
      <4>2. ~Untouched(m)
        BY <3>1 DEF Untouched
      <4>3. \E g \in Hosts : m \in Due(g)
        BY <4>1, <4>2, <2>1, <3>1 DEF NewDue
      <4>4. QED
        BY <2>0, <2>1, <3>1, <4>3 DEF OneLive, CookedOver
    <3>2. QED
      BY <3>1
  <2>3. OneLive'
    <3>1. ASSUME NEW m \in Plain, NEW i \in DOMAIN jobs'[m], NEW j \in DOMAIN jobs'[m]
          PROVE  /\ Live(m, i)' /\ Live(m, j)' => i = j
                 /\ Live(m, i)' => \A h \in Hosts : m \notin Due(h)'
      <4>1. i \in DOMAIN jobs[m] /\ j \in DOMAIN jobs[m]
        BY DEF SameJobs
      <4>2. QED
        BY <4>1, <1>1, <2>0, <2>1, <2>2 DEF OneLive
    <3>2. QED
      BY <3>1 DEF OneLive
  <2>4. CookedOver'
    <3>1. ASSUME NEW m \in Plain, NEW i \in DOMAIN jobs'[m], Cooked(m, i)'
          PROVE  /\ m \notin rows' /\ \A h \in Hosts : m \notin Due(h)'
                 /\ \A j \in DOMAIN jobs'[m] : Cooked(m, j)' \/ Live(m, j)' => j = i
      <4>1. i \in DOMAIN jobs[m] /\ Cooked(m, i) /\ jobs[m] # <<>>
        BY <3>1, <1>2, <2>0 DEF SameJobs
      <4>2. m \notin rows /\ \A j \in DOMAIN jobs[m] : Cooked(m, j) \/ Live(m, j) => j = i
        BY <4>1, <2>0, <2>1 DEF CookedOver
      <4>3. \A j \in DOMAIN jobs'[m] : Cooked(m, j)' \/ Live(m, j)' => j = i
        BY <4>2, <1>1, <1>2, <2>0 DEF SameJobs
      <4>4. QED
        BY <4>1, <4>2, <4>3, <2>2
    <3>2. QED
      BY <3>1 DEF CookedOver
  <2>5. QED
    BY <2>3, <2>4
<1>6. QED
  BY <1>4, <1>5 DEF OnceInv

LEMMA JobOfHost ==
    ASSUME Shape, NEW m \in Msgs, NEW i \in DOMAIN jobs[m]
    PROVE  jobs[m][i] \in JobRecords /\ jobs[m][i].host \in Hosts
<1>1. jobs[m] \in Seq(JobRecords)
  BY DEF Shape, TypeOK
<1>2. jobs[m][i] \in JobRecords
  BY <1>1
<1>3. QED
  BY <1>2 DEF JobRecords

(* PlainStep: a step of a host that is up, and goes on, submits nothing.     *)
Low == {"off", "stale", "list"}

LEMMA PlainStep ==
    ASSUME DrainInv, OnceInv, NEW h \in Hosts, Only(h), Up(h), hpc'[h] \notin Low,
           jobs' = jobs, overlap' = overlap, Known,
           \A m \in rows' : m \in rows \/ NewRow(m),
           \A m \in Due(h)' : m \in Due(h) \/ NewDue(m)
    PROVE  OnceInv'
<1>1. SameJobs
  BY DEF SameJobs
<1>2. \A g \in Hosts : hpc[g] \notin Low => hpc'[g] \notin Low
  BY DEF Only
<1>3. \A m \in Msgs : \A i \in DOMAIN jobs[m] : jobs[m][i].host \in Hosts
  BY JobOfHost DEF DrainInv
<1>4. LiveUp'
  BY <1>2, <1>3 DEF OnceInv, LiveUp, Live, Low
<1>5. Sole => Sole'
  BY DEF Only, Sole, Up
<1>6. \A g \in Hosts \ {h} : Due(g)' = Due(g)
  BY DEF Only, Due, Cur
<1>7. QED
  BY <1>1, <1>4, <1>5, <1>6, QuietStep DEF OnceInv

(* SubmitStep: a message whose jobs are over and did not cook gets one more. *)
LEMMA SubmitStep ==
    ASSUME DrainInv, OnceInv, NEW h \in Hosts, NEW m \in Msgs, NEW path \in Paths,
           Submit(h, m, path), Only(h), hpc[h] \notin Low, hpc'[h] \notin Low,
           UNCHANGED <<kind, seen, slipped, rows, overlap>>,
           path = "anon" => m \in Met /\ kind[m] = "fork",
           Due(h)' \subseteq Due(h) \ {m},
           ~overlap => Untouched(m) \/ m \in slipped
    PROVE  OnceInv'
<1> DEFINE z == Len(jobs[m]) + 1
<1>1. /\ \A n \in Msgs \ {m} : jobs'[n] = jobs[n]
      /\ DOMAIN jobs'[m] = DOMAIN jobs[m] \cup {z} /\ z \notin DOMAIN jobs[m]
      /\ jobs'[m][z] = NewJob(h, path)
      /\ \A j \in DOMAIN jobs[m] : jobs'[m][j] = jobs[m][j]
  BY JobAdd DEF DrainInv
<1> HIDE DEF z
<1>2. /\ jobs'[m][z].host = h /\ jobs'[m][z].path = path /\ ~jobs'[m][z].cooked
      /\ jobs'[m][z].pc = "queued" /\ "queued" \notin Ended
  BY <1>1 DEF NewJob, Ended
<1>3. \A n \in Msgs : \A j \in DOMAIN jobs[n] : j \in DOMAIN jobs'[n] /\ jobs'[n][j] = jobs[n][j]
  BY <1>1
<1>4. \A n \in Msgs : \A j \in DOMAIN jobs'[n] : j \in DOMAIN jobs[n] \/ (n = m /\ j = z)
  BY <1>1
<1>5. LiveUp'
  <2>1. ASSUME NEW n \in Msgs, NEW j \in DOMAIN jobs'[n], Live(n, j)'
        PROVE  hpc'[jobs'[n][j].host] \notin Low
    <3>1. CASE j \in DOMAIN jobs[n]
      <4>1. Live(n, j) /\ jobs'[n][j] = jobs[n][j]
        BY <3>1, <2>1, <1>3 DEF Live
      <4>2. hpc[jobs[n][j].host] \notin Low /\ jobs[n][j].host \in Hosts
        BY <3>1, <4>1, JobOfHost DEF OnceInv, LiveUp, Low, DrainInv
      <4>3. QED
        BY <4>1, <4>2 DEF Only
    <3>2. CASE n = m /\ j = z
      BY <3>2, <1>2
    <3>3. QED
      BY <3>1, <3>2, <1>4
  <2>2. QED
    BY <2>1 DEF LiveUp, Low
<1>6. RowKinds'
  <2>1. ASSUME NEW n \in Msgs, NEW j \in DOMAIN jobs'[n], jobs'[n][j].path = "anon"
        PROVE  n \in Met /\ kind[n] = "fork"
    <3>1. CASE j \in DOMAIN jobs[n]
      BY <3>1, <2>1, <1>3 DEF OnceInv, RowKinds
    <3>2. CASE n = m /\ j = z
      BY <3>2, <2>1, <1>2
    <3>3. QED
      BY <3>1, <3>2, <1>4
  <2>2. QED
    BY <2>1 DEF OnceInv, RowKinds
<1>7. ASSUME ~overlap PROVE Sole' /\ OneLive' /\ CookedOver'
  <2> DEFINE Plain == Msgs \ slipped
  <2>0. Plain \subseteq Msgs /\ Plain' = Plain
    OBVIOUS
  <2>1. Sole /\ OneLive /\ CookedOver /\ (m \in slipped \/ Untouched(m))
    BY <1>7 DEF OnceInv
  <2>2. Sole'
    BY <2>1 DEF Only, Sole, Up, Low
  <2>3. \A g \in Hosts : Due(g)' \subseteq Due(g) /\ m \notin Due(g)'
    <3>1. ASSUME NEW g \in Hosts \ {h} PROVE Due(g)' = {} /\ Due(g) = {}
      <4>1. hpc[g] = "off" /\ hpc'[g] = "off"
        BY <2>1 DEF Sole, Up, Only, Low
      <4>2. QED
        BY <4>1 DEF Due
    <3>2. QED
      BY <3>1
  <2>4. ASSUME NEW n \in Msgs, NEW j \in DOMAIN jobs'[n]
        PROVE  /\ Live(n, j)' => Live(n, j) \/ (n = m /\ j = z)
               /\ Cooked(n, j)' => Cooked(n, j)
    <3>1. CASE j \in DOMAIN jobs[n]
      BY <3>1, <1>3 DEF Live, Cooked
    <3>2. CASE n = m /\ j = z
      BY <3>2, <1>2 DEF Cooked
    <3>3. QED
      BY <3>1, <3>2, <1>4
  <2>5. \A n \in Plain : \A j : Live(n, j) => j \in DOMAIN jobs[n] /\ n # m
    BY <2>1 DEF Live, Untouched
  <2>6. \A n \in Plain : \A j : Cooked(n, j) => j \in DOMAIN jobs[n] /\ n # m
    BY <2>1 DEF Cooked, Untouched
  <2>7. OneLive'
    <3>1. ASSUME NEW n \in Plain, NEW i \in DOMAIN jobs'[n], NEW j \in DOMAIN jobs'[n],
                 Live(n, i)'
          PROVE  (Live(n, j)' => i = j) /\ \A g \in Hosts : n \notin Due(g)'
      <4>1. CASE n = m
        BY <4>1, <3>1, <2>3, <2>4, <2>5
      <4>2. CASE n # m
        <5>1. Live(n, i) /\ (Live(n, j)' => Live(n, j))
          BY <4>2, <3>1, <2>4
        <5>2. QED
          BY <5>1, <2>1, <2>3, <2>5 DEF OneLive
      <4>3. QED
        BY <4>1, <4>2
    <3>2. QED
      BY <3>1 DEF OneLive
  <2>8. CookedOver'
    <3>1. ASSUME NEW n \in Plain, NEW i \in DOMAIN jobs'[n], Cooked(n, i)'
          PROVE  /\ n \notin rows' /\ \A g \in Hosts : n \notin Due(g)'
                 /\ \A j \in DOMAIN jobs'[n] : Cooked(n, j)' \/ Live(n, j)' => j = i
      <4>1. Cooked(n, i) /\ i \in DOMAIN jobs[n] /\ n # m
        BY <3>1, <2>4, <2>6
      <4>2. /\ n \notin rows /\ \A g \in Hosts : n \notin Due(g)
            /\ \A j \in DOMAIN jobs[n] : Cooked(n, j) \/ Live(n, j) => j = i
        BY <4>1, <2>1 DEF CookedOver
      <4>3. \A j \in DOMAIN jobs'[n] : Cooked(n, j)' \/ Live(n, j)' => j = i
        BY <4>1, <4>2, <2>4, <2>5, <2>6
      <4>4. QED
        BY <4>2, <4>3, <2>3
    <3>2. QED
      BY <3>1 DEF CookedOver
  <2>9. QED
    BY <2>2, <2>7, <2>8
<1>8. QED
  BY <1>5, <1>6, <1>7 DEF OnceInv

(* JobOnce: the one live job of a message cooks it and drops its row.        *)
LEMMA JobOnce ==
    ASSUME DrainInv, OnceInv, NEW m \in Msgs, NEW i \in Slots, JobStep(m, i)
    PROVE  OnceInv'
<1>1. /\ i \in DOMAIN jobs[m] /\ UNCHANGED jobVars /\ Met' = Met
      /\ jobs[m][i].pc \notin Ended /\ rows' \subseteq rows
  BY JobStepFacts
<1>2. UNCHANGED <<kind, hpc, batch, slipped, overlap>>
  BY <1>1 DEF jobVars, memVars
<1>3. PICK r \in JobRecords :
        /\ JobChanges(m, i, r) /\ r.host = jobs[m][i].host /\ r.path = jobs[m][i].path
        /\ \/ r.cooked = jobs[m][i].cooked
           \/ BindInbound(m, i) /\ r.cooked /\ r.pc \notin Ended
  BY JobStepFacts
<1>4. /\ \A n \in Msgs : DOMAIN jobs'[n] = DOMAIN jobs[n]
      /\ \A n \in Msgs : \A j \in DOMAIN jobs[n] :
           jobs'[n][j] = IF n = m /\ j = i THEN r ELSE jobs[n][j]
  BY <1>1, <1>3, JobSet DEF DrainInv
<1>5. Live(m, i) /\ \A n \in Msgs : \A j : Live(n, j)' => Live(n, j)
  BY <1>1, <1>4 DEF Live
<1>6. LiveUp'
  BY <1>2, <1>3, <1>4, <1>5 DEF OnceInv, LiveUp
<1>7. \A h \in Hosts : Due(h)' = Due(h)
  BY <1>2 DEF Due, Cur
<1>8. (Sole <=> Sole')
  BY <1>2 DEF Sole, Up
<1>9. CASE r.cooked = jobs[m][i].cooked
  <2>1. SameJobs
    BY <1>1, <1>3, <1>4, <1>9 DEF SameJobs
  <2>2. QED
    BY <2>1, <1>1, <1>2, <1>6, <1>7, <1>8, QuietStep DEF Known, OnceInv
<1>10. CASE BindInbound(m, i) /\ r.cooked /\ r.pc \notin Ended
  <2>1. m \notin rows'
    BY <1>1, <1>10 DEF BindInbound, OnceInv, RowKinds
  <2>2. RowKinds'
    BY <1>1, <1>2, <1>3, <1>4 DEF OnceInv, RowKinds
  <2>3. ASSUME ~overlap PROVE OneLive' /\ CookedOver'
    <3> DEFINE Plain == Msgs \ slipped
    <3>0. Plain \subseteq Msgs /\ Plain' = Plain
      BY <1>2
    <3>1. OneLive /\ CookedOver
      BY <2>3 DEF OnceInv
    <3>2. OneLive'
      BY <3>1, <1>2, <1>4, <1>5, <1>7 DEF OneLive
    <3>3. m \in Plain => \A h \in Hosts : m \notin Due(h)
      BY <3>1, <1>1, <1>5 DEF OneLive
    <3>4. m \in Plain => \A j \in DOMAIN jobs[m] : Cooked(m, j) \/ Live(m, j) => j = i
      BY <3>1, <1>1, <1>5 DEF OneLive, CookedOver
    <3>5. ASSUME NEW n \in Plain, NEW k \in DOMAIN jobs[n], Cooked(n, k)'
          PROVE  /\ n \notin rows' /\ \A h \in Hosts : n \notin Due(h)'
                 /\ \A j \in DOMAIN jobs[n] : Cooked(n, j)' \/ Live(n, j)' => j = k
      <4>1. CASE n = m
        <5>1. \A j \in DOMAIN jobs[m] : Cooked(m, j)' => Cooked(m, j) \/ j = i
          BY <1>4 DEF Cooked
        <5>2. QED
          BY <5>1, <4>1, <3>3, <3>4, <3>5, <2>1, <1>5, <1>7
      <4>2. CASE n # m
        <5>1. \A j : Cooked(n, j)' <=> Cooked(n, j)
          BY <4>2, <1>4 DEF Cooked
        <5>2. QED
          BY <5>1, <3>1, <3>5, <1>1, <1>5, <1>7 DEF CookedOver
      <4>3. QED
        BY <4>1, <4>2
    <3>6. CookedOver'
      BY <3>5, <1>2, <1>4 DEF CookedOver
    <3>7. QED
      BY <3>2, <3>6
  <2>4. QED
    BY <2>2, <2>3, <1>2, <1>6, <1>8 DEF OnceInv
<1>11. QED
  BY <1>3, <1>9, <1>10

(* StartOnce, EndOnce: hosts come and go.                                    *)
LEMMA HostStartOnce ==
    ASSUME DrainInv, OnceInv, NEW h \in Hosts, HostStart(h) PROVE OnceInv'
<1> USE DEF storeVars
<1>1. hpc[h] = "off" /\ Due(h) = {}
  BY DEF HostStart, Up, Due
<1>2. hpc' = [hpc EXCEPT ![h] = "stale"]
  BY DEF HostStart
<1>3. hpc'[h] = "stale" /\ \A g \in Hosts \ {h} : hpc'[g] = hpc[g]
  BY <1>2 DEF DrainInv, Shape, TypeOK
<1>4. SameJobs /\ Known
  BY DEF HostStart, SameJobs, Known
<1>5. LiveUp'
  <2>1. ASSUME NEW m \in Msgs, NEW i \in DOMAIN jobs[m], Live(m, i)
        PROVE  hpc'[jobs[m][i].host] \notin Low
    BY <2>1, <1>1, <1>3, JobOfHost DEF DrainInv, OnceInv, LiveUp, Low
  <2>2. jobs' = jobs
    BY DEF HostStart
  <2>3. QED
    BY <2>1, <2>2 DEF LiveUp, Live, Low
<1>6. ~overlap' => ~overlap /\ Sole'
  BY <1>3 DEF HostStart, Sole, Up
<1>7. \A g \in Hosts : Due(g)' \subseteq Due(g)
  BY <1>1, <1>3 DEF HostStart, Due, Cur
<1>8. rows' = rows
  BY DEF HostStart
<1>9. QED
  BY <1>4, <1>5, <1>6, <1>7, <1>8, QuietStep

LEMMA FailStaleOnce ==
    ASSUME DrainInv, OnceInv, NEW h \in Hosts, FailStale(h) PROVE OnceInv'
<1> USE DEF storeVars
<1>1. /\ hpc[h] = "stale" /\ hpc' = [hpc EXCEPT ![h] = "list"]
      /\ UNCHANGED <<kind, seen, slipped, rows, batch, overlap>>
      /\ jobs' = [m \in Msgs |-> [i \in DOMAIN jobs[m] |->
                   IF jobs[m][i].run = "running"
                   THEN [jobs[m][i] EXCEPT !.run = "failed"] ELSE jobs[m][i]]]
  BY DEF FailStale
<1>2. hpc'[h] = "list" /\ \A g \in Hosts \ {h} : hpc'[g] = hpc[g]
  BY <1>1 DEF DrainInv, Shape, TypeOK
<1>3. ASSUME NEW m \in Msgs, NEW i \in DOMAIN jobs[m]
      PROVE  /\ jobs'[m][i].host = jobs[m][i].host /\ jobs'[m][i].path = jobs[m][i].path
             /\ jobs'[m][i].cooked = jobs[m][i].cooked /\ jobs'[m][i].pc = jobs[m][i].pc
  <2>1. jobs[m][i] \in JobRecords
    BY JobOfHost DEF DrainInv
  <2>2. jobs'[m][i] \in {jobs[m][i], [jobs[m][i] EXCEPT !.run = "failed"]}
    BY <1>1
  <2>3. QED
    BY <2>1, <2>2 DEF JobRecords
<1>4. \A m \in Msgs : DOMAIN jobs'[m] = DOMAIN jobs[m]
  BY <1>1
<1>5. SameJobs /\ Known
  BY <1>1, <1>3, <1>4 DEF SameJobs, Known
<1>6. LiveUp'
  <2>1. ASSUME NEW m \in Msgs, NEW i \in DOMAIN jobs'[m], Live(m, i)'
        PROVE  hpc'[jobs'[m][i].host] \notin Low
    <3>1. i \in DOMAIN jobs[m] /\ Live(m, i) /\ jobs[m][i].host \in Hosts
      BY <2>1, <1>3, <1>4, JobOfHost DEF Live, DrainInv
    <3>2. QED
      BY <3>1, <1>1, <1>2, <1>3 DEF OnceInv, LiveUp, Low
  <2>2. QED
    BY <2>1 DEF LiveUp, Low
<1>7. Sole <=> Sole'
  BY <1>1, <1>2 DEF Sole, Up
<1>8. \A g \in Hosts : Due(g)' = Due(g)
  BY <1>1, <1>2 DEF Due, Cur
<1>9. QED
  BY <1>1, <1>5, <1>6, <1>7, <1>8, QuietStep DEF OnceInv

LEMMA DieOnce == ASSUME DrainInv, OnceInv, NEW h \in Hosts, Ends(h) PROVE OnceInv'
<1>1. /\ hpc' = [hpc EXCEPT ![h] = "off"] /\ batch' = [batch EXCEPT ![h] = {}]
      /\ UNCHANGED <<kind, seen, slipped, rows, overlap>>
      /\ jobs' = [m \in Msgs |-> [i \in DOMAIN jobs[m] |->
                   IF jobs[m][i].host = h /\ jobs[m][i].pc \notin Ended
                   THEN [jobs[m][i] EXCEPT !.pc = "killed"] ELSE jobs[m][i]]]
  BY DEF Ends, Die
<1>2. /\ hpc'[h] = "off"
      /\ \A g \in Hosts \ {h} : hpc'[g] = hpc[g] /\ batch'[g] = batch[g]
  BY <1>1 DEF DrainInv, Shape, TypeOK
<1>3. ASSUME NEW m \in Msgs, NEW i \in DOMAIN jobs[m]
      PROVE  /\ jobs'[m][i].host = jobs[m][i].host /\ jobs'[m][i].path = jobs[m][i].path
             /\ jobs'[m][i].cooked = jobs[m][i].cooked
             /\ jobs'[m][i].pc \notin Ended => jobs[m][i].pc \notin Ended /\ jobs[m][i].host # h
  <2>1. jobs[m][i] \in JobRecords
    BY JobOfHost DEF DrainInv
  <2>2. CASE jobs[m][i].host = h /\ jobs[m][i].pc \notin Ended
    <3>1. jobs'[m][i] = [jobs[m][i] EXCEPT !.pc = "killed"]
      BY <2>2, <1>1
    <3>2. QED
      BY <2>1, <3>1 DEF JobRecords, Ended
  <2>3. CASE ~(jobs[m][i].host = h /\ jobs[m][i].pc \notin Ended)
    <3>1. jobs'[m][i] = jobs[m][i]
      BY <2>3, <1>1
    <3>2. QED
      BY <2>3, <3>1
  <2>4. QED
    BY <2>2, <2>3
<1>4. \A m \in Msgs : DOMAIN jobs'[m] = DOMAIN jobs[m]
  BY <1>1
<1>5. SameJobs /\ Known
  BY <1>1, <1>3, <1>4 DEF SameJobs, Known
<1>6. LiveUp'
  <2>1. ASSUME NEW m \in Msgs, NEW i \in DOMAIN jobs'[m], Live(m, i)'
        PROVE  hpc'[jobs'[m][i].host] \notin Low
    <3>1. /\ i \in DOMAIN jobs[m] /\ Live(m, i) /\ jobs[m][i].host \in Hosts \ {h}
          /\ jobs'[m][i].host = jobs[m][i].host
      BY <2>1, <1>3, <1>4, JobOfHost DEF Live, DrainInv
    <3>2. QED
      BY <3>1, <1>2 DEF OnceInv, LiveUp, Low
  <2>2. QED
    BY <2>1 DEF LiveUp, Low
<1>7. Sole => Sole'
  BY <1>1, <1>2 DEF Sole, Up
<1>8. \A g \in Hosts : Due(g)' \subseteq Due(g)
  BY <1>1, <1>2 DEF Due, Cur
<1>9. QED
  BY <1>1, <1>5, <1>6, <1>7, <1>8, QuietStep DEF OnceInv

(* ListOnce, ReplayOnce: what a starting host alone replays has no live job, *)
(* and was not cooked: its row would be gone.                                *)
LEMMA ListOnce == ASSUME DrainInv, OnceInv, NEW h \in Hosts, ListRows(h) PROVE OnceInv'
<1> USE DEF storeVars
<1>1. /\ hpc[h] = "list" /\ hpc' = [hpc EXCEPT ![h] = "replay"]
      /\ batch' = [batch EXCEPT ![h] = Entries(rows, FALSE)]
      /\ UNCHANGED <<kind, seen, slipped, rows, whisper, ready, jobs, overlap>>
  BY DEF ListRows
<1>2. Only(h) /\ hpc'[h] = "replay" /\ batch'[h] = Entries(rows, FALSE)
  BY <1>1 DEF Only, DrainInv, Shape, TypeOK
<1>3. ASSUME NEW m \in Due(h)' PROVE m \in rows
  <2>1. Due(h)' = {e.msg : e \in Entries(rows, FALSE)}
    BY <1>2 DEF Due
  <2>2. PICK e \in Entries(rows, FALSE) : m = e.msg
    BY <2>1, <1>3
  <2>3. PICK k \in rows : e = [msg |-> k, memo |-> FALSE]
    BY DEF Entries
  <2>4. QED
    BY <2>2, <2>3
<1>4. ASSUME ~overlap, NEW m \in rows, m \notin slipped PROVE Untouched(m)
  <2>1. Sole /\ CookedOver /\ m \in Msgs
    BY <1>4 DEF OnceInv, DrainInv, Shape, TypeOK
  <2>2. \A i \in DOMAIN jobs[m] : ~Cooked(m, i)
    BY <2>1, <1>4 DEF CookedOver
  <2>3. ASSUME NEW i \in DOMAIN jobs[m], Live(m, i) PROVE FALSE
    <3>1. jobs[m][i].host \in Hosts /\ hpc[jobs[m][i].host] \notin Low
      BY <2>1, <2>3, JobOfHost DEF OnceInv, LiveUp, Low, DrainInv
    <3>2. jobs[m][i].host = h
      BY <2>1, <3>1, <1>1 DEF Sole, Up, Low
    <3>3. QED
      BY <3>1, <3>2, <1>1 DEF Low
  <2>4. QED
    BY <2>2, <2>3 DEF Untouched
<1>5. Up(h) /\ hpc'[h] \notin Low /\ Known
  BY <1>1, <1>2 DEF Up, Low, Known
<1>6. \A m \in Due(h)' : NewDue(m)
  BY <1>1, <1>3, <1>4 DEF NewDue
<1>7. QED
  BY <1>1, <1>2, <1>5, <1>6, PlainStep

LEMMA ListFailsOnce == ASSUME DrainInv, OnceInv, NEW h \in Hosts, ListFails(h) PROVE OnceInv'
<1> USE DEF storeVars
<1>1. /\ hpc[h] = "list" /\ hpc' = [hpc EXCEPT ![h] = "replay"] /\ batch[h] = {}
      /\ UNCHANGED <<kind, seen, slipped, rows, batch, whisper, ready, jobs, overlap>>
  BY DEF ListFails, DrainInv, Placed
<1>2. Only(h) /\ hpc'[h] = "replay" /\ batch'[h] = {}
  BY <1>1 DEF Only, DrainInv, Shape, TypeOK
<1>3. Due(h)' = {}
  BY <1>2 DEF Due
<1>4. Up(h) /\ hpc'[h] \notin Low /\ Known
  BY <1>1, <1>2 DEF Up, Low, Known
<1>5. QED
  BY <1>1, <1>2, <1>3, <1>4, PlainStep

LEMMA DueUntouched ==
    ASSUME OnceInv, ~overlap, NEW h \in Hosts, NEW m \in Due(h), m \in Msgs \ slipped
    PROVE  Untouched(m)
  BY DEF OnceInv, OneLive, CookedOver, Untouched

LEMMA ReplayOnce == ASSUME DrainInv, OnceInv, NEW h \in Hosts, Replays(h) PROVE OnceInv'
<1> DEFINE m == Cur(h)
           F == First(batch[h])
<1>1. /\ hpc[h] = "replay" /\ batch[h] # {} /\ m \in Msgs /\ F \in batch[h]
      /\ batch[h] \in SUBSET [msg : Msgs, memo : BOOLEAN] /\ \A e \in batch[h] : ~e.memo
  BY CurFacts DEF DrainInv, Replays, At, Placed, Shape, TypeOK
<1>2. /\ batch' = [batch EXCEPT ![h] = batch[h] \ {F}]
      /\ UNCHANGED <<kind, seen, slipped, hpc, whisper, ready, overlap>>
  BY DEF Replays, Drop
<1>3. Only(h) /\ hpc'[h] = "replay" /\ batch'[h] = batch[h] \ {F}
  BY <1>1, <1>2 DEF Only, DrainInv, Shape, TypeOK
<1>4. Due(h) = {e.msg : e \in batch[h]} /\ Due(h)' = {e.msg : e \in batch[h] \ {F}}
  BY <1>1, <1>3 DEF Due
<1>5. ASSUME NEW e \in batch[h] \ {F} PROVE e.msg # m
  <2>1. e.memo = FALSE /\ F.memo = FALSE /\ F.msg = m
    BY <1>1 DEF Cur
  <2>2. e = [msg |-> e.msg, memo |-> e.memo] /\ F = [msg |-> F.msg, memo |-> F.memo]
    BY <1>1
  <2>3. QED
    BY <2>1, <2>2
<1> HIDE DEF F
<1>6. m \in Due(h) /\ Due(h)' \subseteq Due(h) \ {m}
  <2>1. F.msg = m
    BY DEF Cur, F
  <2>2. QED
    BY <2>1, <1>1, <1>4, <1>5
<1>7. Up(h) /\ hpc[h] \notin Low /\ hpc'[h] \notin Low /\ Known
  BY <1>1, <1>2, <1>3 DEF Up, Low, Known
<1>8. \/ rows' \subseteq rows /\ jobs' = jobs
      \/ rows' = rows /\ Submit(h, m, "claimed")
  BY DEF Replays
<1>9. CASE rows' \subseteq rows /\ jobs' = jobs
  BY <1>2, <1>3, <1>6, <1>7, <1>9, PlainStep
<1>10. CASE rows' = rows /\ Submit(h, m, "claimed")
  BY <1>1, <1>2, <1>3, <1>6, <1>7, <1>10, SubmitStep, DueUntouched DEF Paths
<1>11. QED
  BY <1>8, <1>9, <1>10

(* DrainOnce: of a drain's steps only a submit adds a job, and its message   *)
(* has none yet.                                                             *)
LEMMA SubmittedOnce ==
    ASSUME DrainInv, OnceInv, NEW h \in Hosts, NEW path \in Paths, Submits(h, path)
    PROVE  OnceInv'
<1> USE DEF storeVars
<1> DEFINE c == Cur(h)
<1>1. /\ hpc[h] \in {"claimed", "recorded"} /\ batch[h] # {}
      /\ c \in Msgs /\ c \in Met /\ (path = "anon" => kind[c] = "fork")
  BY CurFacts DEF Submits, At, DrainInv, Placed
<1>2. /\ UNCHANGED <<kind, seen, slipped, rows, batch, whisper, ready, overlap>>
      /\ hpc' = [hpc EXCEPT ![h] = "advance"] /\ Submit(h, c, path)
  BY DEF Submits, Goto
<1>3. Only(h) /\ hpc'[h] = "advance"
  BY <1>2 DEF Only, DrainInv, Shape, TypeOK
<1>4. Due(h)' = {} /\ hpc[h] \notin Low /\ hpc'[h] \notin Low
  BY <1>1, <1>3 DEF Due, Low
<1>5. ~overlap => Untouched(c) \/ c \in slipped
  <2>1. CASE hpc[h] = "claimed"
    <3>1. c \in Held(h)
      BY <2>1 DEF Held, Taken
    <3>2. c \in slipped \/ jobs[c] = <<>>
      BY <3>1 DEF DrainInv, HeldFresh, Fresh
    <3>3. QED
      BY <3>2 DEF Untouched
  <2>2. CASE hpc[h] = "recorded"
    <3>1. c \in Due(h)
      BY <2>2 DEF Due
    <3>2. QED
      BY <3>1, <1>1, DueUntouched
  <2>3. QED
    BY <1>1, <2>1, <2>2
<1>6. QED
  BY <1>1, <1>2, <1>3, <1>4, <1>5, SubmitStep

LEMMA DrainOnce ==
    ASSUME DrainInv, OnceInv, NEW h \in Hosts,
           \/ ClaimGateway(h) \/ Poll(h) \/ PollEnd(h) \/ PassOver(h) \/ SkipSeen(h) \/ Claim(h)
           \/ ClaimRaises(h) \/ Record(h) \/ RecordFails(h) \/ Advance(h) \/ AdvanceFails(h)
    PROVE  OnceInv'
<1> USE DEF storeVars, Goto, TakeOn
<1> DEFINE c == Cur(h)
<1>1. /\ UNCHANGED <<kind, jobs, overlap>> /\ seen \subseteq seen'
      /\ slipped \subseteq slipped'
      /\ hpc[h] \in {"replay", "poll", "message", "claimed", "advance"}
  BY DEF ClaimGateway, Poll, PollEnd, PassOver, SkipSeen, Claim, ClaimRaises, Record, RecordFails, Advance,
       AdvanceFails, At
<1>2. \E s \in {"poll", "message", "claimed", "recorded", "advance"} :
        hpc' = [hpc EXCEPT ![h] = s] /\ (s = "recorded" => Record(h) \/ RecordFails(h))
  BY DEF ClaimGateway, Poll, PollEnd, PassOver, SkipSeen, Claim, ClaimRaises, Record, RecordFails, Advance,
       AdvanceFails
<1>3. \A g \in Hosts \ {h} : hpc'[g] = hpc[g]
  BY <1>2 DEF DrainInv, Shape, TypeOK
<1>4. /\ hpc'[h] \in {"poll", "message", "claimed", "recorded", "advance"}
      /\ hpc'[h] = "recorded" => Record(h) \/ RecordFails(h)
  BY <1>2 DEF DrainInv, Shape, TypeOK
<1>5. \A g \in Hosts \ {h} : batch'[g] = batch[g] /\ ready'[g] = ready[g]
                             /\ whisper'[g] = whisper[g]
  BY DEF ClaimGateway, Poll, PollEnd, PassOver, SkipSeen, Claim, ClaimRaises, Record, RecordFails, Advance,
       AdvanceFails, Drop, DrainInv, Shape, TypeOK
<1>6. Only(h) /\ Up(h) /\ hpc'[h] \notin Low /\ Known
  BY <1>1, <1>3, <1>4, <1>5 DEF Only, Up, Low, Known
<1>7. CASE Record(h) \/ RecordFails(h)
  <2>1. /\ hpc[h] = "claimed" /\ kind[c] \in {"ask", "voice"} /\ rows' \in {rows, rows \cup {c}}
        /\ batch' = batch /\ hpc'[h] = "recorded"
    BY <1>7 DEF Record, RecordFails, At, DrainInv, Shape, TypeOK
  <2>2. batch[h] # {} /\ c \in Msgs /\ c \in Held(h)
    BY <2>1, CurFacts DEF DrainInv, Placed, Working, Held, Taken
  <2>3. c \in slipped' \/ jobs[c] = <<>>
    BY <2>2, <1>1 DEF DrainInv, HeldFresh, Fresh
  <2>4. Due(h)' = {c} /\ NewDue(c)
    BY <2>1, <2>3 DEF Due, Cur, Untouched, NewDue
  <2>5. kind'[c] # "fork"
    BY <2>1, <1>1
  <2>6. \A m \in rows' : m \in rows \/ NewRow(m)
    BY <2>1, <2>2, <2>3, <2>5 DEF NewRow
  <2>7. QED
    BY <1>1, <1>6, <2>4, <2>6, PlainStep
<1>8. CASE ~(Record(h) \/ RecordFails(h))
  <2>1. rows' = rows
    BY <1>8 DEF ClaimGateway, Poll, PollEnd, PassOver, SkipSeen, Claim, ClaimRaises, Advance,
       AdvanceFails
  <2>2. Due(h)' = {}
    BY <1>4, <1>8 DEF Due
  <2>3. QED
    BY <1>1, <1>6, <2>1, <2>2, PlainStep
<1>9. QED
  BY <1>7, <1>8

LEMMA TranscribedOnce ==
    ASSUME DrainInv, OnceInv, NEW h \in Hosts, NEW m \in Msgs, NEW ok \in BOOLEAN,
           Transcribed(h, m, ok)
    PROVE  OnceInv'
<1> USE DEF storeVars
<1>1. /\ UNCHANGED <<kind, seen, slipped, rows, hpc, batch, jobs, overlap>> /\ Listening(h)
  BY DEF Transcribed, DrainInv, Placed
<1>2. SameJobs /\ Known /\ (Sole <=> Sole') /\ LiveUp'
  BY <1>1 DEF SameJobs, Known, Sole, Up, OnceInv, LiveUp, Live
<1>3. \A g \in Hosts : Due(g)' = Due(g)
  BY <1>1 DEF Due, Cur
<1>4. QED
  BY <1>1, <1>2, <1>3, QuietStep DEF OnceInv

LEMMA FrameOnce ==
    ASSUME DrainInv, OnceInv, \/ \E k \in Kinds : Post(k)
                              \/ SetHalted
                              \/ UNCHANGED vars
    PROVE  OnceInv'
<1> USE DEF storeVars, memVars, vars
<1>1. UNCHANGED <<seen, slipped, rows, hpc, batch, jobs, overlap>>
  BY DEF Post, SetHalted
<1>2. \A m \in Met : kind'[m] = kind[m]
  <2>1. kind \in Seq(Kinds) /\ Met \subseteq 1..Len(kind)
    BY DEF DrainInv, Shape, TypeOK, posted
  <2>2. kind' = kind \/ \E k \in Kinds : kind' = Append(kind, k)
    BY DEF Post, SetHalted
  <2>3. QED
    BY <2>1, <2>2
<1>3. SameJobs /\ Known /\ (Sole <=> Sole') /\ LiveUp'
  BY <1>1, <1>2 DEF SameJobs, Known, Sole, Up, OnceInv, LiveUp, Live
<1>4. \A g \in Hosts : Due(g)' = Due(g)
  BY <1>1 DEF Due, Cur
<1>5. QED
  BY <1>1, <1>3, <1>4, QuietStep DEF OnceInv

-----------------------------------------------------------------------------
LEMMA OnceInit == Init => OnceInv
<1> SUFFICES ASSUME Init PROVE OnceInv
  OBVIOUS
<1>1. /\ rows = {} /\ overlap = FALSE /\ \A m \in Msgs : DOMAIN jobs[m] = {}
      /\ \A h \in Hosts : ~Up(h)
  BY DEF Init, Up
<1>2. LiveUp /\ RowKinds /\ Sole /\ OneLive /\ CookedOver
  BY <1>1 DEF LiveUp, RowKinds, Sole, OneLive, CookedOver
<1>3. QED
  BY <1>2 DEF OnceInv

LEMMA OnceNext == DrainInv /\ OnceInv /\ [Next]_vars => OnceInv'
<1> SUFFICES ASSUME DrainInv, OnceInv, [Next]_vars PROVE OnceInv'
  OBVIOUS
<1>1. CASE \/ \E k \in Kinds : Post(k)
           \/ SetHalted
           \/ UNCHANGED vars
  BY <1>1, FrameOnce
<1>2. CASE \E h \in Hosts : HostStart(h) \/ HostDie(h) \/ StartStep(h)
  <2>1. PICK h \in Hosts : HostStart(h) \/ HostDie(h) \/ StartStep(h)
    BY <1>2
  <2>2. CASE HostDie(h) \/ RefuseGateway(h)
    BY <2>2, DieOnce DEF HostDie, RefuseGateway, Ends
  <2>3. CASE Replay(h) \/ ReplayUncounted(h) \/ GiveUpFails(h)
    <3>1. Replays(h)
      BY <2>3, ReplayFacts DEF DrainInv
    <3>2. QED
      BY <3>1, ReplayOnce
  <2>4. QED
    BY <2>1, <2>2, <2>3, HostStartOnce, FailStaleOnce, ListOnce, ListFailsOnce, DrainOnce
       DEF StartStep
<1>3. CASE \E h \in Hosts : DrainStep(h)
  <2>1. PICK h \in Hosts : DrainStep(h)
    BY <1>3
  <2>2. CASE SubmitAsk(h) \/ SubmitHandoff(h) \/ SubmitFork(h)
    <3>1. \E path \in Paths : Submits(h, path)
      BY <2>2 DEF SubmitAsk, SubmitHandoff, SubmitFork, Submits, Paths
    <3>2. QED
      BY <3>1, SubmittedOnce
  <2>3. QED
    BY <2>1, <2>2, DrainOnce DEF DrainStep
<1>4. CASE \E h \in Hosts, m \in Msgs, ok \in BOOLEAN : Transcribed(h, m, ok)
  BY <1>4, TranscribedOnce
<1>5. CASE \E m \in Msgs, i \in Slots : JobStep(m, i)
  BY <1>5, JobOnce
<1>6. QED
  BY <1>1, <1>2, <1>3, <1>4, <1>5 DEF Next

(* CookedOnce: no message whose claim never raised is cooked twice, over     *)
(* every crash, replay, re-read and failing write, as long as no host is     *)
(* started while another is up.                                              *)
THEOREM CookedOnce == ASSUME ConstantsOK PROVE Spec => []CookOnce
<1>1. ASSUME OnceInv PROVE CookOnce
  <2>1. ASSUME ~overlap, NEW m \in Msgs \ slipped PROVE Cooks(m) <= 1
    <3> DEFINE S == {i \in DOMAIN jobs[m] : jobs[m][i].cooked}
    <3>1. CASE S = {}
      <4>1. Cardinality({}) = 0
        BY FS_EmptySet
      <4>2. QED
        BY <3>1, <4>1 DEF Cooks
    <3>2. CASE S # {}
      <4>1. PICK i \in S : TRUE
        BY <3>2
      <4>2. S = {i}
        BY <1>1, <2>1, <4>1 DEF OnceInv, CookedOver, Cooked
      <4>3. Cardinality({i}) = 1
        BY FS_Singleton
      <4>4. QED
        BY <4>2, <4>3 DEF Cooks
    <3>3. QED
      BY <3>1, <3>2
  <2>2. QED
    BY <2>1 DEF CookOnce
<1>2. Spec => [](DrainInv /\ OnceInv)
  BY DrainInit, DrainNext, OnceInit, OnceNext, PTL DEF Spec
<1>3. QED
  BY <1>1, <1>2, PTL
=============================================================================
