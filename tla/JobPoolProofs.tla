---------------------------- MODULE JobPoolProofs ----------------------------
(***************************************************************************)
(* Proofs about JobPool for any set of jobs, any checkouts and any         *)
(* max_live.                                                               *)
(*                                                                         *)
(* SlotsExact, WriteExclusion and WaitComplete are not inductive: the      *)
(* lock table has to name the job that is inside a lock (LockNamed), _live *)
(* has to be exactly the jobs between submit and the end of their thread   *)
(* (LiveExact), and a wait() that saw _live empty has to be covered by     *)
(* threads that ended (WaitCovered).  Inv is their conjunction.            *)
(***************************************************************************)
EXTENDS JobPool, FiniteSetTheorems, TLAPS

LockNamed ==
    \A j \in Jobs :
        /\ pc[j] = "lock" => lockName[j] # None
        /\ pc[j] \in InRunner /\ lockName[j] # None => holder[lockName[j]] = j

LiveExact == \A j \in Jobs : j \in live <=> pc[j] \notin {"none", "gone"}

WaitCovered ==
    /\ \A j \in awaited : pc[j] # "none"
    /\ main = "draining" => \A j \in awaited : pc[j] = "gone"

\* While no channel is bound anew, a write job with a checkout has its lock.
KeySteady ==
    binds = 0 =>
        \A j \in Jobs :
            pc[j] # "none" /\ ask[j].writes /\ Checkout(ask[j]) # None =>
                /\ lockName[j] = Checkout(ask[j])
                /\ pc[j] = "cook" => tree[j] = Checkout(ask[j])

Inv == /\ ConstantsOK /\ TypeOK /\ SlotsExact /\ LockNamed
       /\ ReceiptOnce /\ LiveExact /\ WaitCovered /\ KeySteady

-----------------------------------------------------------------------------
(* WriteKeyType: submit asks for the lock of a checkout or a channel, or for *)
(* no lock (resolved_write_key).                                             *)
LEMMA WriteKeyType ==
    ASSUME ConstantsOK, TypeOK, NEW a \in Asks
    PROVE  /\ WriteKey(a) \in Keys \cup {None}
           /\ CookTree(a) \in Trees
           /\ Checkout(a) \in Trees \cup {None}
           /\ a \in AskRecords
<1>1. a \in AskRecords
  BY DEF ConstantsOK
<1>2. Checkout(a) \in Trees \cup {None}
  BY <1>1 DEF Checkout, AskRecords, TypeOK
<1>3. QED
  BY <1>1, <1>2 DEF ConstantsOK, WriteKey, CookTree, Keys, AskRecords

(* SlotHoldersChange: a thread that enters the slotted part of its life     *)
(* adds one to the number of slot holders, one that leaves it takes one     *)
(* away.                                                                    *)
LEMMA SlotHoldersChange ==
    ASSUME ConstantsOK, TypeOK, NEW j \in Jobs, NEW v, pc' = [pc EXCEPT ![j] = v]
    PROVE  /\ Cardinality(SlotHolders) \in Nat
           /\ pc[j] \notin HasSlot /\ v \in HasSlot =>
                Cardinality(SlotHolders') = Cardinality(SlotHolders) + 1
           /\ pc[j] \in HasSlot /\ v \notin HasSlot =>
                Cardinality(SlotHolders') = Cardinality(SlotHolders) - 1
           /\ (pc[j] \in HasSlot <=> v \in HasSlot) => SlotHolders' = SlotHolders
<1>1. IsFiniteSet(SlotHolders)
  <2>1. SlotHolders \subseteq Jobs
    BY DEF SlotHolders
  <2>2. QED
    BY <2>1, FS_Subset DEF ConstantsOK
<1>2. Cardinality(SlotHolders) \in Nat
  BY <1>1, FS_CardinalityType
<1>3. ASSUME pc[j] \notin HasSlot, v \in HasSlot
      PROVE  Cardinality(SlotHolders') = Cardinality(SlotHolders) + 1
  <2>1. SlotHolders' = SlotHolders \cup {j} /\ j \notin SlotHolders
    BY <1>3 DEF SlotHolders, TypeOK
  <2>2. QED
    BY <2>1, <1>1, FS_AddElement
<1>4. ASSUME pc[j] \in HasSlot, v \notin HasSlot
      PROVE  Cardinality(SlotHolders') = Cardinality(SlotHolders) - 1
  <2>1. SlotHolders' = SlotHolders \ {j} /\ j \in SlotHolders
    BY <1>4 DEF SlotHolders, TypeOK
  <2>2. QED
    BY <2>1, <1>1, FS_RemoveElement
<1>5. ASSUME pc[j] \in HasSlot <=> v \in HasSlot
      PROVE  SlotHolders' = SlotHolders
  BY <1>5 DEF SlotHolders, TypeOK
<1>6. QED
  BY <1>2, <1>3, <1>4, <1>5

-----------------------------------------------------------------------------
(* InitInv: the empty pool satisfies the invariant.                          *)
LEMMA InitInv == ConstantsOK /\ Init => Inv
<1> SUFFICES ASSUME ConstantsOK, Init PROVE Inv
  OBVIOUS
<1>1. TypeOK
  BY DEF ConstantsOK, Init, TypeOK
<1>2. SlotsExact
  <2>1. SlotHolders = {}
    BY DEF Init, SlotHolders, HasSlot
  <2>2. QED
    BY <2>1, FS_EmptySet DEF Init, SlotsExact
<1>3. LockNamed /\ ReceiptOnce /\ LiveExact /\ WaitCovered /\ KeySteady
  BY DEF Init, LockNamed, ReceiptOnce, LiveExact, WaitCovered, KeySteady, InRunner
<1>4. QED
  BY <1>1, <1>2, <1>3 DEF Inv

(* TypeStep: every operation of the pool keeps its tables well-typed; the    *)
(* counter stays within 0..MaxLive because a slot is taken below MaxLive.    *)
LEMMA TypeStep == ConstantsOK /\ TypeOK /\ [Next]_vars => TypeOK'
<1> SUFFICES ASSUME ConstantsOK, TypeOK, [Next]_vars PROVE TypeOK'
  OBVIOUS
<1>0. MaxLive \in Nat
  BY DEF ConstantsOK
<1>1. ASSUME NEW c \in Channels, NEW t \in Trees, Bind(c, t) PROVE TypeOK'
  BY <1>1 DEF ConstantsOK, TypeOK, Bind, poolVars, mainVars
<1>2. ASSUME NEW j \in Jobs, NEW a \in Asks, Submit(j, a) PROVE TypeOK'
  BY <1>2, WriteKeyType DEF TypeOK, Submit, mainVars
<1>3. ASSUME NEW j \in Jobs, JobStep(j) PROVE TypeOK'
  <2>1. CASE StartThread(j)
    BY <2>1 DEF TypeOK, StartThread, poolVars, mainVars
  <2>2. CASE TakeSlot(j)
    BY <2>2, <1>0 DEF TypeOK, TakeSlot, mainVars
  <2>3. CASE TakeLock(j)
    BY <2>3 DEF TypeOK, TakeLock, mainVars
  <2>4. CASE Resolve(j)
    <3>1. CookTree(ask[j]) \in Trees
      <4>1. ask[j] \in Asks
        BY <2>4 DEF Resolve, TypeOK
      <4>2. QED
        BY <4>1, WriteKeyType
    <3>2. QED
      BY <3>1, <2>4 DEF TypeOK, Resolve, poolVars, mainVars
  <2>5. CASE EndRunner(j)
    <3>1. holder' \in [Keys -> Jobs \cup {None}]
      BY <2>5 DEF TypeOK, EndRunner
    <3>2. pc' = [pc EXCEPT ![j] = "settle"] /\ pc[j] # "none"
      BY <2>5 DEF EndRunner, InRunner
    <3>3. QED
      BY <3>1, <3>2, <2>5 DEF TypeOK, EndRunner, mainVars
  <2>6. CASE AppendReceipt(j)
    BY <2>6 DEF TypeOK, AppendReceipt, mainVars
  <2>7. CASE EndThread(j)
    BY <2>7, <1>0 DEF TypeOK, EndThread, mainVars
  <2>8. QED
    BY <1>3, <2>1, <2>2, <2>3, <2>4, <2>5, <2>6, <2>7 DEF JobStep
<1>4. ASSUME MainStep PROVE TypeOK'
  <2>1. CASE Reap
    BY <2>1 DEF TypeOK, Reap, TakeReceipts
  <2>2. CASE WaitCall
    BY <2>2 DEF TypeOK, WaitCall, poolVars
  <2>3. CASE WaitPoll
    BY <2>3 DEF TypeOK, WaitPoll, poolVars
  <2>4. CASE WaitJoin
    BY <2>4 DEF TypeOK, WaitJoin, poolVars
  <2>5. CASE WaitRaise
    BY <2>5 DEF TypeOK, WaitRaise, poolVars
  <2>6. CASE WaitReturn
    BY <2>6 DEF TypeOK, WaitReturn, TakeReceipts
  <2>7. QED
    BY <1>4, <2>1, <2>2, <2>3, <2>4, <2>5, <2>6 DEF MainStep
<1>5. CASE UNCHANGED vars
  BY <1>5 DEF TypeOK, vars, poolVars, mainVars
<1>6. QED
  BY <1>1, <1>2, <1>3, <1>4, <1>5 DEF Next

(* SlotsStep: a slot is counted when it is taken and given back once, by the *)
(* finally block, so the counter and the slot holders change together.       *)
LEMMA SlotsStep == ConstantsOK /\ TypeOK /\ SlotsExact /\ [Next]_vars => SlotsExact'
<1> SUFFICES ASSUME ConstantsOK, TypeOK, SlotsExact, [Next]_vars PROVE SlotsExact'
  OBVIOUS
<1>0. running \in Nat
  BY DEF ConstantsOK, TypeOK
<1>1. ASSUME NEW c \in Channels, NEW t \in Trees, Bind(c, t) PROVE SlotsExact'
  BY <1>1 DEF SlotsExact, SlotHolders, Bind, poolVars
<1>2. ASSUME NEW j \in Jobs, NEW a \in Asks, Submit(j, a) PROVE SlotsExact'
  <2>1. pc' = [pc EXCEPT ![j] = "registered"] /\ pc[j] = "none"
    BY <1>2 DEF Submit
  <2>2. pc[j] \notin HasSlot /\ "registered" \notin HasSlot
    BY <2>1 DEF HasSlot
  <2>3. SlotHolders' = SlotHolders
    BY <2>1, <2>2, SlotHoldersChange
  <2>4. QED
    BY <2>3, <1>2 DEF SlotsExact, Submit
<1>3. ASSUME NEW j \in Jobs, JobStep(j) PROVE SlotsExact'
  <2>1. CASE StartThread(j)
    <3>1. pc' = [pc EXCEPT ![j] = "slot"] /\ pc[j] = "registered"
      BY <2>1 DEF StartThread
    <3>2. pc[j] \notin HasSlot /\ "slot" \notin HasSlot
      BY <3>1 DEF HasSlot, InRunner
    <3>3. SlotHolders' = SlotHolders
      BY <3>1, <3>2, SlotHoldersChange
    <3>4. QED
      BY <3>3, <2>1 DEF SlotsExact, StartThread, poolVars
  <2>2. CASE TakeSlot(j)
    <3>1. PICK v \in {"resolve", "lock"} : pc' = [pc EXCEPT ![j] = v]
      BY <2>2 DEF TakeSlot
    <3>2. pc[j] \notin HasSlot /\ v \in HasSlot
      BY <2>2 DEF TakeSlot, HasSlot
    <3>3. Cardinality(SlotHolders') = Cardinality(SlotHolders) + 1
      BY <3>1, <3>2, SlotHoldersChange
    <3>4. QED
      BY <3>3, <2>2 DEF SlotsExact, TakeSlot
  <2>3. CASE TakeLock(j)
    <3>1. pc' = [pc EXCEPT ![j] = "resolve"] /\ pc[j] = "lock"
      BY <2>3 DEF TakeLock
    <3>2. pc[j] \in HasSlot /\ "resolve" \in HasSlot
      BY <3>1 DEF HasSlot, InRunner
    <3>3. SlotHolders' = SlotHolders
      BY <3>1, <3>2, SlotHoldersChange
    <3>4. QED
      BY <3>3, <2>3 DEF SlotsExact, TakeLock
  <2>4. CASE Resolve(j)
    <3>1. pc' = [pc EXCEPT ![j] = "cook"] /\ pc[j] = "resolve"
      BY <2>4 DEF Resolve
    <3>2. pc[j] \in HasSlot /\ "cook" \in HasSlot
      BY <3>1 DEF HasSlot, InRunner
    <3>3. SlotHolders' = SlotHolders
      BY <3>1, <3>2, SlotHoldersChange
    <3>4. QED
      BY <3>3, <2>4 DEF SlotsExact, Resolve, poolVars
  <2>5. CASE EndRunner(j)
    <3>1. pc' = [pc EXCEPT ![j] = "settle"] /\ pc[j] \in InRunner
      BY <2>5 DEF EndRunner
    <3>2. pc[j] \in HasSlot /\ "settle" \in HasSlot
      BY <3>1 DEF HasSlot, InRunner
    <3>3. SlotHolders' = SlotHolders
      BY <3>1, <3>2, SlotHoldersChange
    <3>4. QED
      BY <3>3, <2>5 DEF SlotsExact, EndRunner
  <2>6. CASE AppendReceipt(j)
    <3>1. pc' = [pc EXCEPT ![j] = "post"] /\ pc[j] = "settle"
      BY <2>6 DEF AppendReceipt
    <3>2. pc[j] \in HasSlot /\ "post" \in HasSlot
      BY <3>1 DEF HasSlot, InRunner
    <3>3. SlotHolders' = SlotHolders
      BY <3>1, <3>2, SlotHoldersChange
    <3>4. QED
      BY <3>3, <2>6 DEF SlotsExact, AppendReceipt
  <2>7. CASE EndThread(j)
    <3>1. pc' = [pc EXCEPT ![j] = "gone"] /\ pc[j] = "post"
      BY <2>7 DEF EndThread
    <3>2. pc[j] \in HasSlot /\ "gone" \notin HasSlot
      BY <3>1 DEF HasSlot
    <3>3. Cardinality(SlotHolders') = Cardinality(SlotHolders) - 1
      BY <3>1, <3>2, SlotHoldersChange
    <3>4. running > 0
      <4>1. j \in SlotHolders /\ SlotHolders \subseteq Jobs
        BY <3>2 DEF SlotHolders
      <4>2. Cardinality(SlotHolders) # 0
        BY <4>1, FS_Subset, FS_EmptySet DEF ConstantsOK
      <4>3. QED
        BY <4>2, <1>0 DEF SlotsExact
    <3>5. QED
      BY <3>3, <3>4, <2>7, <1>0 DEF SlotsExact, EndThread
  <2>8. QED
    BY <1>3, <2>1, <2>2, <2>3, <2>4, <2>5, <2>6, <2>7 DEF JobStep
<1>4. ASSUME MainStep PROVE SlotsExact'
  BY <1>4 DEF SlotsExact, SlotHolders, MainStep, Reap, WaitCall, WaitPoll, WaitJoin,
              WaitRaise, WaitReturn, TakeReceipts, poolVars
<1>5. CASE UNCHANGED vars
  BY <1>5 DEF SlotsExact, SlotHolders, vars, poolVars
<1>6. QED
  BY <1>1, <1>2, <1>3, <1>4, <1>5 DEF Next

(* LockStep: a job inside a write lock is the holder the lock table names:   *)
(* it enters only a free lock, and only its own exit frees it.               *)
LEMMA LockStep == ConstantsOK /\ TypeOK /\ LockNamed /\ [Next]_vars => LockNamed'
<1> SUFFICES ASSUME ConstantsOK, TypeOK, LockNamed, [Next]_vars PROVE LockNamed'
  OBVIOUS
<1>1. ASSUME NEW c \in Channels, NEW t \in Trees, Bind(c, t) PROVE LockNamed'
  BY <1>1 DEF LockNamed, Bind, poolVars
<1>2. ASSUME NEW j \in Jobs, NEW a \in Asks, Submit(j, a) PROVE LockNamed'
  BY <1>2 DEF LockNamed, TypeOK, Submit, InRunner
<1>3. ASSUME NEW j \in Jobs, JobStep(j) PROVE LockNamed'
  <2>1. CASE StartThread(j)
    BY <2>1 DEF LockNamed, TypeOK, StartThread, poolVars, InRunner
  <2>2. CASE TakeSlot(j)
    BY <2>2 DEF LockNamed, TypeOK, TakeSlot, InRunner
  <2>3. CASE TakeLock(j)
    BY <2>3 DEF ConstantsOK, LockNamed, TypeOK, TakeLock, InRunner
  <2>4. CASE Resolve(j)
    BY <2>4 DEF LockNamed, TypeOK, Resolve, poolVars, InRunner
  <2>5. CASE EndRunner(j)
    <3> SUFFICES ASSUME NEW i \in Jobs
                 PROVE  /\ pc'[i] = "lock" => lockName'[i] # None
                        /\ pc'[i] \in InRunner /\ lockName'[i] # None =>
                             holder'[lockName'[i]] = i
      BY DEF LockNamed
    <3>1. CASE i = j
      BY <3>1, <2>5 DEF EndRunner, TypeOK, InRunner
    <3>2. CASE i # j
      <4>1. pc'[i] = pc[i] /\ lockName' = lockName /\ pc[j] \in InRunner
        BY <3>2, <2>5 DEF EndRunner, TypeOK
      <4>2. ASSUME pc[i] \in InRunner, lockName[i] # None
            PROVE  lockName[i] # lockName[j]
        BY <3>2, <4>1, <4>2 DEF LockNamed
      <4>3. ASSUME pc[i] \in InRunner, lockName[i] # None
            PROVE  holder'[lockName[i]] = i
        BY <4>2, <4>3, <2>5 DEF EndRunner, LockNamed, TypeOK
      <4>4. QED
        BY <4>1, <4>3 DEF LockNamed
    <3>3. QED
      BY <3>1, <3>2
  <2>6. CASE AppendReceipt(j)
    BY <2>6 DEF LockNamed, TypeOK, AppendReceipt, InRunner
  <2>7. CASE EndThread(j)
    BY <2>7 DEF LockNamed, TypeOK, EndThread, InRunner
  <2>8. QED
    BY <1>3, <2>1, <2>2, <2>3, <2>4, <2>5, <2>6, <2>7 DEF JobStep
<1>4. ASSUME MainStep PROVE LockNamed'
  BY <1>4 DEF LockNamed, MainStep, Reap, WaitCall, WaitPoll, WaitJoin,
              WaitRaise, WaitReturn, TakeReceipts, poolVars
<1>5. CASE UNCHANGED vars
  BY <1>5 DEF LockNamed, vars, poolVars
<1>6. QED
  BY <1>1, <1>2, <1>3, <1>4, <1>5 DEF Next

(* ReceiptStep: the one receipt of a job appears when its runner has ended   *)
(* and afterwards only moves from _done to the caller of reap.               *)
LEMMA ReceiptStep == ConstantsOK /\ TypeOK /\ ReceiptOnce /\ [Next]_vars => ReceiptOnce'
<1> SUFFICES ASSUME ConstantsOK, TypeOK, ReceiptOnce, [Next]_vars PROVE ReceiptOnce'
  OBVIOUS
<1>1. ASSUME NEW c \in Channels, NEW t \in Trees, Bind(c, t) PROVE ReceiptOnce'
  BY <1>1 DEF ReceiptOnce, Bind, poolVars, mainVars
<1>2. ASSUME NEW j \in Jobs, NEW a \in Asks, Submit(j, a) PROVE ReceiptOnce'
  BY <1>2 DEF ReceiptOnce, TypeOK, Submit, mainVars
<1>3. ASSUME NEW j \in Jobs, JobStep(j) PROVE ReceiptOnce'
  <2>1. CASE AppendReceipt(j)
    BY <2>1 DEF ReceiptOnce, TypeOK, AppendReceipt, mainVars
  <2>2. ASSUME ~AppendReceipt(j)
        PROVE  /\ done' = done /\ collected' = collected
               /\ \A i \in Jobs : pc'[i] \in {"post", "gone"} <=> pc[i] \in {"post", "gone"}
    BY <1>3, <2>2 DEF JobStep, TypeOK, StartThread, TakeSlot, TakeLock, Resolve,
                      EndRunner, EndThread, poolVars, mainVars, InRunner
  <2>3. QED
    BY <2>1, <2>2 DEF ReceiptOnce
<1>4. ASSUME MainStep PROVE ReceiptOnce'
  <2>1. pc' = pc
    BY <1>4 DEF MainStep, Reap, WaitCall, WaitPoll, WaitJoin, WaitRaise, WaitReturn
  <2>2. \/ TakeReceipts
        \/ done' = done /\ collected' = collected
    BY <1>4 DEF MainStep, Reap, WaitCall, WaitPoll, WaitJoin, WaitRaise, WaitReturn, poolVars
  <2>3. CASE TakeReceipts
    BY <2>1, <2>3 DEF ReceiptOnce, TypeOK, TakeReceipts
  <2>4. QED
    BY <2>1, <2>2, <2>3 DEF ReceiptOnce
<1>5. CASE UNCHANGED vars
  BY <1>5 DEF ReceiptOnce, vars
<1>6. QED
  BY <1>1, <1>2, <1>3, <1>4, <1>5 DEF Next

(* LiveStep: _live gains a job in submit and loses it in the finally block,  *)
(* after its receipt; a wait() that found _live empty has only ended threads *)
(* to answer for.                                                            *)
LEMMA LiveStep ==
    ConstantsOK /\ TypeOK /\ LiveExact /\ WaitCovered /\ [Next]_vars =>
        LiveExact' /\ WaitCovered'
<1> SUFFICES ASSUME ConstantsOK, TypeOK, LiveExact, WaitCovered, [Next]_vars
             PROVE  LiveExact' /\ WaitCovered'
  OBVIOUS
<1>1. ASSUME NEW c \in Channels, NEW t \in Trees, Bind(c, t)
      PROVE  LiveExact' /\ WaitCovered'
  BY <1>1 DEF LiveExact, WaitCovered, Bind, poolVars, mainVars
<1>2. ASSUME NEW j \in Jobs, NEW a \in Asks, Submit(j, a)
      PROVE  LiveExact' /\ WaitCovered'
  BY <1>2 DEF LiveExact, WaitCovered, TypeOK, Submit, mainVars
<1>3. ASSUME NEW j \in Jobs, JobStep(j) PROVE LiveExact' /\ WaitCovered'
  <2>1. /\ pc[j] \notin {"none", "gone"} /\ pc'[j] # "none"
        /\ \A i \in Jobs \ {j} : pc'[i] = pc[i]
        /\ main' = main /\ awaited' = awaited
    BY <1>3 DEF JobStep, TypeOK, StartThread, TakeSlot, TakeLock, Resolve, EndRunner,
                AppendReceipt, EndThread, mainVars, InRunner
  <2>2. live' = IF pc'[j] = "gone" THEN live \ {j} ELSE live
    BY <1>3 DEF JobStep, TypeOK, StartThread, TakeSlot, TakeLock, Resolve, EndRunner,
                AppendReceipt, EndThread, poolVars
  <2>3. LiveExact'
    BY <2>1, <2>2 DEF LiveExact
  <2>4. WaitCovered'
    BY <2>1 DEF WaitCovered, TypeOK
  <2>5. QED
    BY <2>3, <2>4
<1>4. ASSUME MainStep PROVE LiveExact' /\ WaitCovered'
  <2>1. CASE Reap
    BY <2>1 DEF LiveExact, WaitCovered, Reap
  <2>2. CASE WaitCall
    BY <2>2 DEF LiveExact, WaitCovered, WaitCall, poolVars
  <2>3. CASE WaitPoll
    BY <2>3 DEF LiveExact, WaitCovered, WaitPoll, poolVars, TypeOK
  <2>4. CASE WaitJoin
    BY <2>4 DEF LiveExact, WaitCovered, WaitJoin, poolVars
  <2>5. CASE WaitRaise
    BY <2>5 DEF LiveExact, WaitCovered, WaitRaise, poolVars
  <2>6. CASE WaitReturn
    BY <2>6 DEF LiveExact, WaitCovered, WaitReturn
  <2>7. QED
    BY <1>4, <2>1, <2>2, <2>3, <2>4, <2>5, <2>6 DEF MainStep
<1>5. CASE UNCHANGED vars
  BY <1>5 DEF LiveExact, WaitCovered, vars, poolVars, mainVars
<1>6. QED
  BY <1>1, <1>2, <1>3, <1>4, <1>5 DEF Next

(* KeyStep: until a `bind` command, the checkout submit locked is the one    *)
(* run_task resolves, because both read the same binding.                    *)
LEMMA KeyStep == ConstantsOK /\ TypeOK /\ KeySteady /\ [Next]_vars => KeySteady'
<1> SUFFICES ASSUME ConstantsOK, TypeOK, KeySteady, [Next]_vars PROVE KeySteady'
  OBVIOUS
<1>1. ASSUME NEW c \in Channels, NEW t \in Trees, Bind(c, t) PROVE KeySteady'
  <2>1. binds' # 0
    BY <1>1 DEF Bind, TypeOK
  <2>2. QED
    BY <2>1 DEF KeySteady
<1>2. ASSUME NEW j \in Jobs, NEW a \in Asks, Submit(j, a) PROVE KeySteady'
  <2> SUFFICES ASSUME binds' = 0, NEW i \in Jobs,
                      pc'[i] # "none", ask'[i].writes, Checkout(ask[i])' # None
               PROVE  /\ lockName'[i] = Checkout(ask[i])'
                      /\ pc'[i] = "cook" => tree'[i] = Checkout(ask[i])'
    BY DEF KeySteady
  <2>1. Checkout(ask[i])' = Checkout(ask'[i]) /\ binds = 0
    BY <1>2 DEF Checkout, Submit
  <2>2. CASE i = j
    BY <1>2, <2>1, <2>2 DEF Submit, TypeOK, WriteKey
  <2>3. CASE i # j
    BY <1>2, <2>1, <2>3 DEF Submit, TypeOK, KeySteady
  <2>4. QED
    BY <2>2, <2>3
<1>3. ASSUME NEW j \in Jobs, JobStep(j) PROVE KeySteady'
  <2>1. /\ binding' = binding /\ binds' = binds /\ ask' = ask /\ lockName' = lockName
        /\ pc[j] # "none" /\ \A i \in Jobs \ {j} : pc'[i] = pc[i]
    BY <1>3 DEF JobStep, TypeOK, StartThread, TakeSlot, TakeLock, Resolve, EndRunner,
                AppendReceipt, EndThread, InRunner
  <2>2. \A i \in Jobs : Checkout(ask[i])' = Checkout(ask[i])
    BY <2>1 DEF Checkout
  <2>3. CASE Resolve(j)
    <3>1. /\ tree'[j] = CookTree(ask[j])
          /\ \A i \in Jobs \ {j} : tree'[i] = tree[i]
      BY <2>3 DEF Resolve, TypeOK
    <3>2. QED
      BY <2>1, <2>2, <3>1 DEF KeySteady, CookTree
  <2>4. CASE ~Resolve(j)
    <3>1. tree' = tree /\ pc'[j] # "cook"
      BY <1>3, <2>4 DEF JobStep, TypeOK, StartThread, TakeSlot, TakeLock, EndRunner,
                        AppendReceipt, EndThread
    <3>2. QED
      BY <2>1, <2>2, <3>1 DEF KeySteady
  <2>5. QED
    BY <2>3, <2>4
<1>4. ASSUME MainStep PROVE KeySteady'
  BY <1>4 DEF KeySteady, Checkout, MainStep, Reap, WaitCall, WaitPoll, WaitJoin,
              WaitRaise, WaitReturn
<1>5. CASE UNCHANGED vars
  BY <1>5 DEF KeySteady, Checkout, vars
<1>6. QED
  BY <1>1, <1>2, <1>3, <1>4, <1>5 DEF Next

-----------------------------------------------------------------------------
(* InvHolds: the strengthened invariant of the pool.                         *)
THEOREM InvHolds == ASSUME ConstantsOK PROVE Spec => []Inv
<1>1. Inv /\ [Next]_vars => Inv'
  <2>1. ConstantsOK => ConstantsOK'
    BY DEF ConstantsOK, AskRecords
  <2>2. QED
    BY <2>1, TypeStep, SlotsStep, LockStep, ReceiptStep, LiveStep, KeyStep DEF Inv
<1>2. QED
  BY InitInv, <1>1, PTL DEF Spec

(* PoolTypes: the pool's tables stay well-typed and _running <= max_live.    *)
THEOREM PoolTypes == ASSUME ConstantsOK PROVE Spec => []TypeOK
<1>1. Inv => TypeOK
  BY DEF Inv
<1>2. QED
  BY <1>1, InvHolds, PTL

(* SlotAccounting: _running is exact, for every number of jobs and slots.    *)
THEOREM SlotAccounting == ASSUME ConstantsOK PROVE Spec => []SlotsExact
<1>1. Inv => SlotsExact
  BY DEF Inv
<1>2. QED
  BY <1>1, InvHolds, PTL

(* WriteLockExclusion: no two runners are inside one write lock.             *)
THEOREM WriteLockExclusion == ASSUME ConstantsOK PROVE Spec => []WriteExclusion
<1>1. Inv => WriteExclusion
  BY DEF Inv, LockNamed, WriteExclusion
<1>2. QED
  BY <1>1, InvHolds, PTL

(* CheckoutExclusion: until a channel is bound anew, two write runs with a   *)
(* checkout never cook in one tree: their trees are their locks.             *)
THEOREM CheckoutExclusion == ASSUME ConstantsOK PROVE Spec => []BoundTreesExclusive
<1>1. Inv => BoundTreesExclusive
  BY DEF Inv, KeySteady, LockNamed, BoundTreesExclusive, InRunner
<1>2. QED
  BY <1>1, InvHolds, PTL

(* OneReceipt: a job leaves exactly one receipt and the loop gets it once.   *)
THEOREM OneReceipt == ASSUME ConstantsOK PROVE Spec => []ReceiptOnce
<1>1. Inv => ReceiptOnce
  BY DEF Inv
<1>2. QED
  BY <1>1, InvHolds, PTL

(* WaitGetsReceipts: wait() returns with the receipt of every job submitted  *)
(* before it was called.                                                     *)
THEOREM WaitGetsReceipts == ASSUME ConstantsOK PROVE Spec => WaitComplete
<1>1. Inv /\ [Next]_vars =>
        [main = "draining" /\ main' = "loop" => \A j \in awaited : collected'[j] = 1]_vars
  <2> SUFFICES ASSUME Inv, [Next]_vars, main = "draining", main' = "loop"
               PROVE  \A j \in awaited : collected'[j] = 1
    OBVIOUS
  <2>1. WaitReturn
    <3>1. ~\E c \in Channels, t \in Trees : Bind(c, t)
      BY DEF Bind
    <3>2. ~\E j \in Jobs, a \in Asks : Submit(j, a)
      BY DEF Submit, mainVars
    <3>3. ~\E j \in Jobs : JobStep(j)
      BY DEF JobStep, StartThread, TakeSlot, TakeLock, Resolve, EndRunner,
             AppendReceipt, EndThread, mainVars
    <3>4. ~UNCHANGED vars
      BY DEF vars
    <3>5. MainStep
      BY <3>1, <3>2, <3>3, <3>4 DEF Next
    <3>6. QED
      BY <3>5 DEF MainStep, Reap, WaitCall, WaitPoll, WaitJoin, WaitRaise
  <2>2. \A j \in awaited : pc[j] = "gone" /\ j \in Jobs
    BY DEF Inv, WaitCovered, TypeOK
  <2>3. QED
    BY <2>1, <2>2 DEF WaitReturn, TakeReceipts, Inv, ReceiptOnce, TypeOK
<1>2. QED
  BY <1>1, InvHolds, PTL DEF Spec, WaitComplete
=============================================================================
