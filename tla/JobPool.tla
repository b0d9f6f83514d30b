------------------------------- MODULE JobPool -------------------------------
(***************************************************************************)
(* The background job pool of the host process                             *)
(* (src/agent_discord/orchestration/jobs.py): one OS thread per ask, at    *)
(* most MaxLive of them running, implement and swarm asks serialized by a  *)
(* write lock, receipts collected by the listen loop.                      *)
(*                                                                         *)
(* A job goes through the steps of JobPool.submit and of the closure run() *)
(* that its thread executes:                                               *)
(*                                                                         *)
(*   "none"       submit has not been called                               *)
(*   "registered" in _live, the thread is not started yet                  *)
(*   "slot"       polls _wait_for_run_slot                                 *)
(*   "lock"       holds a slot, waits for its write lock                   *)
(*   "resolve"    run_task is running, the checkout is not resolved yet    *)
(*   "cook"       run_task works in a checkout                             *)
(*   "settle"     run_task returned or raised, the write lock is released  *)
(*   "post"       the receipt is in _done, the finally block is pending    *)
(*   "gone"       the thread has ended                                     *)
(***************************************************************************)
EXTENDS Naturals, FiniteSets

CONSTANTS
    Jobs,         \* the calls of submit; a job id is unique (_seq under _lock)
    Channels,     \* Discord channels asks come from
    Trees,        \* checkouts of the host
    DefaultTree,  \* AgentOrchestrator.compute_cwd
    Asks,         \* what an ask says: its channel, the checkout it names, its mode
    MaxLive,      \* DISCORD_OS_MAX_LIVE
    MaxBinds,     \* bound of the model: `bind` commands in a behaviour
    None          \* no checkout, no lock, no job

AskRecords == [channel : Channels, names : Trees \cup {None}, writes : BOOLEAN]

\* What the theorems assume of the constants.
ConstantsOK ==
    /\ IsFiniteSet(Jobs) /\ None \notin Jobs
    /\ Channels \cap Trees = {} /\ None \notin Channels \cup Trees
    /\ DefaultTree \in Trees
    /\ Asks \subseteq AskRecords
    /\ MaxLive \in Nat \ {0} /\ MaxBinds \in Nat

VARIABLES
    binding,    \* channel_bindings: the checkout a channel is bound to, or None
    binds,      \* `bind` commands so far
    pc,         \* where each job is
    ask,        \* the TaskIntake a job was submitted with
    lockName,   \* the write lock submit chose for the job, None for a read
    tree,       \* the checkout run_task resolved for the job
    running,    \* JobPool._running
    live,       \* JobPool._live (and _live_threads)
    holder,     \* JobPool._write_locks: the job inside each write lock
    done,       \* JobPool._done: receipts of each job waiting to be reaped
    collected,  \* receipts of each job that reap or wait handed to the caller
    main,       \* the listen loop: "loop" outside wait, else where in wait()
    joinSet,    \* the threads wait() copied from _live
    awaited     \* history: jobs already submitted when the current wait() was called

vars == <<binding, binds, pc, ask, lockName, tree, running, live, holder,
          done, collected, main, joinSet, awaited>>

poolVars == <<running, live, holder, done>>
mainVars == <<collected, main, joinSet, awaited>>

-----------------------------------------------------------------------------
Keys  == Trees \cup Channels
NoAsk == [channel |-> None, names |-> None, writes |-> FALSE]

HasSlot  == {"lock", "resolve", "cook", "settle", "post"}
InRunner == {"resolve", "cook"}

\* resolve_run_checkout: a checkout the ask names, else the channel's realm.
Checkout(a) == IF a.names # None THEN a.names ELSE binding[a.channel]

\* Mutant of WriteKey: the channel's realm is not looked up.
NamedKey(a) ==
    IF ~a.writes THEN None
    ELSE IF a.names # None THEN a.names ELSE a.channel

\* resolved_write_key: that checkout, else the channel id; reads take no lock.
WriteKey(a) ==
    IF ~a.writes THEN None
    ELSE IF Checkout(a) # None THEN Checkout(a) ELSE a.channel

\* The tree _run_task cooks in: the checkout, else the default one.
CookTree(a) == IF Checkout(a) # None THEN Checkout(a) ELSE DefaultTree

-----------------------------------------------------------------------------
Init ==
    /\ binding \in [Channels -> Trees \cup {None}]
    /\ binds = 0
    /\ pc = [j \in Jobs |-> "none"]
    /\ ask = [j \in Jobs |-> NoAsk]
    /\ lockName = [j \in Jobs |-> None]
    /\ tree = [j \in Jobs |-> None]
    /\ running = 0
    /\ live = {}
    /\ holder = [k \in Keys |-> None]
    /\ done = [j \in Jobs |-> 0]
    /\ collected = [j \in Jobs |-> 0]
    /\ main = "loop"
    /\ joinSet = {}
    /\ awaited = {}

\* The listen loop absorbs a `bind` command (bind_channel_realm).
Bind(c, t) ==
    /\ main = "loop"
    /\ binds < MaxBinds
    /\ binds' = binds + 1
    /\ binding' = [binding EXCEPT ![c] = t]
    /\ UNCHANGED <<pc, ask, lockName, tree, poolVars, mainVars>>

\* submit, up to the registration in _live.
Submit(j, a) ==
    /\ pc[j] = "none"
    /\ pc' = [pc EXCEPT ![j] = "registered"]
    /\ ask' = [ask EXCEPT ![j] = a]
    /\ lockName' = [lockName EXCEPT ![j] = WriteKey(a)]
    /\ live' = live \cup {j}
    /\ UNCHANGED <<binding, binds, tree, running, holder, done, mainVars>>

\* thread.start()
StartThread(j) ==
    /\ pc[j] = "registered"
    /\ pc' = [pc EXCEPT ![j] = "slot"]
    /\ UNCHANGED <<binding, binds, ask, lockName, tree, poolVars, mainVars>>

\* Mutant of TakeSlot: the limit is off by one.
TakeSlotOverLimit(j) ==
    /\ pc[j] = "slot"
    /\ running <= MaxLive
    /\ running' = running + 1
    /\ pc' = [pc EXCEPT ![j] = IF lockName[j] = None THEN "resolve" ELSE "lock"]
    /\ UNCHANGED <<binding, binds, ask, lockName, tree, live, holder, done, mainVars>>

\* _wait_for_run_slot: the slot is taken before the write lock.
TakeSlot(j) ==
    /\ pc[j] = "slot"
    /\ running < MaxLive
    /\ running' = running + 1
    /\ pc' = [pc EXCEPT ![j] = IF lockName[j] = None THEN "resolve" ELSE "lock"]
    /\ UNCHANGED <<binding, binds, ask, lockName, tree, live, holder, done, mainVars>>

\* Mutant of TakeLock: every call makes a lock of its own.
TakeFreshLock(j) ==
    /\ pc[j] = "lock"
    /\ holder' = [holder EXCEPT ![lockName[j]] = j]
    /\ pc' = [pc EXCEPT ![j] = "resolve"]
    /\ UNCHANGED <<binding, binds, ask, lockName, tree, running, live, done, mainVars>>

\* with self._write_lock(lock_name):
TakeLock(j) ==
    /\ pc[j] = "lock"
    /\ holder[lockName[j]] = None
    /\ holder' = [holder EXCEPT ![lockName[j]] = j]
    /\ pc' = [pc EXCEPT ![j] = "resolve"]
    /\ UNCHANGED <<binding, binds, ask, lockName, tree, running, live, done, mainVars>>

\* run_task resolves the checkout it works in, with the binding of this moment.
Resolve(j) ==
    /\ pc[j] = "resolve"
    /\ tree' = [tree EXCEPT ![j] = CookTree(ask[j])]
    /\ pc' = [pc EXCEPT ![j] = "cook"]
    /\ UNCHANGED <<binding, binds, ask, lockName, poolVars, mainVars>>

\* Mutants of EndRunner: the thread leaves _live before its receipt is in _done;
\* an exception leaves the write lock held.
EndRunnerPopsLive(j) ==
    /\ pc[j] \in InRunner
    /\ pc' = [pc EXCEPT ![j] = "settle"]
    /\ holder' = [k \in Keys |-> IF k = lockName[j] THEN None ELSE holder[k]]
    /\ live' = live \ {j}
    /\ UNCHANGED <<binding, binds, ask, lockName, tree, running, done, mainVars>>

\* The runner returns or raises (before or after it has a checkout) and the
\* with block releases the write lock.
EndRunner(j) ==
    /\ pc[j] \in InRunner
    /\ pc' = [pc EXCEPT ![j] = "settle"]
    /\ holder' = [k \in Keys |-> IF k = lockName[j] THEN None ELSE holder[k]]
    /\ UNCHANGED <<binding, binds, ask, lockName, tree, running, live, done, mainVars>>

\* _done.append: the runner's receipt, or a FAILED one made from the exception.
AppendReceipt(j) ==
    /\ pc[j] = "settle"
    /\ pc' = [pc EXCEPT ![j] = "post"]
    /\ done' = [done EXCEPT ![j] = @ + 1]
    /\ UNCHANGED <<binding, binds, ask, lockName, tree, running, live, holder, mainVars>>

\* Mutant of EndThread: the slot is not given back.
EndThreadLeaksSlot(j) ==
    /\ pc[j] = "post"
    /\ pc' = [pc EXCEPT ![j] = "gone"]
    /\ live' = live \ {j}
    /\ UNCHANGED <<binding, binds, ask, lockName, tree, running, holder, done, mainVars>>

\* The finally block of run().
EndThread(j) ==
    /\ pc[j] = "post"
    /\ pc' = [pc EXCEPT ![j] = "gone"]
    /\ running' = IF running > 0 THEN running - 1 ELSE 0
    /\ live' = live \ {j}
    /\ UNCHANGED <<binding, binds, ask, lockName, tree, holder, done, mainVars>>

-----------------------------------------------------------------------------
\* Mutant of TakeReceipts: _done is copied but not cleared.
CopyReceipts ==
    /\ collected' = [j \in Jobs |-> collected[j] + done[j]]
    /\ UNCHANGED done

\* reap: take everything out of _done.
TakeReceipts ==
    /\ collected' = [j \in Jobs |-> collected[j] + done[j]]
    /\ done' = [j \in Jobs |-> 0]

Reap ==
    /\ main = "loop"
    /\ TakeReceipts
    /\ UNCHANGED <<binding, binds, pc, ask, lockName, tree, running, live, holder,
                   main, joinSet, awaited>>

\* wait(): called by `--once` and by the eval dispatcher.
WaitCall ==
    /\ main = "loop"
    /\ main' = "polling"
    /\ awaited' = {j \in Jobs : pc[j] # "none"}
    /\ UNCHANGED <<binding, binds, pc, ask, lockName, tree, poolVars, collected, joinSet>>

\* wait() copies _live; with no thread left it goes on to reap.
WaitPoll ==
    /\ main = "polling"
    /\ joinSet' = live
    /\ main' = IF live = {} THEN "draining" ELSE "joining"
    /\ UNCHANGED <<binding, binds, pc, ask, lockName, tree, poolVars, collected, awaited>>

\* One round of thread.join(timeout=0.05) over the copy, then poll again.
WaitJoin ==
    /\ main = "joining"
    /\ \A j \in joinSet : pc[j] # "registered"
    /\ main' = "polling"
    /\ joinSet' = {}
    /\ UNCHANGED <<binding, binds, pc, ask, lockName, tree, poolVars, collected, awaited>>

\* thread.join on a thread another caller of submit has not started yet raises
\* RuntimeError out of wait() and ends the listen loop.
WaitRaise ==
    /\ main = "joining"
    /\ \E j \in joinSet : pc[j] = "registered"
    /\ main' = "raised"
    /\ UNCHANGED <<binding, binds, pc, ask, lockName, tree, poolVars, collected,
                   joinSet, awaited>>

WaitReturn ==
    /\ main = "draining"
    /\ TakeReceipts
    /\ main' = "loop"
    /\ awaited' = {}
    /\ UNCHANGED <<binding, binds, pc, ask, lockName, tree, running, live, holder,
                   joinSet>>

-----------------------------------------------------------------------------
JobStep(j) ==
    \/ StartThread(j) \/ TakeSlot(j) \/ TakeLock(j) \/ Resolve(j)
    \/ EndRunner(j) \/ AppendReceipt(j) \/ EndThread(j)

MainStep == Reap \/ WaitCall \/ WaitPoll \/ WaitJoin \/ WaitRaise \/ WaitReturn

Next ==
    \/ \E c \in Channels, t \in Trees : Bind(c, t)
    \/ \E j \in Jobs, a \in Asks : Submit(j, a)
    \/ \E j \in Jobs : JobStep(j)
    \/ MainStep

Spec == Init /\ [][Next]_vars

(* The OS runs every started thread, a runner ends, and the listen loop    *)
(* keeps reaping and never abandons a wait it can continue.                *)
Fairness ==
    /\ \A j \in Jobs : WF_vars(JobStep(j))
    /\ WF_vars(Reap)
    /\ WF_vars(WaitPoll) /\ WF_vars(WaitJoin) /\ WF_vars(WaitReturn)

FairSpec == Spec /\ Fairness

-----------------------------------------------------------------------------
(* TypeOK: the pool's tables hold jobs, locks and counts of their kinds, and *)
(* _running never passes max_live.                                          *)
TypeOK ==
    /\ binding \in [Channels -> Trees \cup {None}]
    /\ binds \in 0..MaxBinds
    /\ pc \in [Jobs -> {"none", "registered", "slot", "lock", "resolve", "cook",
                        "settle", "post", "gone"}]
    /\ ask \in [Jobs -> Asks \cup {NoAsk}]
    /\ \A j \in Jobs : pc[j] # "none" => ask[j] \in Asks
    /\ lockName \in [Jobs -> Keys \cup {None}]
    /\ tree \in [Jobs -> Trees \cup {None}]
    /\ running \in 0..MaxLive
    /\ live \subseteq Jobs
    /\ holder \in [Keys -> Jobs \cup {None}]
    /\ done \in [Jobs -> Nat]
    /\ collected \in [Jobs -> Nat]
    /\ main \in {"loop", "polling", "joining", "draining", "raised"}
    /\ joinSet \subseteq Jobs
    /\ awaited \subseteq Jobs

(* SlotsExact: _running, changed in two lock sections of a thread's life, is *)
(* exactly the number of threads between them: a slot is neither leaked nor  *)
(* given back twice, so the max(0, ..) clamp of the finally block is idle.   *)
SlotHolders == {j \in Jobs : pc[j] \in HasSlot}
SlotsExact == running = Cardinality(SlotHolders)

(* WriteExclusion: two runners are never inside the same write lock.         *)
WriteExclusion ==
    \A i, j \in Jobs :
        /\ pc[i] \in InRunner /\ pc[j] \in InRunner
        /\ lockName[i] # None /\ lockName[i] = lockName[j]
        => i = j

(* BoundTreesExclusive: while no channel is bound anew, two implement or     *)
(* swarm runs whose ask has a checkout never cook in one working tree.       *)
BoundTreesExclusive ==
    binds = 0 =>
        \A i, j \in Jobs :
            /\ pc[i] = "cook" /\ ask[i].writes /\ Checkout(ask[i]) # None
            /\ pc[j] = "cook" /\ ask[j].writes /\ Checkout(ask[j]) # None
            /\ tree[i] = tree[j]
            => i = j

(* ReceiptOnce: a job leaves exactly one receipt, when its runner has ended, *)
(* and reap neither loses it nor hands it out twice.                         *)
ReceiptOnce ==
    \A j \in Jobs :
        done[j] + collected[j] = IF pc[j] \in {"post", "gone"} THEN 1 ELSE 0

(* WaitComplete: when wait() returns, the caller has the receipt of every    *)
(* job submitted before the call; the thread leaves _live only after its     *)
(* receipt is in _done.                                                      *)
WaitComplete ==
    [][main = "draining" /\ main' = "loop" => \A j \in awaited : collected'[j] = 1]_vars

(* AllCollected: in the end each submitted job's receipt has reached the     *)
(* listen loop, whatever writers queued before it, unless wait() raised.     *)
AllCollected == \A j \in Jobs : pc[j] # "none" => collected[j] = 1 \/ main = "raised"
=============================================================================
