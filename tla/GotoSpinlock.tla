---------------------------- MODULE GotoSpinlock ----------------------------
(***************************************************************************)
(* glock/goto_spinlock: threads that increment both fields of random nodes *)
(* under striped spin locks.  goto.c picks BATCH_SIZE nodes, prefetches    *)
(* their locks and then visits them one by one; nogoto.c is the same code  *)
(* with batches of one.  An increment is a load and a store; the order of  *)
(* the two increments inside the critical section is the compiler's.       *)
(***************************************************************************)
EXTENDS Integers

CONSTANTS
  Threads,
  NoThread,     \* the owner of a free lock
  BATCH_SIZE,   \* 8 in goto.c, 1 for nogoto.c
  NUM_NODES,
  NUM_LOCKS,
  MaxBatches    \* bound: batches a thread runs

ASSUME SpinlockAssumption ==
  /\ NoThread \notin Threads
  /\ BATCH_SIZE \in Nat \ {0} /\ NUM_NODES \in Nat \ {0} /\ NUM_LOCKS \in Nat \ {0}
  /\ MaxBatches \in Nat

Slot  == 0 .. BATCH_SIZE-1
Node  == 0 .. NUM_NODES-1
Lock  == 0 .. NUM_LOCKS-1
Field == {"a", "b"}

VARIABLES
  nodes,        \* the shared nodes
  locks,        \* the thread that holds each lock
  tpc,          \* threads: "fill", "lock", "load", "store" or "unlock"
  node_id,      \* threads: the nodes of the batch
  I,            \* threads: the batch index
  reg,          \* threads: the field being incremented and the value loaded
  todo,         \* threads: the fields not yet incremented
  batches,      \* threads: batches begun
  updates       \* history: critical sections completed on each node

vars == <<nodes, locks, tpc, node_id, I, reg, todo, batches, updates>>

TypeOK ==
  /\ nodes \in [Node -> [Field -> Nat]]
  /\ locks \in [Lock -> Threads \union {NoThread}]
  /\ tpc \in [Threads -> {"fill", "lock", "load", "store", "unlock"}]
  /\ node_id \in [Threads -> [Slot -> Node]]
  /\ I \in [Threads -> Slot]
  /\ reg \in [Threads -> [f : Field, v : Nat]]
  /\ todo \in [Threads -> SUBSET Field]
  /\ batches \in [Threads -> 0..MaxBatches]
  /\ updates \in [Node -> Nat]

\* main(): b = a + 1 in every node (a is random; its value does not matter)
Init ==
  /\ nodes = [n \in Node |-> [f \in Field |-> IF f = "a" THEN 0 ELSE 1]]
  /\ locks = [l \in Lock |-> NoThread]
  /\ tpc = [t \in Threads |-> "fill"]
  /\ node_id = [t \in Threads |-> [i \in Slot |-> 0]]
  /\ I = [t \in Threads |-> 0]
  /\ reg = [t \in Threads |-> [f |-> "a", v |-> 0]]
  /\ todo = [t \in Threads |-> {}]
  /\ batches = [t \in Threads |-> 0]
  /\ updates = [n \in Node |-> 0]

-----------------------------------------------------------------------------
\* lock_id[I] = node_id[I] & NUM_LOCKS_
LockOf(n) == n % NUM_LOCKS

Current(t) == node_id[t][I[t]]

\* The first loop: nodes for the whole batch, and their locks prefetched.
Fill(t, ids) ==
  /\ tpc[t] = "fill"
  /\ batches[t] < MaxBatches
  /\ batches' = [batches EXCEPT ![t] = @ + 1]
  /\ node_id' = [node_id EXCEPT ![t] = ids]
  /\ I' = [I EXCEPT ![t] = 0]
  /\ tpc' = [tpc EXCEPT ![t] = "lock"]
  /\ UNCHANGED <<nodes, locks, reg, todo, updates>>

\* Mutant: a trylock whose result is ignored.
AcquireAnyway(t) ==
  /\ tpc[t] = "lock"
  /\ locks' = [locks EXCEPT ![LockOf(Current(t))] = IF @ = NoThread THEN t ELSE @]
  /\ todo' = [todo EXCEPT ![t] = Field]
  /\ tpc' = [tpc EXCEPT ![t] = "load"]
  /\ UNCHANGED <<nodes, node_id, I, reg, batches, updates>>

\* pthread_spin_lock returns
Acquire(t) ==
  /\ tpc[t] = "lock"
  /\ locks[LockOf(Current(t))] = NoThread
  /\ locks' = [locks EXCEPT ![LockOf(Current(t))] = t]
  /\ todo' = [todo EXCEPT ![t] = Field]
  /\ tpc' = [tpc EXCEPT ![t] = "load"]
  /\ UNCHANGED <<nodes, node_id, I, reg, batches, updates>>

\* nodes[node_id[I]].f ++, first the load and then the store
Load(t, f) ==
  /\ tpc[t] = "load"
  /\ f \in todo[t]
  /\ reg' = [reg EXCEPT ![t] = [f |-> f, v |-> nodes[Current(t)][f]]]
  /\ tpc' = [tpc EXCEPT ![t] = "store"]
  /\ UNCHANGED <<nodes, locks, node_id, I, todo, batches, updates>>

Store(t) ==
  /\ tpc[t] = "store"
  /\ nodes' = [nodes EXCEPT ![Current(t)][reg[t].f] = reg[t].v + 1]
  /\ todo' = [todo EXCEPT ![t] = @ \ {reg[t].f}]
  /\ tpc' = [tpc EXCEPT ![t] = IF todo'[t] = {} THEN "unlock" ELSE "load"]
  /\ UNCHANGED <<locks, node_id, I, reg, batches, updates>>

\* Mutant: the locks of a batch are released at its end.
ReleaseAtEnd(t) ==
  /\ tpc[t] = "unlock"
  /\ updates' = [updates EXCEPT ![Current(t)] = @ + 1]
  /\ IF I[t] + 1 < BATCH_SIZE
       THEN /\ I' = [I EXCEPT ![t] = @ + 1]
            /\ tpc' = [tpc EXCEPT ![t] = "lock"]
            /\ UNCHANGED locks
       ELSE /\ tpc' = [tpc EXCEPT ![t] = "fill"]
            /\ locks' = [l \in Lock |-> IF locks[l] = t THEN NoThread ELSE locks[l]]
            /\ UNCHANGED I
  /\ UNCHANGED <<nodes, node_id, reg, todo, batches>>

\* pthread_spin_unlock, and on to the next node or the next batch
Release(t) ==
  /\ tpc[t] = "unlock"
  /\ locks' = [locks EXCEPT ![LockOf(Current(t))] = NoThread]
  /\ updates' = [updates EXCEPT ![Current(t)] = @ + 1]
  /\ IF I[t] + 1 < BATCH_SIZE
       THEN /\ I' = [I EXCEPT ![t] = @ + 1]
            /\ tpc' = [tpc EXCEPT ![t] = "lock"]
       ELSE /\ tpc' = [tpc EXCEPT ![t] = "fill"]
            /\ UNCHANGED I
  /\ UNCHANGED <<nodes, node_id, reg, todo, batches>>

Visit(t) ==
  \/ Acquire(t)
  \/ \E f \in Field : Load(t, f)
  \/ Store(t)
  \/ Release(t)

reader(t) == Visit(t) \/ \E ids \in [Slot -> Node] : Fill(t, ids)

Next == \E t \in Threads : reader(t)

\* Threads run on cores of their own.  The spin lock is not fair: a waiting
\* thread is only sure to get a lock that stays free.
Spec == Init /\ [][Next]_vars /\ \A t \in Threads : WF_vars(Visit(t))

-----------------------------------------------------------------------------
Inside(t) == tpc[t] \in {"load", "store", "unlock"}

(* No increment is lost: a node nobody is working on has been incremented  *)
(* once for every critical section completed on it, both fields alike.     *)
NoLostUpdate ==
  \A n \in Node :
    (\A t \in Threads : Inside(t) => Current(t) # n) =>
      /\ nodes[n]["a"] = updates[n]
      /\ nodes[n]["b"] = updates[n] + 1

(* A thread holds the lock of the node it is working on and no other, so   *)
(* it never waits for a lock while it holds one.                           *)
OneLockAtATime ==
  \A l \in Lock, t \in Threads :
    locks[l] = t <=> Inside(t) /\ LockOf(Current(t)) = l

(* A thread that has begun a batch gets through all of its locks, batches  *)
(* with several nodes of the same stripe included.                         *)
BatchCompletes == \A t \in Threads : tpc[t] = "lock" ~> tpc[t] = "fill"

-----------------------------------------------------------------------------
\* What the fields of a node hold while thread t is working on it.
UpdateProgress ==
  \A t \in Threads :
    Inside(t) =>
      /\ \A f \in Field :
           nodes[Current(t)][f] =
             updates[Current(t)] + (IF f = "a" THEN 0 ELSE 1)
                                 + (IF f \in todo[t] THEN 0 ELSE 1)
      /\ tpc[t] = "store" => reg[t].f \in todo[t] /\ reg[t].v = nodes[Current(t)][reg[t].f]
      /\ tpc[t] = "unlock" => todo[t] = {}

\* The inductive invariant of the proofs.
IInv == TypeOK /\ OneLockAtATime /\ NoLostUpdate /\ UpdateProgress
=============================================================================
