------------------------ MODULE GotoSpinlock_proofs ------------------------
(***************************************************************************)
(* Proofs about GotoSpinlock for any number of threads, nodes, stripes and *)
(* any batch size: no increment is lost, and no thread waits while it      *)
(* holds a lock.                                                           *)
(***************************************************************************)
EXTENDS GotoSpinlock, TLAPS

LEMMA LockOfType ==
  ASSUME NEW n \in Node
  PROVE  LockOf(n) \in Lock
<1>1. n \in Nat /\ NUM_LOCKS \in Nat \ {0}
  BY SpinlockAssumption DEF Node
<1>2. \A x \in Nat, m \in Nat \ {0} : x % m \in 0 .. m-1
  BY SMT
<1> QED
  BY <1>1, <1>2 DEF LockOf, Lock

LEMMA CurrentType ==
  ASSUME TypeOK, NEW t \in Threads
  PROVE  Current(t) \in Node /\ LockOf(Current(t)) \in Lock
<1>1. Current(t) \in Node
  BY DEF TypeOK, Current
<1> QED
  BY <1>1, LockOfType

(* Two threads are never inside on the same node.                          *)
LEMMA Exclusion ==
  ASSUME TypeOK, OneLockAtATime,
         NEW t \in Threads, NEW u \in Threads,
         Inside(t), Inside(u), Current(t) = Current(u)
  PROVE  t = u
  BY CurrentType DEF OneLockAtATime

LEMMA InitIInv == Init => IInv
<1> SUFFICES ASSUME Init
             PROVE  IInv
  OBVIOUS
<1> USE SpinlockAssumption
<1>1. TypeOK
  BY DEF Init, TypeOK, Node, Slot, Field, Lock
<1>2. OneLockAtATime
  BY DEF Init, OneLockAtATime, Inside
<1>3. NoLostUpdate
  BY DEF Init, NoLostUpdate, Field
<1>4. UpdateProgress
  BY DEF Init, UpdateProgress, Inside
<1> QED
  BY <1>1, <1>2, <1>3, <1>4 DEF IInv

LEMMA FillIInv ==
  ASSUME IInv, NEW t \in Threads, NEW ids \in [Slot -> Node], Fill(t, ids)
  PROVE  IInv'
<1> USE SpinlockAssumption
<1>1. TypeOK /\ TypeOK'
  <2>1. 0 \in Slot
    BY DEF Slot
  <2>2. batches' \in [Threads -> 0..MaxBatches]
    <3>1. batches[t] \in 0..MaxBatches /\ batches[t] < MaxBatches
      BY DEF IInv, TypeOK, Fill
    <3>2. batches[t] + 1 \in 0..MaxBatches
      BY <3>1
    <3> QED
      BY <3>2 DEF IInv, TypeOK, Fill
  <2> QED
    BY <2>1, <2>2 DEF IInv, TypeOK, Fill
<1>2. /\ ~Inside(t) /\ ~Inside(t)'
      /\ \A u \in Threads : u # t =>
           /\ Inside(u)' = Inside(u) /\ Current(u)' = Current(u) /\ tpc'[u] = tpc[u]
      /\ UNCHANGED <<nodes, locks, reg, todo, updates>>
  BY <1>1 DEF Fill, Inside, Current, TypeOK
<1>3. OneLockAtATime'
  BY <1>1, <1>2 DEF IInv, OneLockAtATime
<1>4. NoLostUpdate'
  BY <1>2 DEF IInv, NoLostUpdate
<1>5. UpdateProgress'
  <2> SUFFICES ASSUME NEW u \in Threads, Inside(u)'
               PROVE  u # t /\ Inside(u)
    BY <1>2 DEF IInv, UpdateProgress
  <2> QED
    BY <1>2
<1> QED
  BY <1>1, <1>3, <1>4, <1>5 DEF IInv

LEMMA AcquireIInv ==
  ASSUME IInv, NEW t \in Threads, Acquire(t)
  PROVE  IInv'
<1> USE SpinlockAssumption
<1> DEFINE n == Current(t)
           l == LockOf(n)
<1>1. TypeOK /\ n \in Node /\ l \in Lock
  BY CurrentType DEF IInv
<1>2. /\ locks[l] = NoThread /\ locks' = [locks EXCEPT ![l] = t]
      /\ tpc[t] = "lock" /\ tpc' = [tpc EXCEPT ![t] = "load"]
      /\ todo' = [todo EXCEPT ![t] = Field]
      /\ UNCHANGED <<nodes, node_id, I, reg, batches, updates>>
  BY DEF Acquire
<1>3. TypeOK'
  BY <1>1, <1>2 DEF TypeOK
<1>4. /\ ~Inside(t) /\ Inside(t)'
      /\ \A u \in Threads : Current(u)' = Current(u)
      /\ \A u \in Threads : u # t => /\ Inside(u)' = Inside(u)
                                     /\ tpc'[u] = tpc[u] /\ todo'[u] = todo[u]
  BY <1>1, <1>2 DEF TypeOK, Inside, Current
<1>5. \A u \in Threads : Inside(u) => Current(u) # n
  BY <1>1, <1>2 DEF IInv, OneLockAtATime
<1>6. OneLockAtATime'
  <2> SUFFICES ASSUME NEW k \in Lock, NEW u \in Threads
               PROVE  locks'[k] = u <=> Inside(u)' /\ LockOf(Current(u)) = k
    BY <1>4 DEF OneLockAtATime
  <2>1. locks'[k] = IF k = l THEN t ELSE locks[k]
    BY <1>1, <1>2 DEF TypeOK
  <2>2. locks[k] = u <=> Inside(u) /\ LockOf(Current(u)) = k
    BY DEF IInv, OneLockAtATime
  <2>3. locks[k] = t => FALSE
    BY <1>4 DEF IInv, OneLockAtATime
  <2>4. CASE u = t
    BY <1>4, <2>1, <2>3, <2>4
  <2>5. CASE u # t
    <3>1. k = l => locks[k] # u
      BY <1>2
    <3> QED
      BY <1>4, <2>1, <2>2, <2>5, <3>1
  <2> QED
    BY <2>4, <2>5
<1>7. NoLostUpdate'
  BY <1>2, <1>4 DEF IInv, NoLostUpdate
<1>8. UpdateProgress'
  <2> SUFFICES ASSUME NEW u \in Threads, Inside(u)'
               PROVE  /\ \A f \in Field :
                           nodes[Current(u)][f] =
                             updates[Current(u)] + (IF f = "a" THEN 0 ELSE 1)
                                                 + (IF f \in todo'[u] THEN 0 ELSE 1)
                      /\ tpc'[u] = "store" => /\ reg[u].f \in todo'[u]
                                              /\ reg[u].v = nodes[Current(u)][reg[u].f]
                      /\ tpc'[u] = "unlock" => todo'[u] = {}
    BY <1>2, <1>4 DEF UpdateProgress
  <2>1. CASE u # t
    BY <1>4, <2>1 DEF IInv, UpdateProgress
  <2>2. CASE u = t
    <3>1. nodes[n]["a"] = updates[n] /\ nodes[n]["b"] = updates[n] + 1 /\ updates[n] \in Nat
      BY <1>1, <1>5 DEF IInv, NoLostUpdate, TypeOK
    <3>2. todo'[t] = Field /\ tpc'[t] = "load"
      BY <1>1, <1>2 DEF TypeOK
    <3> QED
      BY <2>2, <3>1, <3>2 DEF Field
  <2> QED
    BY <2>1, <2>2
<1> QED
  BY <1>3, <1>6, <1>7, <1>8 DEF IInv

LEMMA LoadIInv ==
  ASSUME IInv, NEW t \in Threads, NEW f \in Field, Load(t, f)
  PROVE  IInv'
<1> USE SpinlockAssumption
<1> DEFINE n == Current(t)
<1>1. TypeOK /\ n \in Node /\ nodes[n][f] \in Nat
  BY CurrentType DEF IInv, TypeOK
<1>2. /\ tpc[t] = "load" /\ tpc' = [tpc EXCEPT ![t] = "store"]
      /\ f \in todo[t]
      /\ reg' = [reg EXCEPT ![t] = [f |-> f, v |-> nodes[n][f]]]
      /\ UNCHANGED <<nodes, locks, node_id, I, todo, batches, updates>>
  BY DEF Load
<1>3. TypeOK'
  BY <1>1, <1>2 DEF TypeOK
<1>4. /\ \A u \in Threads : Current(u)' = Current(u) /\ Inside(u)' = Inside(u)
      /\ Inside(t)
      /\ \A u \in Threads : u # t => tpc'[u] = tpc[u] /\ reg'[u] = reg[u]
      /\ tpc'[t] = "store" /\ reg'[t].f = f /\ reg'[t].v = nodes[n][f]
  BY <1>1, <1>2 DEF TypeOK, Inside, Current
<1>5. OneLockAtATime' /\ NoLostUpdate'
  BY <1>2, <1>4 DEF IInv, OneLockAtATime, NoLostUpdate
<1>6. UpdateProgress'
  BY <1>2, <1>4 DEF IInv, UpdateProgress
<1> QED
  BY <1>3, <1>5, <1>6 DEF IInv

LEMMA StoreIInv ==
  ASSUME IInv, NEW t \in Threads, Store(t)
  PROVE  IInv'
<1> USE SpinlockAssumption
<1> DEFINE n == Current(t)
           f == reg[t].f
<1>1. TypeOK /\ n \in Node /\ f \in Field /\ reg[t].v \in Nat /\ updates[n] \in Nat
  BY CurrentType DEF IInv, TypeOK
<1>2. /\ tpc[t] = "store" /\ todo' = [todo EXCEPT ![t] = @ \ {f}]
      /\ tpc' = [tpc EXCEPT ![t] = IF todo'[t] = {} THEN "unlock" ELSE "load"]
      /\ nodes' = [nodes EXCEPT ![n][f] = reg[t].v + 1]
      /\ UNCHANGED <<locks, node_id, I, reg, batches, updates>>
  BY DEF Store
<1>3. TypeOK'
  BY <1>1, <1>2 DEF TypeOK
<1>4. /\ \A u \in Threads : Current(u)' = Current(u) /\ Inside(u)' = Inside(u)
      /\ Inside(t)
      /\ \A u \in Threads : u # t => tpc'[u] = tpc[u] /\ todo'[u] = todo[u]
      /\ tpc'[t] \in {"load", "unlock"} /\ todo'[t] = todo[t] \ {f}
      /\ tpc'[t] = "unlock" => todo'[t] = {}
  BY <1>1, <1>2 DEF TypeOK, Inside, Current
<1>5. /\ \A m \in Node : m # n => nodes'[m] = nodes[m]
      /\ \A g \in Field : nodes'[n][g] = IF g = f THEN reg[t].v + 1 ELSE nodes[n][g]
  BY <1>1, <1>2 DEF TypeOK
<1>6. OneLockAtATime'
  BY <1>2, <1>4 DEF IInv, OneLockAtATime
<1>7. NoLostUpdate'
  BY <1>2, <1>4, <1>5 DEF IInv, NoLostUpdate
<1>8. UpdateProgress'
  <2> SUFFICES ASSUME NEW u \in Threads, Inside(u)
               PROVE  /\ \A g \in Field :
                           nodes'[Current(u)][g] =
                             updates[Current(u)] + (IF g = "a" THEN 0 ELSE 1)
                                                 + (IF g \in todo'[u] THEN 0 ELSE 1)
                      /\ tpc'[u] = "store" => /\ reg[u].f \in todo'[u]
                                              /\ reg[u].v = nodes'[Current(u)][reg[u].f]
                      /\ tpc'[u] = "unlock" => todo'[u] = {}
    BY <1>2, <1>4 DEF UpdateProgress
  <2>1. CASE u # t
    <3>1. Current(u) # n /\ Current(u) \in Node
      BY <1>1, <1>4, <2>1, Exclusion, CurrentType DEF IInv
    <3> QED
      BY <1>4, <1>5, <2>1, <3>1 DEF IInv, UpdateProgress
  <2>2. CASE u = t
    <3>1. /\ f \in todo[t] /\ reg[t].v = nodes[n][f]
          /\ \A g \in Field :
               nodes[n][g] = updates[n] + (IF g = "a" THEN 0 ELSE 1)
                                        + (IF g \in todo[t] THEN 0 ELSE 1)
      BY <1>2, <1>4 DEF IInv, UpdateProgress
    <3>2. \A g \in Field :
            nodes'[n][g] = updates[n] + (IF g = "a" THEN 0 ELSE 1)
                                      + (IF g \in todo'[t] THEN 0 ELSE 1)
      <4> SUFFICES ASSUME NEW g \in Field
                   PROVE  nodes'[n][g] = updates[n] + (IF g = "a" THEN 0 ELSE 1)
                                                    + (IF g \in todo'[t] THEN 0 ELSE 1)
        OBVIOUS
      <4> HIDE DEF n, f
      <4>1. CASE g = f
        BY <1>1, <1>4, <1>5, <3>1, <4>1
      <4>2. CASE g # f
        BY <1>1, <1>4, <1>5, <3>1, <4>2
      <4> QED
        BY <4>1, <4>2
    <3> QED
      BY <1>4, <2>2, <3>2
  <2> QED
    BY <2>1, <2>2
<1> QED
  BY <1>3, <1>6, <1>7, <1>8 DEF IInv

LEMMA ReleaseIInv ==
  ASSUME IInv, NEW t \in Threads, Release(t)
  PROVE  IInv'
<1> USE SpinlockAssumption
<1> DEFINE n == Current(t)
           l == LockOf(n)
<1>1. TypeOK /\ n \in Node /\ l \in Lock /\ updates[n] \in Nat
  BY CurrentType DEF IInv, TypeOK
<1>2. /\ tpc[t] = "unlock" /\ locks' = [locks EXCEPT ![l] = NoThread]
      /\ updates' = [updates EXCEPT ![n] = @ + 1]
      /\ UNCHANGED <<nodes, node_id, reg, todo, batches>>
  BY DEF Release
<1>3. TypeOK'
  <2>1. I' \in [Threads -> Slot]
    <3>1. CASE I[t] + 1 < BATCH_SIZE
      <4>1. I[t] + 1 \in Slot
        <5>1. I[t] \in 0 .. BATCH_SIZE-1
          BY <1>1 DEF TypeOK, Slot
        <5> QED
          BY <3>1, <5>1 DEF Slot
      <4>2. I' = [I EXCEPT ![t] = I[t] + 1]
        BY <3>1 DEF Release
      <4> QED
        BY <1>1, <4>1, <4>2 DEF TypeOK
    <3>2. CASE ~(I[t] + 1 < BATCH_SIZE)
      BY <1>1, <3>2 DEF TypeOK, Release
    <3> QED
      BY <3>1, <3>2
  <2>2. tpc' \in [Threads -> {"fill", "lock", "load", "store", "unlock"}]
    BY <1>1 DEF TypeOK, Release
  <2> QED
    BY <1>1, <1>2, <2>1, <2>2 DEF TypeOK
<1>4. /\ Inside(t) /\ ~Inside(t)'
      /\ \A u \in Threads : u # t => /\ Inside(u)' = Inside(u) /\ tpc'[u] = tpc[u]
                                     /\ Current(u)' = Current(u)
  BY <1>1 DEF TypeOK, Inside, Current, Release
<1>5. \A u \in Threads : u # t /\ Inside(u) => Current(u) # n /\ Current(u) \in Node
  BY <1>1, <1>4, Exclusion, CurrentType DEF IInv
<1>6. OneLockAtATime'
  <2> SUFFICES ASSUME NEW k \in Lock, NEW u \in Threads
               PROVE  (locks[k] = u <=> Inside(u) /\ LockOf(Current(u)) = k)'
    BY DEF OneLockAtATime
  <2>1. locks'[k] = IF k = l THEN NoThread ELSE locks[k]
    BY <1>1, <1>2 DEF TypeOK
  <2>2. locks[k] = u <=> Inside(u) /\ LockOf(Current(u)) = k
    BY DEF IInv, OneLockAtATime
  <2>3. locks[k] = t <=> k = l
    BY <1>4 DEF IInv, OneLockAtATime
  <2>4. CASE u = t
    BY <1>4, <2>1, <2>3, <2>4
  <2>5. CASE u # t
    <3>1. (Inside(u) /\ LockOf(Current(u)) = k)' <=> Inside(u) /\ LockOf(Current(u)) = k
      BY <1>4, <2>5
    <3>2. k = l => locks[k] # u
      BY <2>3, <2>5
    <3> QED
      BY <2>1, <2>2, <3>1, <3>2
  <2> QED
    BY <2>4, <2>5
<1>7. NoLostUpdate'
  <2> SUFFICES ASSUME NEW m \in Node,
                      \A u \in Threads : Inside(u)' => Current(u)' # m
               PROVE  nodes[m]["a"] = updates'[m] /\ nodes[m]["b"] = updates'[m] + 1
    BY <1>2 DEF NoLostUpdate
  <2>1. CASE m = n
    <3>1. nodes[n]["a"] = updates[n] + 0 + 1 /\ nodes[n]["b"] = updates[n] + 1 + 1
      <4>1. todo[t] = {}
        BY <1>2, <1>4 DEF IInv, UpdateProgress
      <4> QED
        BY <1>4, <4>1 DEF IInv, UpdateProgress, Field
    <3>2. updates'[n] = updates[n] + 1
      BY <1>1, <1>2 DEF TypeOK
    <3> QED
      BY <1>1, <2>1, <3>1, <3>2
  <2>2. CASE m # n
    <3>1. \A u \in Threads : Inside(u) => Current(u) # m
      BY <1>4, <2>2
    <3>2. updates'[m] = updates[m]
      BY <1>1, <1>2, <2>2 DEF TypeOK
    <3> QED
      BY <3>1, <3>2 DEF IInv, NoLostUpdate
  <2> QED
    BY <2>1, <2>2
<1>8. UpdateProgress'
  <2> SUFFICES ASSUME NEW u \in Threads, u # t, Inside(u)
               PROVE  updates'[Current(u)] = updates[Current(u)]
    BY <1>2, <1>4 DEF IInv, UpdateProgress
  <2> QED
    BY <1>1, <1>2, <1>5 DEF TypeOK
<1> QED
  BY <1>3, <1>6, <1>7, <1>8 DEF IInv

(* The strengthened invariant holds in every reachable state.              *)
THEOREM Invariance == Spec => []IInv
<1>1. Init => IInv
  BY InitIInv
<1>2. IInv /\ [Next]_vars => IInv'
  <2> SUFFICES ASSUME IInv, [Next]_vars
               PROVE  IInv'
    OBVIOUS
  <2>1. ASSUME NEW t \in Threads, reader(t)
        PROVE  IInv'
    BY <2>1, FillIInv, AcquireIInv, LoadIInv, StoreIInv, ReleaseIInv
    DEF reader, Visit
  <2>2. CASE UNCHANGED vars
    BY <2>2 DEF vars, IInv, TypeOK, OneLockAtATime, NoLostUpdate, UpdateProgress,
                Inside, Current
  <2> QED
    BY <2>1, <2>2 DEF Next
<1> QED
  BY <1>1, <1>2, PTL DEF Spec

(* Every increment made in a critical section survives, for any number of  *)
(* threads, nodes per stripe and nodes per batch.                          *)
THEOREM UpdatesSurvive == Spec => []NoLostUpdate
<1>1. IInv => NoLostUpdate
  BY DEF IInv
<1> QED
  BY <1>1, Invariance, PTL

(* A thread never waits for a lock while it holds one: batches cannot make *)
(* the threads wait for each other in a circle.                            *)
THEOREM NoHoldAndWait == Spec => []OneLockAtATime
<1>1. IInv => OneLockAtATime
  BY DEF IInv
<1> QED
  BY <1>1, Invariance, PTL
=============================================================================
