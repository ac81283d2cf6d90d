------------------------ MODULE StripedVerlock_proofs ------------------------
(***************************************************************************)
(* Proofs about StripedVerlock for any number of readers, nodes, stripes   *)
(* and versions, and for every width of the readers' int.                  *)
(***************************************************************************)
EXTENDS StripedVerlock, TLAPS

LEMMA LockOfType ==
  ASSUME NEW n \in Node
  PROVE  LockOf(n) \in Lock
<1>1. n \in Nat /\ NUM_LOCKS \in Nat \ {0}
  BY VerlockAssumption DEF Node
<1>2. \A x \in Nat, m \in Nat \ {0} : x % m \in 0 .. m-1
  BY SMT
<1> QED
  BY <1>1, <1>2 DEF LockOf, Lock

(* Narrowing a version to int keeps its parity and never makes it larger.  *)
LEMMA ToIntFacts ==
  ASSUME NEW v \in Nat
  PROVE  ToInt(v) \in Int /\ ToInt(v) <= v /\ ToInt(v) % 2 = v % 2
<1> DEFINE m == 2 * IntHalf
           q == (v + IntHalf) \div m
<1>1. m \in Nat \ {0} /\ v + IntHalf \in Nat
  BY VerlockAssumption
<1>2. \A x \in Nat, d \in Nat \ {0} :
        x \div d \in Nat /\ x = d * (x \div d) + (x % d) /\ x % d \in 0 .. d-1
  BY SMT
<1>3. q \in Nat /\ v + IntHalf = m * q + ((v + IntHalf) % m)
      /\ (v + IntHalf) % m \in Int
  <2> DEFINE x == v + IntHalf
  <2>1. x \in Nat /\ m \in Nat \ {0}
    BY <1>1
  <2> HIDE DEF x, m
  <2>2. /\ x \div m \in Nat
        /\ x = m * (x \div m) + (x % m)
        /\ x % m \in 0 .. m-1
    BY <1>2, <2>1, Zenon
  <2>3. x % m \in Int
    BY <2>1, <2>2
  <2> QED
    BY <2>2, <2>3, Zenon DEF x
<1>4. m * q = 2 * (IntHalf * q) /\ IntHalf * q \in Nat
  <2>1. \A x, y \in Nat : (2 * x) * y = 2 * (x * y) /\ x * y \in Nat
    BY SMT
  <2> HIDE DEF q
  <2> QED
    BY <1>3, <2>1, VerlockAssumption
<1>5. ToInt(v) = v - 2 * (IntHalf * q)
  <2> DEFINE k == IntHalf * q
             s == (v + IntHalf) % m
  <2>1. ToInt(v) = s - IntHalf
    BY DEF ToInt
  <2>2. v + IntHalf = 2 * k + s /\ k \in Nat /\ s \in Int /\ IntHalf \in Nat
    BY <1>3, <1>4, VerlockAssumption
  <2> HIDE DEF k, s
  <2>3. ToInt(v) = v - 2 * k
    BY <2>1, <2>2
  <2> QED
    BY <2>3 DEF k
<1>6. \A k \in Nat : (v - 2 * k) % 2 = v % 2 /\ v - 2 * k <= v /\ v - 2 * k \in Int
  BY SMT
<1> QED
  BY <1>4, <1>5, <1>6

LEMMA InitIInv == Init => IInv
<1> SUFFICES ASSUME Init
             PROVE  IInv
  OBVIOUS
<1> USE VerlockAssumption
<1>1. 0 \in Node
  BY DEF Node
<1>2. TypeOK
  BY <1>1 DEF Init, TypeOK, NodeVal, Field, Lock
<1>3. OddIsHeld
  BY DEF Init, OddIsHeld
<1>4. WriterProgress
  BY DEF Init, WriterProgress
<1>5. ReaderProgress
  BY DEF Init, ReaderProgress
<1> QED
  BY <1>2, <1>3, <1>4, <1>5 DEF IInv

LEMMA WriterLockIInv ==
  ASSUME IInv, NEW n \in Node, WriterLock(n)
  PROVE  IInv'
<1> USE VerlockAssumption
<1> DEFINE l == LockOf(n)
<1>1. l \in Lock /\ locks[l] \in Nat /\ locks[l] + 2 <= MaxLock
  BY LockOfType DEF IInv, TypeOK, WriterLock
<1>2. TypeOK'
  BY <1>1 DEF IInv, TypeOK, WriterLock, readerVars
<1>3. OddIsHeld'
  <2>1. wpc = "pick" /\ wpc' = "stores" /\ wnode' = n
        /\ locks' = [locks EXCEPT ![l] = @ + 1]
    BY DEF WriterLock
  <2>2. \A k \in Lock : locks[k] \in Nat /\ locks[k] % 2 # 1
    BY <2>1 DEF IInv, TypeOK, OddIsHeld
  <2>3. locks'[l] % 2 = 1 /\ \A k \in Lock : k # l => locks'[k] = locks[k]
    BY <1>1, <2>1, <2>2 DEF IInv, TypeOK
  <2> QED
    BY <1>1, <2>1, <2>2, <2>3 DEF OddIsHeld
<1>4. WriterProgress'
  BY DEF IInv, WriterProgress, WriterLock, Field
<1>5. ReaderProgress'
  <2> SUFFICES ASSUME NEW r \in Readers, rpc'[r] \in {"loads", "check"}
               PROVE  /\ lock_version'[r] % 2 = 0
                      /\ lock_version'[r] <= locks'[LockOf(rnode'[r])]
                      /\ Accepts(r)' =>
                           \A f \in Field \ rtodo'[r] :
                             snapshot'[r][f] = nodes'[rnode'[r]][f]
                      /\ rpc'[r] = "check" => rtodo'[r] = {}
    BY DEF ReaderProgress
  <2>1. UNCHANGED <<nodes, rpc, rnode, lock_version, snapshot, rtodo>>
    BY DEF WriterLock, readerVars
  <2> DEFINE k == LockOf(rnode[r])
  <2>2. k \in Lock /\ locks[k] \in Nat /\ lock_version[r] \in Int
    BY LockOfType DEF IInv, TypeOK
  <2>3. locks'[k] = IF k = l THEN locks[k] + 1 ELSE locks[k]
    BY <2>2 DEF WriterLock, IInv, TypeOK
  <2>4. lock_version[r] <= locks[k]
    BY <2>1 DEF IInv, ReaderProgress
  <2>5. Accepts(r)' <=> locks'[k] = lock_version[r]
    BY <2>1 DEF Accepts
  <2>6. Accepts(r)' => Accepts(r)
    BY <2>2, <2>3, <2>4, <2>5 DEF Accepts
  <2>7. lock_version[r] <= locks'[k]
    BY <2>2, <2>3, <2>4
  <2> HIDE DEF k, l
  <2> QED
    BY <2>1, <2>6, <2>7 DEF IInv, ReaderProgress, k
<1> QED
  BY <1>2, <1>3, <1>4, <1>5 DEF IInv

LEMMA WriterUnlockIInv ==
  ASSUME IInv, WriterUnlock
  PROVE  IInv'
<1> USE VerlockAssumption
<1> DEFINE l == LockOf(wnode)
<1>1. l \in Lock /\ locks[l] \in Nat /\ locks[l] % 2 = 1
  BY LockOfType DEF IInv, TypeOK, WriterUnlock, OddIsHeld
<1>2. /\ wpc = "release" /\ wpc' = "pick"
      /\ locks' = [locks EXCEPT ![l] = @ + 1]
      /\ UNCHANGED <<nodes, wnode, wval, wtodo>>
      /\ UNCHANGED <<rpc, rnode, lock_version, snapshot, rtodo>>
  BY DEF WriterUnlock, readerVars
<1>3. TypeOK'
  BY <1>1, <1>2 DEF IInv, TypeOK
<1>4. OddIsHeld'
  <2>1. \A k \in Lock : locks[k] \in Nat /\ (k # l => locks[k] % 2 # 1)
    BY <1>2 DEF IInv, TypeOK, OddIsHeld
  <2>2. locks'[l] = locks[l] + 1 /\ \A k \in Lock : k # l => locks'[k] = locks[k]
    BY <1>1, <1>2 DEF IInv, TypeOK
  <2>3. locks'[l] % 2 # 1
    BY <1>1, <2>2
  <2> QED
    BY <1>2, <2>1, <2>2, <2>3 DEF OddIsHeld
<1>5. WriterProgress'
  BY <1>2 DEF IInv, TypeOK, WriterProgress, Field, NodeVal
<1>6. ReaderProgress'
  <2> SUFFICES ASSUME NEW r \in Readers, rpc[r] \in {"loads", "check"}
               PROVE  /\ lock_version[r] % 2 = 0
                      /\ lock_version[r] <= locks'[LockOf(rnode[r])]
                      /\ Accepts(r)' => Accepts(r)
                      /\ rpc[r] = "check" => rtodo[r] = {}
    BY <1>2 DEF IInv, ReaderProgress
  <2> DEFINE k == LockOf(rnode[r])
  <2>1. k \in Lock /\ locks[k] \in Nat /\ lock_version[r] \in Int
    BY LockOfType DEF IInv, TypeOK
  <2>2. locks'[k] = IF k = l THEN locks[k] + 1 ELSE locks[k]
    BY <1>2, <2>1 DEF IInv, TypeOK
  <2>3. lock_version[r] % 2 = 0 /\ lock_version[r] <= locks[k]
        /\ (rpc[r] = "check" => rtodo[r] = {})
    BY DEF IInv, ReaderProgress
  <2>4. Accepts(r)' <=> locks'[k] = lock_version[r]
    BY <1>2 DEF Accepts
  <2>5. lock_version[r] <= locks'[k] /\ (Accepts(r)' => Accepts(r))
    BY <2>1, <2>2, <2>3, <2>4 DEF Accepts
  <2> QED
    BY <2>3, <2>5
<1> QED
  BY <1>3, <1>4, <1>5, <1>6 DEF IInv

LEMMA WriterStoreIInv ==
  ASSUME IInv, NEW f \in Field, WriterStore(f)
  PROVE  IInv'
<1> USE VerlockAssumption
<1> DEFINE v == IF f = "a" THEN wval ELSE wval + 1
<1>1. /\ wpc = "stores" /\ wpc' \in {"stores", "release"} /\ f \in wtodo
      /\ wtodo' = wtodo \ {f} /\ (wpc' = "release" => wtodo' = {})
      /\ nodes' = [nodes EXCEPT ![wnode][f] = v]
      /\ UNCHANGED <<locks, wnode, wval>>
      /\ UNCHANGED <<rpc, rnode, lock_version, snapshot, rtodo>>
  BY DEF WriterStore, readerVars
<1>2. /\ wnode \in Node /\ nodes[wnode] \in NodeVal /\ wval \in 0..MaxVal
      /\ nodes'[wnode] = [nodes[wnode] EXCEPT ![f] = v]
      /\ \A n \in Node : n # wnode => nodes'[n] = nodes[n]
  BY <1>1 DEF IInv, TypeOK
<1>3. nodes'[wnode][f] = v /\ \A g \in Field : g # f => nodes'[wnode][g] = nodes[wnode][g]
  BY <1>2 DEF NodeVal, Field
<1>4. TypeOK'
  <2>1. [nodes[wnode] EXCEPT ![f] = v] \in NodeVal
    BY <1>2 DEF NodeVal, Field
  <2> QED
    BY <1>1, <1>2, <2>1 DEF IInv, TypeOK
<1>5. OddIsHeld'
  BY <1>1 DEF IInv, OddIsHeld
<1>6. WriterProgress'
  <2>1. \A g \in Field \ wtodo' :
          nodes'[wnode][g] = IF g = "a" THEN wval ELSE wval + 1
    BY <1>1, <1>3 DEF IInv, WriterProgress
  <2>2. \A n \in Node : n # wnode => nodes'[n].b = nodes'[n].a + 1
    BY <1>1, <1>2 DEF IInv, WriterProgress
  <2> QED
    BY <1>1, <2>1, <2>2 DEF WriterProgress
<1>7. ReaderProgress'
  <2> SUFFICES ASSUME NEW r \in Readers, rpc[r] \in {"loads", "check"},
                      Accepts(r), NEW g \in Field \ rtodo[r]
               PROVE  snapshot[r][g] = nodes'[rnode[r]][g]
    <3>1. \A r \in Readers : Accepts(r)' <=> Accepts(r)
      BY <1>1 DEF Accepts
    <3> QED
      BY <1>1, <3>1 DEF IInv, ReaderProgress
  <2>1. rnode[r] \in Node /\ snapshot[r][g] = nodes[rnode[r]][g]
    BY DEF IInv, TypeOK, ReaderProgress
  <2>2. locks[LockOf(wnode)] % 2 = 1
    BY <1>1, <1>2, LockOfType DEF IInv, OddIsHeld
  <2>3. locks[LockOf(rnode[r])] % 2 = 0
    BY DEF IInv, ReaderProgress, Accepts
  <2>4. rnode[r] # wnode
    BY <2>2, <2>3
  <2> QED
    BY <1>2, <2>1, <2>4
<1> QED
  BY <1>4, <1>5, <1>6, <1>7 DEF IInv

(* A reader's step changes nothing but that reader's own locals.           *)
LEMMA ReaderIInv ==
  ASSUME IInv, NEW r \in Readers, Reader(r)
  PROVE  IInv'
<1> USE VerlockAssumption
<1>1. UNCHANGED <<nodes, locks, writerVars>>
  BY DEF Reader, ReaderBody, ReaderPick, ReaderTry, ReaderLoad, ReaderCheck
<1>2. OddIsHeld' /\ WriterProgress'
  BY <1>1 DEF IInv, OddIsHeld, WriterProgress, writerVars
<1>3. rnode[r] \in Node /\ LockOf(rnode[r]) \in Lock /\ locks[LockOf(rnode[r])] \in Nat
  BY LockOfType DEF IInv, TypeOK
<1> SUFFICES TypeOK' /\ ReaderProgress'
  BY <1>2 DEF IInv
<1>4. ASSUME NEW n \in Node, ReaderPick(r, n)
      PROVE  TypeOK' /\ ReaderProgress'
  <2>1. TypeOK'
    BY <1>4 DEF IInv, TypeOK, ReaderPick, writerVars
  <2>2. ReaderProgress'
    BY <1>4 DEF IInv, TypeOK, ReaderProgress, ReaderPick, Accepts
  <2> QED
    BY <2>1, <2>2
<1>5. CASE ReaderTry(r)
  <2> DEFINE v == ToInt(locks[LockOf(rnode[r])])
  <2>1. v \in Int /\ v <= locks[LockOf(rnode[r])]
    BY <1>3, ToIntFacts
  <2>2. lock_version' = [lock_version EXCEPT ![r] = v]
    BY <1>5 DEF ReaderTry
  <2>3. TypeOK'
    <3> HIDE DEF v
    <3> QED
      BY <1>5, <2>1, <2>2 DEF IInv, TypeOK, ReaderTry, writerVars, Field
  <2>4. ReaderProgress'
    <3> SUFFICES ASSUME NEW s \in Readers, rpc'[s] \in {"loads", "check"}
                 PROVE  /\ lock_version'[s] % 2 = 0
                        /\ lock_version'[s] <= locks'[LockOf(rnode'[s])]
                        /\ Accepts(s)' =>
                             \A f \in Field \ rtodo'[s] :
                               snapshot'[s][f] = nodes'[rnode'[s]][f]
                        /\ rpc'[s] = "check" => rtodo'[s] = {}
      BY DEF ReaderProgress
    <3> HIDE DEF v
    <3>1. CASE s = r
      <4>1. lock_version'[r] = v
        BY <2>2 DEF IInv, TypeOK
      <4>2. v % 2 = 0 /\ rpc'[r] = "loads" /\ rtodo'[r] = Field
        <5>1. v % 2 # 0 => rpc'[r] = "try"
          BY <1>5, <4>1 DEF ReaderTry, v
        <5>2. v % 2 = 0 => rpc'[r] = "loads" /\ rtodo'[r] = Field
          BY <1>5, <4>1 DEF ReaderTry, v, IInv, TypeOK
        <5> QED
          BY <3>1, <5>1, <5>2
      <4> QED
        BY <1>5, <2>1, <3>1, <4>1, <4>2 DEF ReaderTry
    <3>2. CASE s # r
      <4>1. /\ rpc'[s] = rpc[s] /\ lock_version'[s] = lock_version[s]
            /\ rtodo'[s] = rtodo[s]
            /\ UNCHANGED <<nodes, locks, rnode, snapshot>>
        BY <1>5, <3>2 DEF ReaderTry, IInv, TypeOK
      <4>2. Accepts(s)' <=> Accepts(s)
        BY <4>1 DEF Accepts
      <4> QED
        BY <4>1, <4>2 DEF IInv, ReaderProgress
    <3> QED
      BY <3>1, <3>2
  <2> QED
    BY <2>3, <2>4
<1>6. ASSUME NEW f \in Field, ReaderLoad(r, f)
      PROVE  TypeOK' /\ ReaderProgress'
  <2>1. /\ nodes[rnode[r]] \in NodeVal /\ snapshot[r] \in NodeVal
        /\ snapshot'[r] = [snapshot[r] EXCEPT ![f] = nodes[rnode[r]][f]]
        /\ rtodo'[r] = rtodo[r] \ {f}
        /\ rpc[r] = "loads"
        /\ rpc'[r] \in {"loads", "check"} /\ (rpc'[r] = "check" => rtodo'[r] = {})
        /\ \A s \in Readers : s # r => /\ rpc'[s] = rpc[s]
                                     /\ rtodo'[s] = rtodo[s]
                                     /\ snapshot'[s] = snapshot[s]
        /\ UNCHANGED <<nodes, locks, rnode, lock_version>>
    BY <1>3, <1>6 DEF IInv, TypeOK, ReaderLoad
  <2>2. TypeOK'
    <3>1. snapshot'[r] \in NodeVal
      BY <2>1 DEF NodeVal, Field
    <3>2. snapshot' \in [Readers -> NodeVal]
      BY <1>6, <3>1 DEF IInv, TypeOK, ReaderLoad
    <3> QED
      BY <1>6, <3>2 DEF IInv, TypeOK, ReaderLoad, writerVars
  <2>3. ReaderProgress'
    <3>1. \A s \in Readers : Accepts(s)' <=> Accepts(s)
      BY <2>1 DEF Accepts
    <3>2. \A g \in Field : snapshot'[r][g] =
                 IF g = f THEN nodes[rnode[r]][f] ELSE snapshot[r][g]
      BY <2>1 DEF NodeVal, Field
    <3> SUFFICES ASSUME NEW s \in Readers, rpc'[s] \in {"loads", "check"}
                 PROVE  /\ lock_version[s] % 2 = 0
                        /\ lock_version[s] <= locks[LockOf(rnode[s])]
                        /\ Accepts(s) =>
                             \A g \in Field \ rtodo'[s] :
                               snapshot'[s][g] = nodes[rnode[s]][g]
                        /\ rpc'[s] = "check" => rtodo'[s] = {}
      BY <2>1, <3>1 DEF ReaderProgress
    <3>3. CASE s = r
      <4>1. /\ lock_version[r] % 2 = 0
            /\ lock_version[r] <= locks[LockOf(rnode[r])]
            /\ Accepts(r) =>
                 \A g \in Field \ rtodo[r] : snapshot[r][g] = nodes[rnode[r]][g]
        BY <2>1 DEF IInv, ReaderProgress
      <4>2. \A g \in Field \ rtodo'[r] : g = f \/ g \in Field \ rtodo[r]
        BY <2>1
      <4>3. Accepts(r) =>
              \A g \in Field \ rtodo'[r] : snapshot'[r][g] = nodes[rnode[r]][g]
        BY <3>2, <4>1, <4>2
      <4>4. rpc'[r] = "check" => rtodo'[r] = {}
        BY <2>1
      <4> QED
        BY <3>3, <4>1, <4>3, <4>4, Zenon
    <3>4. CASE s # r
      BY <2>1, <3>4 DEF IInv, ReaderProgress
    <3> QED
      BY <3>3, <3>4
  <2> QED
    BY <2>2, <2>3
<1>7. CASE ReaderCheck(r)
  <2>1. TypeOK'
    BY <1>7 DEF IInv, TypeOK, ReaderCheck, writerVars
  <2>2. ReaderProgress'
    BY <1>7 DEF IInv, TypeOK, ReaderProgress, ReaderCheck, Accepts
  <2> QED
    BY <2>1, <2>2
<1> QED
  BY <1>4, <1>5, <1>6, <1>7 DEF Reader, ReaderBody

(* The strengthened invariant holds in every reachable state.              *)
THEOREM Invariance == Spec => []IInv
<1>1. Init => IInv
  BY InitIInv
<1>2. IInv /\ [Next]_vars => IInv'
  <2> SUFFICES ASSUME IInv, [Next]_vars
               PROVE  IInv'
    OBVIOUS
  <2>1. CASE Writer
    BY <2>1, WriterLockIInv, WriterStoreIInv, WriterUnlockIInv DEF Writer
  <2>2. ASSUME NEW r \in Readers, Reader(r)
        PROVE  IInv'
    BY <2>2, ReaderIInv
  <2>3. CASE UNCHANGED vars
    BY <2>3
    DEF vars, writerVars, readerVars, IInv, TypeOK, OddIsHeld, WriterProgress,
        ReaderProgress, Accepts
  <2> QED
    BY <2>1, <2>2, <2>3 DEF Next
<1> QED
  BY <1>1, <1>2, PTL DEF Spec

(* What a reader accepts is what the node holds when it checks the version *)
(* again, for every number of threads and even when versions outgrow the   *)
(* int they are kept in.                                                   *)
THEOREM AcceptedSnapshotIsCurrent == Spec => []SnapshotIsCurrent
<1>1. IInv => SnapshotIsCurrent
  <2> SUFFICES ASSUME IInv, NEW r \in Readers, rpc[r] = "check", Accepts(r)
               PROVE  snapshot[r] = nodes[rnode[r]]
    BY DEF SnapshotIsCurrent
  <2>1. snapshot[r] \in NodeVal /\ nodes[rnode[r]] \in NodeVal
    BY DEF IInv, TypeOK
  <2>2. \A f \in Field : snapshot[r][f] = nodes[rnode[r]][f]
    BY DEF IInv, ReaderProgress
  <2> QED
    BY <2>1, <2>2 DEF NodeVal, Field
<1> QED
  BY <1>1, Invariance, PTL

LEMMA TornLemma == IInv => TornOnlyWhenOdd
  BY LockOfType DEF IInv, WriterProgress, OddIsHeld, TornOnlyWhenOdd

(* A node can be seen torn only under an odd version.                      *)
THEOREM TearingIsGuarded == Spec => []TornOnlyWhenOdd
  BY TornLemma, Invariance, PTL

(* The assertion in reader() never fails.                                  *)
THEOREM AssertionHolds == Spec => []SnapshotAssert
<1>1. IInv /\ SnapshotIsCurrent => SnapshotAssert
  <2> SUFFICES ASSUME IInv, SnapshotIsCurrent, NEW r \in Readers,
                      rpc[r] = "check", Accepts(r)
               PROVE  snapshot[r].b = snapshot[r].a + 1
    BY DEF SnapshotAssert
  <2>1. snapshot[r] = nodes[rnode[r]] /\ rnode[r] \in Node
    BY DEF SnapshotIsCurrent, IInv, TypeOK
  <2>2. locks[LockOf(rnode[r])] % 2 = 0
    BY DEF IInv, ReaderProgress, Accepts
  <2> QED
    BY <2>1, <2>2, TornLemma DEF TornOnlyWhenOdd
<1> QED
  BY <1>1, Invariance, AcceptedSnapshotIsCurrent, PTL
=============================================================================
