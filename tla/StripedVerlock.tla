--------------------------- MODULE StripedVerlock ---------------------------
(***************************************************************************)
(* glock/striped_verlock: one writer and several readers share an array of *)
(* nodes (a, b) with b = a + 1, protected by striped version locks.  The   *)
(* writer makes the version odd, stores both fields and makes it even      *)
(* again; a reader takes a snapshot between two loads of the version and   *)
(* keeps it only if the version was even and has not changed.              *)
(*                                                                         *)
(* The version is a 64-bit counter, but a reader keeps it in an int: the   *)
(* conversion is modelled for an int of 2 * IntHalf values.  The compiler  *)
(* barriers in the code order the version accesses around the field        *)
(* accesses; the two fields may be accessed in either order between them.  *)
(***************************************************************************)
EXTENDS Integers

CONSTANTS
  Readers,      \* the reader threads; thread 0 is the only writer
  NUM_NODES,
  NUM_LOCKS,
  MaxVal,       \* bound: values of a
  MaxLock,      \* bound: the version the writer stops at
  IntHalf       \* an int holds -IntHalf .. IntHalf-1

ASSUME VerlockAssumption ==
  /\ NUM_NODES \in Nat \ {0}
  /\ NUM_LOCKS \in Nat \ {0}
  /\ MaxVal \in Nat
  /\ MaxLock \in Nat
  /\ IntHalf \in Nat \ {0}

Node  == 0 .. NUM_NODES-1
Lock  == 0 .. NUM_LOCKS-1
Field == {"a", "b"}
NodeVal == [a : 0..MaxVal, b : 0..MaxVal+1]

VARIABLES
  nodes,          \* the shared nodes
  locks,          \* the version of each stripe
  wpc,            \* writer: "pick", "stores" or "release"
  wnode,          \* writer: node_id
  wval,           \* writer: the hash of the old a, to be stored in a
  wtodo,          \* writer: the fields still to be stored
  rpc,            \* readers: "pick", "try", "loads" or "check"
  rnode,          \* readers: node_id
  lock_version,   \* readers: the snapshotted version
  snapshot,       \* readers: node_snapshot
  rtodo           \* readers: the fields still to be loaded

writerVars == <<wpc, wnode, wval, wtodo>>
readerVars == <<rpc, rnode, lock_version, snapshot, rtodo>>
vars == <<nodes, locks, writerVars, readerVars>>

\* lock_id = node_id & NUM_LOCKS_, NUM_LOCKS being a power of two
LockOf(n) == n % NUM_LOCKS

\* int lock_version = locks[lock_id].lock, a long long
ToInt(v) == ((v + IntHalf) % (2 * IntHalf)) - IntHalf

TypeOK ==
  /\ nodes \in [Node -> NodeVal]
  /\ locks \in [Lock -> Nat]
  /\ wpc \in {"pick", "stores", "release"}
  /\ wnode \in Node
  /\ wval \in 0..MaxVal
  /\ wtodo \in SUBSET Field
  /\ rpc \in [Readers -> {"pick", "try", "loads", "check"}]
  /\ rnode \in [Readers -> Node]
  /\ lock_version \in [Readers -> Int]
  /\ snapshot \in [Readers -> NodeVal]
  /\ rtodo \in [Readers -> SUBSET Field]

-----------------------------------------------------------------------------
\* main(): nodes[i].a = rand(), nodes[i].b = nodes[i].a + 1, versions 0.
\* The threads' locals are uninitialized; none is read before it is set.
Init ==
  /\ \E v \in [Node -> 0..MaxVal] :
       nodes = [n \in Node |-> [a |-> v[n], b |-> v[n] + 1]]
  /\ locks = [l \in Lock |-> 0]
  /\ wpc = "pick" /\ wnode = 0 /\ wval = 0 /\ wtodo = {}
  /\ rpc = [r \in Readers |-> "pick"]
  /\ rnode = [r \in Readers |-> 0]
  /\ lock_version = [r \in Readers |-> 0]
  /\ snapshot = [r \in Readers |-> [a |-> 0, b |-> 0]]
  /\ rtodo = [r \in Readers |-> {}]

-----------------------------------------------------------------------------
\* Mutant: the version is not made odd.
WriterLockSilent(n) ==
  /\ wpc = "pick"
  /\ locks[LockOf(n)] + 2 <= MaxLock
  /\ wpc' = "stores"
  /\ wnode' = n
  /\ wval' \in 0..MaxVal
  /\ wtodo' = Field
  /\ UNCHANGED <<nodes, locks, readerVars>>

\* node_id = fastrand() & NUM_NODES_; locks[lock_id].lock ++
WriterLock(n) ==
  /\ wpc = "pick"
  /\ locks[LockOf(n)] + 2 <= MaxLock
  /\ locks' = [locks EXCEPT ![LockOf(n)] = @ + 1]
  /\ wpc' = "stores"
  /\ wnode' = n
  /\ wval' \in 0..MaxVal            \* CityHash32 of the old a; WRITER_COMPUTE is 1
  /\ wtodo' = Field
  /\ UNCHANGED <<nodes, readerVars>>

\* nodes[node_id].a = hash; nodes[node_id].b = nodes[node_id].a + 1
WriterStore(f) ==
  /\ wpc = "stores"
  /\ f \in wtodo
  /\ nodes' = [nodes EXCEPT ![wnode][f] = IF f = "a" THEN wval ELSE wval + 1]
  /\ wtodo' = wtodo \ {f}
  /\ wpc' = IF wtodo' = {} THEN "release" ELSE "stores"
  /\ UNCHANGED <<locks, wnode, wval, readerVars>>

\* Mutant: the version stays odd.
WriterUnlockForgets ==
  /\ wpc = "release"
  /\ wpc' = "pick"
  /\ UNCHANGED <<nodes, locks, wnode, wval, wtodo, readerVars>>

WriterUnlock ==
  /\ wpc = "release"
  /\ locks' = [locks EXCEPT ![LockOf(wnode)] = @ + 1]
  /\ wpc' = "pick"
  /\ UNCHANGED <<nodes, wnode, wval, wtodo, readerVars>>

ReaderPick(r, n) ==
  /\ rpc[r] = "pick"
  /\ rpc' = [rpc EXCEPT ![r] = "try"]
  /\ rnode' = [rnode EXCEPT ![r] = n]
  /\ UNCHANGED <<nodes, locks, writerVars, lock_version, snapshot, rtodo>>

\* Mutant: an odd version is not waited out.
ReaderTryAnyVersion(r) ==
  /\ rpc[r] = "try"
  /\ lock_version' = [lock_version EXCEPT ![r] = ToInt(locks[LockOf(rnode[r])])]
  /\ rpc' = [rpc EXCEPT ![r] = "loads"]
  /\ rtodo' = [rtodo EXCEPT ![r] = Field]
  /\ UNCHANGED <<nodes, locks, writerVars, rnode, snapshot>>

\* try_again: load the version, start over when it is odd
ReaderTry(r) ==
  /\ rpc[r] = "try"
  /\ lock_version' = [lock_version EXCEPT ![r] = ToInt(locks[LockOf(rnode[r])])]
  /\ IF lock_version'[r] % 2 # 0
       THEN UNCHANGED <<rpc, rtodo>>
       ELSE /\ rpc' = [rpc EXCEPT ![r] = "loads"]
            /\ rtodo' = [rtodo EXCEPT ![r] = Field]
  /\ UNCHANGED <<nodes, locks, writerVars, rnode, snapshot>>

ReaderLoad(r, f) ==
  /\ rpc[r] = "loads"
  /\ f \in rtodo[r]
  /\ snapshot' = [snapshot EXCEPT ![r][f] = nodes[rnode[r]][f]]
  /\ rtodo' = [rtodo EXCEPT ![r] = @ \ {f}]
  /\ rpc' = [rpc EXCEPT ![r] = IF rtodo'[r] = {} THEN "check" ELSE "loads"]
  /\ UNCHANGED <<nodes, locks, writerVars, rnode, lock_version>>

\* Mutant: the second version is truncated to an int as well.
AcceptsTruncated(r) == ToInt(locks[LockOf(rnode[r])]) = lock_version[r]

\* The version load that decides whether the snapshot is kept.
Accepts(r) == locks[LockOf(rnode[r])] = lock_version[r]

ReaderCheck(r) ==
  /\ rpc[r] = "check"
  /\ rpc' = [rpc EXCEPT ![r] = IF Accepts(r) THEN "pick" ELSE "try"]
  /\ UNCHANGED <<nodes, locks, writerVars, rnode, lock_version, snapshot, rtodo>>

Writer ==
  \/ \E n \in Node : WriterLock(n)
  \/ \E f \in Field : WriterStore(f)
  \/ WriterUnlock

\* The part of a reader's loop that runs once it has picked a node.
ReaderBody(r) ==
  \/ ReaderTry(r)
  \/ \E f \in Field : ReaderLoad(r, f)
  \/ ReaderCheck(r)

Reader(r) == ReaderBody(r) \/ \E n \in Node : ReaderPick(r, n)

Next == Writer \/ \E r \in Readers : Reader(r)

\* Every thread has a core of its own and never blocks: a writer that has
\* made a version odd goes on, and so does a reader in its loop.
Fairness ==
  /\ WF_vars(WriterUnlock \/ \E f \in Field : WriterStore(f))
  /\ \A r \in Readers : WF_vars(ReaderBody(r))

Spec == Init /\ [][Next]_vars /\ Fairness

-----------------------------------------------------------------------------
(* The assert in reader(): a snapshot that passes the second version check *)
(* satisfies b == a + 1.                                                   *)
SnapshotAssert ==
  \A r \in Readers :
    rpc[r] = "check" /\ Accepts(r) => snapshot[r].b = snapshot[r].a + 1

(* More than the assert: what the reader accepts is what the node holds at *)
(* the moment of the check, not some older consistent pair.                *)
SnapshotIsCurrent ==
  \A r \in Readers :
    rpc[r] = "check" /\ Accepts(r) => snapshot[r] = nodes[rnode[r]]

(* A node is torn only while the version of its stripe is odd, and only    *)
(* the node the writer is working on.                                      *)
TornOnlyWhenOdd ==
  \A n \in Node :
    nodes[n].b # nodes[n].a + 1 =>
      locks[LockOf(n)] % 2 = 1 /\ wpc # "pick" /\ wnode = n

(* A reader gets its snapshot once the writer leaves its stripe alone (in  *)
(* the model it stops at MaxLock), unless the version of the stripe has    *)
(* left the range of the reader's int: then its copy never equals it.      *)
ReaderCompletesInRange ==
  \A r \in Readers :
    rpc[r] = "try" ~> rpc[r] = "pick" \/ locks[LockOf(rnode[r])] >= IntHalf

-----------------------------------------------------------------------------
\* The version of a stripe is odd exactly while the writer is inside it.
OddIsHeld ==
  \A l \in Lock : locks[l] % 2 = 1 <=> wpc # "pick" /\ LockOf(wnode) = l

\* What the writer has stored so far.
WriterProgress ==
  /\ wpc # "pick" =>
       \A f \in Field \ wtodo :
         nodes[wnode][f] = IF f = "a" THEN wval ELSE wval + 1
  /\ wpc = "release" => wtodo = {}
  /\ \A n \in Node : wpc = "pick" \/ n # wnode => nodes[n].b = nodes[n].a + 1

\* The version a reader holds is even and not ahead of its stripe; as long
\* as it is the stripe's, every field it has loaded is the node's.
ReaderProgress ==
  \A r \in Readers :
    rpc[r] \in {"loads", "check"} =>
      /\ lock_version[r] % 2 = 0
      /\ lock_version[r] <= locks[LockOf(rnode[r])]
      /\ Accepts(r) =>
           \A f \in Field \ rtodo[r] : snapshot[r][f] = nodes[rnode[r]][f]
      /\ rpc[r] = "check" => rtodo[r] = {}

IInv == TypeOK /\ OddIsHeld /\ WriterProgress /\ ReaderProgress
=============================================================================
