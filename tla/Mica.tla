-------------------------------- MODULE Mica --------------------------------
(***************************************************************************)
(* antlr/actual/mica: a lossy hash index over a log of key-value pairs.    *)
(* A slot of the index holds a 16-bit tag of the key and the position of   *)
(* the pair in the log; a full bucket loses a random slot.  A lookup tests *)
(* the log entry of every slot whose tag matches (nogoto.c, goto.c), the   *)
(* hand-optimised one only that of the last.                               *)
(*                                                                         *)
(* The memory m: m.hash[K] = <<tag, bucket>> is arbitrary and fixed (two   *)
(* applications of CityHash32 to the low half of K); m.slots the index,    *)
(* m.log the log, m.replaced the slots lost.                               *)
(***************************************************************************)
EXTENDS Segments, TLC

CONSTANTS
  HT_INDEX_N,        \* buckets of the index
  SLOTS_PER_BKT,     \* slots of a bucket, 8 in the code
  HT_LOG_CAP         \* entries of the log; as many as there are packets

INVALID_KV_I == HT_LOG_CAP + 1
Unused == [tag |-> 0, log_i |-> INVALID_KV_I]
Zero   == [sum |-> 0, succ |-> 0, fail_1 |-> 0, fail_2 |-> 0]

\* main, up to the first put: all slots invalid, the shared memory of the
\* log zeroed.
Created(hash) ==
  [hash |-> hash,
   slots |-> [b \in 0..HT_INDEX_N-1 |-> [j \in 1..SLOTS_PER_BKT |-> Unused]],
   log |-> [i \in 0..HT_LOG_CAP-1 |-> [key |-> 0, value |-> 0]],
   replaced |-> 0]

\* Mutant: the slot is not given the position of the new pair.
PutStalePosition(m, log_i, K, replace) ==
  LET b == m.hash[K][2]
      j == SelectInSeq(m.slots[b], LAMBDA s : s.log_i = INVALID_KV_I)
      at == IF j # 0 THEN j ELSE replace
      i == log_i % HT_LOG_CAP
  IN  [m EXCEPT !.slots[b][at] = [tag |-> m.hash[K][1],
                                  log_i |-> IF j # 0 THEN i ELSE @.log_i],
                !.log[i] = [key |-> K, value |-> K + 1],
                !.replaced = IF j # 0 THEN @ ELSE @ + 1]

\* An iteration of the loop of main that fills the index: K is the random
\* key, replace the slot chosen if the bucket is full.
Put(m, log_i, K, replace) ==
  LET b == m.hash[K][2]
      j == SelectInSeq(m.slots[b], LAMBDA s : s.log_i = INVALID_KV_I)
      i == log_i % HT_LOG_CAP
  IN  [m EXCEPT !.slots[b][IF j # 0 THEN j ELSE replace] = [tag |-> m.hash[K][1], log_i |-> i],
                !.log[i] = [key |-> K, value |-> K + 1],
                !.replaced = IF j # 0 THEN @ ELSE @ + 1]

-----------------------------------------------------------------------------
\* The slots of K's bucket from position j on whose tag matches, in order.
TagMatches(m, K, j) ==
  SelectSeq([k \in 1..SLOTS_PER_BKT |-> k],
            LAMBDA k : /\ k >= j
                       /\ m.slots[m.hash[K][2]][k].tag = m.hash[K][1]
                       /\ m.slots[m.hash[K][2]][k].log_i # INVALID_KV_I)

Entry(m, K, j) == m.log[m.slots[m.hash[K][2]][j].log_i]

\* goto.c, from fpp_start
IndexBucket(m, K) == Switch(1, [key |-> K], Nothing)

\* The loop over the slots, entered at slot j: it leaves the packet at the
\* log entry of the next slot whose tag matches, or ends it.
ScanSlots(m, K, j, add) ==
  LET hits == TagMatches(m, K, j)
  IN  IF hits # <<>> THEN Switch(2, [key |-> K, i |-> hits[1]], add)
      ELSE Done(add @@ [fail_2 |-> 1])

\* from fpp_label_1
InspectBucket(m, l) == ScanSlots(m, l.key, 1, Nothing)

\* Mutant: the loop starts again at the first slot it has not seen as
\* matching, two behind the one just tested.
InspectEntrySkipping(m, l) ==
  LET e == Entry(m, l.key, l.i)
  IN  IF e.key = l.key THEN Done([succ |-> 1, sum |-> e.value])
      ELSE ScanSlots(m, l.key, l.i + 2, [fail_1 |-> 1])

\* from fpp_label_2, in the middle of the loop: on success it breaks
InspectEntry(m, l) ==
  LET e == Entry(m, l.key, l.i)
  IN  IF e.key = l.key THEN Done([succ |-> 1, sum |-> e.value])
      ELSE ScanSlots(m, l.key, l.i + 1, [fail_1 |-> 1])

\* The program nogoto.c, once the index is there
nogoto(m, pkts) ==
  LET lookup(K) ==
        LET hits  == TagMatches(m, K, 1)
            first == SelectInSeq(hits, LAMBDA j : Entry(m, K, j).key = K)
        IN  IF first = 0 THEN [fail_1 |-> Len(hits), fail_2 |-> 1]
            ELSE [fail_1 |-> first - 1, succ |-> 1, sum |-> Entry(m, K, hits[first]).value]
  IN  SumOver(Zero, lookup, pkts)

\* The program handopt.c: log_i is overwritten by every slot whose tag
\* matches, and only the last one is checked.  It has one counter fail.
handopt(m, pkts) ==
  LET lookup(K) ==
        LET hits == TagMatches(m, K, 1)
        IN  IF hits = <<>> THEN [fail |-> 1]
            ELSE IF Entry(m, K, Last(hits)).key = K
              THEN [succ |-> 1, sum |-> Entry(m, K, Last(hits)).value]
            ELSE [fail |-> 1]
  IN  SumOver([sum |-> 0, succ |-> 0, fail |-> 0], lookup, pkts)

-----------------------------------------------------------------------------
\* Every slot in use leads to an entry of the log whose key has the slot's
\* tag and bucket; no two slots lead to the same entry; a hole is at the end.
WellFormed(m, n) ==
  LET used == {<<b, j>> \in (0..HT_INDEX_N-1) \X (1..SLOTS_PER_BKT) :
                 m.slots[b][j].log_i # INVALID_KV_I}
      at(x) == m.slots[x[1]][x[2]]
  IN  /\ \A x \in used :
           /\ at(x).log_i < n
           /\ m.hash[m.log[at(x).log_i].key] = <<at(x).tag, x[1]>>
           /\ \A j \in 1..x[2] : <<x[1], j>> \in used
      /\ \A x, y \in used : at(x).log_i = at(y).log_i => x = y
      /\ Cardinality(used) + m.replaced = n

\* Slots whose tags match but which belong to other keys: the only reason
\* for the hand-optimised lookup to miss what the others find.
TagShared(m, K) ==
  \E j \in 1..SLOTS_PER_BKT : j \in Range(TagMatches(m, K, 1)) /\ Entry(m, K, j).key # K
=============================================================================
