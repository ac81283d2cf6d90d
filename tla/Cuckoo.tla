------------------------------- MODULE Cuckoo -------------------------------
(***************************************************************************)
(* antlr/actual/cuckoo and antlr/actual/ht-cuckoo: a hash table whose keys *)
(* live in one of two buckets, built by cuckoo_init and then probed in     *)
(* batches.  Each program has the lookup three times, as the programmer    *)
(* wrote it (nogoto.c), as G-Opt transformed it (goto.c: the segments) and *)
(* optimised by hand (handopt.c).  ht-cuckoo counts only the sum of the    *)
(* values; its threads share the table, which nobody writes any more.      *)
(*                                                                         *)
(* The memory m: m.hash is hash(u) & NUM_BKT_, an arbitrary fixed function *)
(* (CityHash); m.ht_index the slots of each bucket; m.failed the inserts   *)
(* that found no room.                                                     *)
(***************************************************************************)
EXTENDS Segments

CONSTANTS
  NUM_BKT,      \* buckets, a power of two
  SLOTS         \* slots of a bucket, 8 in the code

Bkt   == 0 .. NUM_BKT-1
Empty == [key |-> 0, value |-> 0]
Zero  == [sum |-> 0, succ_1 |-> 0, succ_2 |-> 0, fail |-> 0]

\* The table after the memset of cuckoo_init.
Cleared(hash) ==
  [hash |-> hash, ht_index |-> [b \in Bkt |-> [s \in 1..SLOTS |-> Empty]], failed |-> 0]

\* The first slot of bucket b that holds k, 0 if there is none: the loop
\* over the slots with its break.
Search(m, b, k) == SelectInSeq(m.ht_index[b], LAMBDA s : s.key = k)
Value(m, b, k)  == m.ht_index[b][Search(m, b, k)].value
Has(m, b, k)    == Search(m, b, k) # 0

\* Mutant: the alternate bucket is the next one.
InsertNextBucket(m, i, key, coin) ==
  LET b == IF coin THEN (m.hash[key] + 1) % NUM_BKT ELSE m.hash[key]
  IN  IF Has(m, b, 0)
        THEN [m EXCEPT !.ht_index[b][Search(m, b, 0)] = [key |-> key, value |-> i]]
        ELSE [m EXCEPT !.failed = @ + 1]

\* Mutant: a key that finds no room is not counted.
InsertUncounted(m, i, key, coin) ==
  LET b == IF coin THEN m.hash[m.hash[key]] ELSE m.hash[key]
  IN  IF Has(m, b, 0)
        THEN [m EXCEPT !.ht_index[b][Search(m, b, 0)] = [key |-> key, value |-> i]]
        ELSE m

\* Iteration i of the loop of cuckoo_init: key and coin are the results of
\* its two rand() calls.
Insert(m, i, key, coin) ==
  LET b == IF coin THEN m.hash[m.hash[key]] ELSE m.hash[key]
  IN  IF Has(m, b, 0)
        THEN [m EXCEPT !.ht_index[b][Search(m, b, 0)] = [key |-> key, value |-> i]]
        ELSE [m EXCEPT !.failed = @ + 1]

-----------------------------------------------------------------------------
\* goto.c, from fpp_start to the first FPP_PSS
FirstBucket(m, key) == Switch(1, [key |-> key, bkt_1 |-> m.hash[key]], Nothing)

\* from fpp_label_1 to the second FPP_PSS or, on success, to the end
SecondBucket(m, l) ==
  IF Has(m, l.bkt_1, l.key)
    THEN Done([sum |-> Value(m, l.bkt_1, l.key), succ_1 |-> 1])
    ELSE Switch(2, [key |-> l.key, bkt_2 |-> m.hash[l.bkt_1]], Nothing)

\* from fpp_label_2 to the end
LastBucket(m, l) ==
  IF Has(m, l.bkt_2, l.key)
    THEN Done([sum |-> Value(m, l.bkt_2, l.key), succ_2 |-> 1])
    ELSE Done([fail |-> 1])

\* The program nogoto.c, once the table is there: what its foreach loops
\* leave in the globals.
nogoto(m, keys) ==
  LET lookup(key) ==
        LET b1 == m.hash[key]
            b2 == m.hash[b1]
        IN  IF Has(m, b1, key) THEN [sum |-> Value(m, b1, key), succ_1 |-> 1]
            ELSE IF Has(m, b2, key) THEN [sum |-> Value(m, b2, key), succ_2 |-> 1]
            ELSE [fail |-> 1]
  IN  SumOver(Zero, lookup, keys)

\* The program handopt.c: three passes over each batch, the first two
\* prefetching for the next
handopt(m, batches) ==
  LET b1(k) == m.hash[k]
      b2(k) == m.hash[m.hash[k]]
      pass2(k) == IF Has(m, b1(k), k) THEN [sum |-> Value(m, b1(k), k), succ_1 |-> 1]
                  ELSE Nothing
      pass3(k) == IF Has(m, b1(k), k) THEN Nothing
                  ELSE IF Has(m, b2(k), k) THEN [sum |-> Value(m, b2(k), k), succ_2 |-> 1]
                  ELSE [fail |-> 1]
  IN  FoldLeft(LAMBDA t, keys : SumOver(SumOver(t, pass2, keys), pass3, keys), Zero, batches)

-----------------------------------------------------------------------------
\* ht-cuckoo/goto.c: from fpp_start, from fpp_label_1 and from fpp_label_2
ht_FirstBucket(m, key) == Switch(1, [key |-> key, bkt_1 |-> m.hash[key]], Nothing)

\* Mutant: the second bucket is probed after a hit in the first as well.
ht_SecondBucketAlways(m, l) ==
  Switch(2, [key |-> l.key, bkt_2 |-> m.hash[l.bkt_1]],
         IF Has(m, l.bkt_1, l.key) THEN [sum |-> Value(m, l.bkt_1, l.key)] ELSE Nothing)

ht_SecondBucket(m, l) ==
  IF Has(m, l.bkt_1, l.key)
    THEN Done([sum |-> Value(m, l.bkt_1, l.key)])
    ELSE Switch(2, [key |-> l.key, bkt_2 |-> m.hash[l.bkt_1]], Nothing)

ht_LastBucket(m, l) ==
  Done(IF Has(m, l.bkt_2, l.key) THEN [sum |-> Value(m, l.bkt_2, l.key)] ELSE Nothing)

\* ht-cuckoo/nogoto.c: the value sum of a thread that looks keys up
ht_nogoto(m, keys) ==
  LET lookup(key) ==
        LET hits == SelectSeq(<<m.hash[key], m.hash[m.hash[key]]>>, LAMBDA b : Has(m, b, key))
        IN  IF hits = <<>> THEN Nothing ELSE [sum |-> Value(m, hits[1], key)]
  IN  SumOver([sum |-> 0], lookup, keys)

\* ht-cuckoo/handopt.c: the second and third pass; success is set by hits
\* in the first bucket only
ht_handopt(m, batches) ==
  LET pass2(k) == IF Has(m, m.hash[k], k) THEN [sum |-> Value(m, m.hash[k], k)] ELSE Nothing
      pass3(k) == IF pass2(k) # Nothing \/ ~Has(m, m.hash[m.hash[k]], k) THEN Nothing
                  ELSE [sum |-> Value(m, m.hash[m.hash[k]], k)]
  IN  FoldLeft(LAMBDA t, keys : SumOver(SumOver(t, pass2, keys), pass3, keys),
               [sum |-> 0], batches)

-----------------------------------------------------------------------------
\* Every stored key can be found: it is in one of its two buckets, in a slot
\* with no hole before it, with the index of one of its insertions.
WellFormed(m, keys) ==
  \A b \in Bkt, s \in 1..SLOTS :
    LET e == m.ht_index[b][s]
    IN  IF e.key = 0 THEN \A t \in s..SLOTS : m.ht_index[b][t] = Empty
        ELSE /\ b \in {m.hash[e.key], m.hash[m.hash[e.key]]}
             /\ keys[e.value + 1] = e.key
=============================================================================
