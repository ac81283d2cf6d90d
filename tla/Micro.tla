-------------------------------- MODULE Micro -------------------------------
(***************************************************************************)
(* The microbenchmarks of antlr/actual: simple, locals, pointer-chasing,   *)
(* synthetic-divergence and random-walk.  Each fills an array with indices *)
(* into itself and lets every packet follow them, adding up where it ends. *)
(* As in the other programs there is a version as written (nogoto), one    *)
(* transformed (the segments) and mostly one optimised by hand.            *)
(***************************************************************************)
EXTENDS Segments

CONSTANTS
  LOG_CAP,          \* entries of the array, a power of two (NUM_BS, NUM_NODES)
  DEPTH,            \* steps of a packet (STEPS in random-walk)
  NBH,              \* numbers in a row: SLOTS_PER_BKT, the neighbours of a node
  COMPUTE           \* rounds of the hash of simple and locals

Index == 0 .. LOG_CAP-1
Zero  == [sum |-> 0]

-----------------------------------------------------------------------------
\* simple and locals: ht_log[i] = i; the packet's number is hashed, once or
\* twenty times, and the entry found there is added.
Identity == [i \in Index |-> i]

\* hash: the increment is (i * ret) & 7
hash(a) == FoldLeft(LAMBDA ret, i : ret + ((i * ret) % 8), a, UpTo(COMPUTE))
mem_addr(a) == hash(a) % LOG_CAP

simple_Address(pkt) == Switch(1, mem_addr(pkt), Nothing)
simple_Add(ht_log, l) == Done([sum |-> ht_log[l]])

\* The programs nogoto.c and manual.c; the latter computes all addresses of
\* a batch before it adds
simple_nogoto(ht_log, pkts) ==
  SumOver(Zero, LAMBDA p : [sum |-> ht_log[mem_addr(p)]], pkts)

simple_manual(ht_log, batches) ==
  LET addrs(batch) == [k \in DOMAIN batch |-> mem_addr(batch[k])]
  IN  FoldLeft(LAMBDA t, batch : SumOver(t, LAMBDA a : [sum |-> ht_log[a]], addrs(batch)),
               Zero, batches)

\* locals: a_1, ..., a_20, of which a segment hands on the last
a_(pkt, n) == FoldLeft(LAMBDA a, k : mem_addr(a), pkt, UpTo(n))

locals_Address(pkt) == Switch(1, a_(pkt, 20), Nothing)
locals_Add(ht_log, l) == Done([sum |-> ht_log[l]])
locals_nogoto(ht_log, pkts) == SumOver(Zero, LAMBDA p : [sum |-> ht_log[a_(p, 20)]], pkts)

-----------------------------------------------------------------------------
\* pointer-chasing: jumper = (ht_log[jumper] + i) & LOG_CAP_, DEPTH times
Jump(ht_log, jumper, i) == (ht_log[jumper] + i) % LOG_CAP

chase_Start(pkt) == Switch(1, [jumper |-> pkt, i |-> 0], Nothing)

\* Mutant: the loop counter is advanced before it is used.
chase_NextOffByOne(ht_log, l) ==
  LET j == Jump(ht_log, l.jumper, l.i + 1)
  IN  IF l.i + 1 < DEPTH THEN Switch(1, [jumper |-> j, i |-> l.i + 1], Nothing)
      ELSE Done([sum |-> j])

\* from fpp_label_1, in the loop
chase_Next(ht_log, l) ==
  LET j == Jump(ht_log, l.jumper, l.i)
  IN  IF l.i + 1 < DEPTH THEN Switch(1, [jumper |-> j, i |-> l.i + 1], Nothing)
      ELSE Done([sum |-> j])

\* The programs nogoto.c and handopt.c; the latter takes one step of every
\* packet of the batch, DEPTH times
chase_nogoto(ht_log, pkts) ==
  LET chase(p) == [sum |-> FoldLeft(LAMBDA j, i : Jump(ht_log, j, i), p, UpTo(DEPTH))]
  IN  SumOver(Zero, chase, pkts)

chase_handopt(ht_log, batches) ==
  LET round(js, i) == [k \in DOMAIN js |-> Jump(ht_log, js[k], i)]
      stages(t, batch) ==
        SumOver(t, LAMBDA j : [sum |-> j], FoldLeft(round, batch, UpTo(DEPTH)))
  IN  FoldLeft(stages, Zero, batches)

-----------------------------------------------------------------------------
\* synthetic-divergence: cache[b] is a bucket of indices; the next one is
\* the first of those with the greatest ABS(slot - jumper) % 8, and a
\* multiple of 16 ends the packet early.  The macro ABS does not put its
\* argument in parentheses, so -1 * a is -1 * slot - jumper, and % has the
\* sign of its left operand.
ABS_mod8(slot, jumper) ==
  IF slot - jumper > 0 THEN (slot - jumper) % 8 ELSE -((slot + jumper) % 8)

Farthest(cache, jumper) ==
  LET arr == cache[jumper]
      diff(j) == ABS_mod8(arr[j], jumper)
  IN  arr[FoldLeft(LAMBDA best, j : IF diff(j) > diff(best) THEN j ELSE best,
                   1, [j \in 1..Len(arr) |-> j])]

diverge_Start(pkt) == Switch(1, [jumper |-> pkt, i |-> 0], Nothing)

diverge_Next(cache, l) ==
  LET j == Farthest(cache, l.jumper)
  IN  IF j % 16 # 0 /\ l.i + 1 < DEPTH THEN Switch(1, [jumper |-> j, i |-> l.i + 1], Nothing)
      ELSE Done([sum |-> j])

\* The programs nogoto.c and handopt.c; in the latter iMask has the packets
\* that broke off
diverge_nogoto(cache, pkts) ==
  LET step(a, i) == IF a.break THEN a
                    ELSE LET j == Farthest(cache, a.jumper)
                         IN  [jumper |-> j, break |-> j % 16 = 0]
      walk(p) == [sum |-> FoldLeft(step, [jumper |-> p, break |-> FALSE], UpTo(DEPTH)).jumper]
  IN  SumOver(Zero, walk, pkts)

diverge_handopt(cache, batches) ==
  LET one(a, b_i) ==
        IF b_i \in a.iMask THEN a
        ELSE LET j == Farthest(cache, a.jumper[b_i])
             IN  [jumper |-> [a.jumper EXCEPT ![b_i] = j],
                  iMask |-> IF j % 16 = 0 THEN a.iMask \union {b_i} ELSE a.iMask]
      round(a, i) == FoldLeft(one, a, [k \in DOMAIN a.jumper |-> k])
      phases(t, batch) ==
        SumOver(t, LAMBDA j : [sum |-> j],
                FoldLeft(round, [jumper |-> batch, iMask |-> {}], UpTo(DEPTH)).jumper)
  IN  FoldLeft(phases, Zero, batches)

-----------------------------------------------------------------------------
\* random-walk: nodes[i].id = i and nodes[i].neighbors is a row of node
\* numbers.  cur_node is always set to a neighbour of the node the packet
\* started from; nbh is the result of rand().
rand_walk_init == [Index -> [1..NBH -> Index]]

walk_Start(start) == Switch(1, [start |-> start, cur_node |-> start, i |-> 0], Nothing)

\* Mutant: the id is added after the step.
walk_NextLate(nodes, l, nbh) ==
  LET c == nodes[l.start][nbh]
  IN  IF l.i + 1 < DEPTH
        THEN Switch(1, [l EXCEPT !.cur_node = c, !.i = @ + 1], [sum |-> c])
        ELSE Done([sum |-> c])

\* from fpp_label_1, in the loop
walk_Next(nodes, l, nbh) ==
  IF l.i + 1 < DEPTH
    THEN Switch(1, [l EXCEPT !.cur_node = nodes[l.start][nbh], !.i = @ + 1],
                [sum |-> l.cur_node])
    ELSE Done([sum |-> l.cur_node])

\* The sums that nogoto.c may end with, over the results of rand()
walk_nogoto(nodes, starts) ==
  LET Sums(start) == FoldLeft(LAMBDA ss, i : {s + n : s \in ss, n \in Range(nodes[start])},
                              {start}, UpTo(DEPTH - 1))
  IN  FoldLeft(LAMBDA ss, p : {s + t : s \in ss, t \in Sums(p)}, {0}, starts)

\* Those of handopt.c, where the packets of a batch take their steps in turn
walk_handopt(nodes, batches) ==
  LET turn(sums, batch) ==
        FoldLeft(LAMBDA ss, p : {s + n : s \in ss, n \in Range(nodes[p])}, sums, batch)
      add(sums, batch) ==
        FoldLeft(LAMBDA ss, i : turn(ss, batch),
                 {s + FoldLeft(+, 0, batch) : s \in sums}, UpTo(DEPTH - 1))
  IN  FoldLeft(add, {0}, batches)
=============================================================================
