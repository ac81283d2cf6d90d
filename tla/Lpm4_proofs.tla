---------------------------- MODULE Lpm4_proofs ----------------------------
(***************************************************************************)
(* Proofs about the rule table of Lpm4 for any widths, any size of the     *)
(* table and any routes.  rule_add and rule_delete move one rule of each   *)
(* longer group to the other end of the group; a group is a block of the   *)
(* table, and the lemmas follow what blocks hold through the loops         *)
(* make_room and close_gap.                                                *)
(***************************************************************************)
EXTENDS Lpm4, FiniteSetTheorems, WellFoundedInduction, TLAPS

-----------------------------------------------------------------------------
(* Blocks of the rule table.                                               *)

Pos  == 0 .. max_rules - 1
Rule == [ip : Nat, next_hop : 0 .. GINDEX-1]

\* The rules in n places from a on ...
Block(T, a, n) == {T[k] : k \in a .. a + n - 1}

\* ... and that no two are for the same address.
Single(T, a, n) == \A k, l \in a .. a + n - 1 : T[k].ip = T[l].ip => k = l

LEMMA Constants4 ==
  /\ max_rules \in Nat \ {0} /\ RTE_LPM_MAX_DEPTH \in Nat \ {0}
  /\ Depth \subseteq Nat /\ Pos \subseteq Nat
BY Lpm4Assumption DEF RTE_LPM_MAX_DEPTH, Depth, Pos

\* Place p is outside a block, which lies in the table.
Apart(p, a, n) == (p < a \/ p >= a + n) /\ (n > 0 => a + n <= max_rules)

\* T2 is T with rule v at p.
Put(T, T2, p, v) == T2 = [T EXCEPT ![p] = v]

\* A write outside a block.
LEMMA WriteOutside ==
  ASSUME NEW T \in [Pos -> Rule], NEW p \in Pos, NEW v \in Rule, NEW a \in Nat, NEW n \in Nat,
         Apart(p, a, n), NEW T2, Put(T, T2, p, v)
  PROVE  /\ T2 \in [Pos -> Rule]
         /\ Block(T2, a, n) = Block(T, a, n)
         /\ Single(T, a, n) => Single(T2, a, n)
<1> USE DEF Put
<1>1. T2 \in [Pos -> Rule]
  OBVIOUS
<1>2. \A k \in a .. a+n-1 : T2[k] = T[k]
  <2> TAKE k \in a .. a+n-1
  <2>1. k \in Pos /\ k # p
    BY Constants4 DEF Pos, Apart
  <2> QED
    BY <2>1
<1> QED
  BY <1>1, <1>2 DEF Block, Single

\* A block with one more rule at its end.
LEMMA BlockGrows ==
  ASSUME NEW T \in [Pos -> Rule], NEW v \in Rule, NEW a \in Nat, NEW n \in Nat,
         NEW p \in Pos, p = a + n, NEW T2, Put(T, T2, p, v)
  PROVE  /\ Block(T2, a, n+1) = Block(T, a, n) \union {v}
         /\ Single(T, a, n) /\ (\A q \in Block(T, a, n) : q.ip # v.ip) => Single(T2, a, n+1)
<1>1. \A k : k \in a .. a + (n+1) - 1 <=> k \in a .. a+n-1 \/ k = a+n
  BY Constants4
<1>0. T2 = [T EXCEPT ![a + n] = v] /\ a + n \in Pos
  BY DEF Put
<1>2. \A k \in a .. a+n-1 : T2[k] = T[k] /\ k # a+n
  <2> TAKE k \in a .. a+n-1
  <2>1. k \in Pos /\ k # a+n
    BY Constants4 DEF Pos
  <2> QED
    BY <1>0, <2>1
<1>3. T2[a+n] = v
  BY <1>0
<1>4. Block(T2, a, n+1) = Block(T, a, n) \union {v}
  BY <1>1, <1>2, <1>3 DEF Block
<1>5. ASSUME Single(T, a, n), \A q \in Block(T, a, n) : q.ip # v.ip
      PROVE  Single(T2, a, n+1)
  <2>1. \A k \in a .. a+n-1 : T[k].ip # v.ip
    BY <1>5 DEF Block
  <2> QED
    BY <1>1, <1>2, <1>3, <1>5, <2>1 DEF Single
<1> QED
  BY <1>4, <1>5

\* A block without its first, or its last rule.
LEMMA BlockSplit ==
  ASSUME NEW T \in [Pos -> Rule], NEW a \in Nat, NEW n \in Nat \ {0}
  PROVE  /\ Block(T, a, n) = Block(T, a+1, n-1) \union {T[a]}
         /\ Block(T, a, n) = Block(T, a, n-1) \union {T[a+n-1]}
         /\ Single(T, a, n) => /\ Single(T, a+1, n-1) /\ Single(T, a, n-1)
                               /\ \A q \in Block(T, a+1, n-1) : q.ip # T[a].ip
                               /\ \A q \in Block(T, a, n-1) : q.ip # T[a+n-1].ip
<1>1. \A k : k \in a .. a+n-1 <=> k \in a+1 .. (a+1) + (n-1) - 1 \/ k = a
  OBVIOUS
<1>2. \A k : k \in a .. a+n-1 <=> k \in a .. a + (n-1) - 1 \/ k = a+n-1
  OBVIOUS
<1>3. /\ \A k \in a+1 .. (a+1) + (n-1) - 1 : k # a
      /\ \A k \in a .. a + (n-1) - 1 : k # a+n-1
  OBVIOUS
<1>4. Block(T, a, n) = Block(T, a+1, n-1) \union {T[a]}
  BY <1>1 DEF Block
<1>5. Block(T, a, n) = Block(T, a, n-1) \union {T[a+n-1]}
  BY <1>2 DEF Block
<1>6. ASSUME Single(T, a, n)
      PROVE  /\ Single(T, a+1, n-1)
             /\ \A q \in Block(T, a+1, n-1) : q.ip # T[a].ip
  BY <1>6, <1>1, <1>3 DEF Single, Block
<1>7. ASSUME Single(T, a, n)
      PROVE  /\ Single(T, a, n-1)
             /\ \A q \in Block(T, a, n-1) : q.ip # T[a+n-1].ip
  BY <1>7, <1>2, <1>3 DEF Single, Block
<1> QED
  BY <1>4, <1>5, <1>6, <1>7

\* A block with one more rule before its first.
LEMMA BlockGrowsDown ==
  ASSUME NEW T \in [Pos -> Rule], NEW v \in Rule, NEW a \in Nat \ {0}, NEW n \in Nat,
         a - 1 + n < max_rules, NEW T2, T2 = [T EXCEPT ![a - 1] = v]
  PROVE  /\ Block(T2, a-1, n+1) = Block(T, a, n) \union {v}
         /\ Single(T, a, n) /\ (\A q \in Block(T, a, n) : q.ip # v.ip) => Single(T2, a-1, n+1)
<1>1. \A k : k \in a-1 .. (a-1) + (n+1) - 1 <=> k \in a .. a+n-1 \/ k = a-1
  BY Constants4
<1>2. \A k \in a .. a+n-1 : T2[k] = T[k] /\ k # a-1
  <2> TAKE k \in a .. a+n-1
  <2>1. k \in Pos /\ k # a-1
    BY Constants4 DEF Pos
  <2> QED
    BY <2>1
<1>3. T2[a-1] = v
  BY Constants4 DEF Pos
<1>4. Block(T2, a-1, n+1) = Block(T, a, n) \union {v}
  BY <1>1, <1>2, <1>3 DEF Block
<1>5. ASSUME Single(T, a, n), \A q \in Block(T, a, n) : q.ip # v.ip
      PROVE  Single(T2, a-1, n+1)
  <2>1. \A k \in a .. a+n-1 : T[k].ip # v.ip
    BY <1>5 DEF Block
  <2> QED
    BY <1>1, <1>2, <1>3, <1>5, <2>1 DEF Single
<1> QED
  BY <1>4, <1>5

\* The first rule moved behind the last.
LEMMA TurnBack ==
  ASSUME NEW T \in [Pos -> Rule], NEW a \in Nat, NEW n \in Nat \ {0}, a + n < max_rules,
         NEW T2, T2 = [T EXCEPT ![a + n] = T[a]]
  PROVE  /\ Block(T2, a+1, n) = Block(T, a, n)
         /\ Single(T, a, n) => Single(T2, a+1, n)
<1>1. PICK v : v = T[a]
  OBVIOUS
<1>2. v \in Rule /\ a + n \in Pos
  BY <1>1, Constants4 DEF Pos
<1>3. PICK b \in Nat : b = a + 1
  OBVIOUS
<1>4. PICK l \in Nat : l = n - 1
  OBVIOUS
<1>5. b + l = a + n /\ l + 1 = n
  BY <1>3, <1>4
<1>6. PICK p \in Pos : p = b + l /\ Put(T, T2, p, v)
  BY <1>1, <1>2, <1>5 DEF Put
<1>7. /\ Block(T2, b, l+1) = Block(T, b, l) \union {v}
      /\ Single(T, b, l) /\ (\A q \in Block(T, b, l) : q.ip # v.ip) => Single(T2, b, l+1)
  BY <1>2, <1>6, BlockGrows
<1>8. /\ Block(T, a, n) = Block(T, b, l) \union {v}
      /\ Single(T, a, n) => Single(T, b, l) /\ \A q \in Block(T, b, l) : q.ip # v.ip
  BY <1>1, <1>3, <1>4, BlockSplit
<1>9. /\ Block(T2, b, n) = Block(T, a, n)
      /\ Single(T, a, n) => Single(T2, b, n)
  BY <1>5, <1>7, <1>8
<1> QED
  BY <1>3, <1>9

\* The last rule moved before the first.
LEMMA TurnForward ==
  ASSUME NEW T \in [Pos -> Rule], NEW a \in Nat \ {0}, NEW n \in Nat \ {0}, a + n <= max_rules,
         NEW T2, T2 = [T EXCEPT ![a - 1] = T[a + n - 1]]
  PROVE  /\ Block(T2, a-1, n) = Block(T, a, n)
         /\ Single(T, a, n) => Single(T2, a-1, n)
<1>1. PICK v : v = T[a + n - 1]
  OBVIOUS
<1>2. v \in Rule
  BY <1>1, Constants4 DEF Pos
<1>3. PICK l \in Nat : l = n - 1
  OBVIOUS
<1>4. l + 1 = n /\ a - 1 + l < max_rules
  BY <1>3, Constants4
<1>5. T2 = [T EXCEPT ![a - 1] = v]
  BY <1>1
<1>6. /\ Block(T2, a-1, l+1) = Block(T, a, l) \union {v}
      /\ Single(T, a, l) /\ (\A q \in Block(T, a, l) : q.ip # v.ip) => Single(T2, a-1, l+1)
  BY <1>2, <1>4, <1>5, BlockGrowsDown
<1>7. /\ Block(T, a, n) = Block(T, a, l) \union {v}
      /\ Single(T, a, n) => Single(T, a, l) /\ \A q \in Block(T, a, l) : q.ip # v.ip
  BY <1>1, <1>3, BlockSplit
<1> QED
  BY <1>4, <1>6, <1>7

-----------------------------------------------------------------------------
(* One group moves.                                                        *)

first(r, i) == r.rule_info[i].first_rule
used(r, i)  == r.rule_info[i].used_rules

RuleTable == [rules_tbl : [Pos -> Rule],
              rule_info : [Depth -> [used_rules : Nat, first_rule : Nat]]]

\* What a write into the rules and a write to first_rule of one group leave.
Wrote(r, m, p, v, i, f) ==
  /\ m \in RuleTable
  /\ m.rules_tbl = [r.rules_tbl EXCEPT ![p] = v]
  /\ \A j \in Depth : used(m, j) = used(r, j)
  /\ first(m, i) = f
  /\ \A j \in Depth : j # i => first(m, j) = first(r, j)

LEMMA TableIs ==
  ASSUME NEW r \in RuleTable
  PROVE  /\ r.rules_tbl \in [Pos -> Rule]
         /\ \A i \in Depth : /\ first(r, i) \in Nat /\ used(r, i) \in Nat
                             /\ end(r, i) = first(r, i) + used(r, i)
BY DEF RuleTable, first, used, end

LEMMA FieldsAre ==
  ASSUME NEW T, NEW I, NEW m, m = [rules_tbl |-> T, rule_info |-> I]
  PROVE  m.rules_tbl = T /\ m.rule_info = I
OBVIOUS

LEMMA RecordWrite ==
  ASSUME NEW r \in RuleTable, NEW p \in Pos, NEW v \in Rule, NEW i \in Depth, NEW f \in Nat,
         NEW T, T = [r.rules_tbl EXCEPT ![p] = v],
         NEW I, I = [r.rule_info EXCEPT ![i].first_rule = f],
         NEW m, m.rules_tbl = T, m.rule_info = I, m = [rules_tbl |-> T, rule_info |-> I]
  PROVE  Wrote(r, m, p, v, i, f)
<1>1. T \in [Pos -> Rule]
  BY TableIs
<1>2. r.rule_info \in [Depth -> [used_rules : Nat, first_rule : Nat]]
  BY DEF RuleTable
<1>3. I \in [Depth -> [used_rules : Nat, first_rule : Nat]]
  BY <1>2
<1>4. /\ \A j \in Depth : I[j].used_rules = r.rule_info[j].used_rules
      /\ I[i].first_rule = f
      /\ \A j \in Depth : j # i => I[j].first_rule = r.rule_info[j].first_rule
  BY <1>2
<1>5. m \in RuleTable
  BY <1>1, <1>3 DEF RuleTable
<1> QED
  BY <1>4, <1>5 DEF Wrote, first, used

\* Writes as the record updates of the code's functions.
LEMMA WriteIs ==
  ASSUME NEW r \in RuleTable, NEW p \in Pos, NEW v \in Rule, NEW i \in Depth, NEW f \in Nat,
         NEW m, m = [r EXCEPT !.rules_tbl[p] = v, !.rule_info[i].first_rule = f]
  PROVE  Wrote(r, m, p, v, i, f)
<1>1. PICK T : T = [r.rules_tbl EXCEPT ![p] = v]
  OBVIOUS
<1>2. PICK I : I = [r.rule_info EXCEPT ![i].first_rule = f]
  OBVIOUS
<1>3. m = [rules_tbl |-> T, rule_info |-> I]
  BY <1>1, <1>2 DEF RuleTable
<1>4. PICK e : e = m
  OBVIOUS
<1>5. e = [rules_tbl |-> T, rule_info |-> I]
  BY <1>3, <1>4
<1>6. e.rules_tbl = T /\ e.rule_info = I
  BY <1>5, FieldsAre
<1>7. Wrote(r, e, p, v, i, f)
  BY <1>1, <1>2, <1>5, <1>6, RecordWrite
<1> QED
  BY <1>4, <1>7

LEMMA MoveBackIs ==
  ASSUME NEW r \in RuleTable, NEW i \in Depth, used(r, i) > 0, end(r, i) < max_rules
  PROVE  Wrote(r, move_back(r, i), end(r, i), r.rules_tbl[first(r, i)], i, first(r, i) + 1)
<1>1. /\ r.rules_tbl \in [Pos -> Rule] /\ first(r, i) \in Nat /\ used(r, i) \in Nat
      /\ end(r, i) = first(r, i) + used(r, i)
  BY TableIs
<1>2. end(r, i) \in Pos /\ first(r, i) \in Pos /\ first(r, i) + 1 \in Nat
  BY <1>1, Constants4 DEF Pos
<1>3. r.rules_tbl[first(r, i)] \in Rule
  BY <1>1, <1>2
<1>4. PICK m : m = move_back(r, i)
  OBVIOUS
<1>5. PICK v : v = r.rules_tbl[first(r, i)]
  OBVIOUS
<1>6. m = [r EXCEPT !.rules_tbl[end(r, i)] = v,
                  !.rule_info[i].first_rule = first(r, i) + 1]
  <2>1. r.rule_info[i].used_rules # 0
    BY <1>1 DEF used
  <2> QED
    BY <1>4, <1>5, <2>1 DEF move_back, first
<1> QED
  BY <1>2, <1>3, <1>4, <1>5, <1>6, WriteIs

LEMMA MoveForwardIs ==
  ASSUME NEW r \in RuleTable, NEW i \in Depth, used(r, i) > 0, end(r, i) <= max_rules, first(r, i) > 0
  PROVE  Wrote(r, move_forward(r, i), first(r, i) - 1, r.rules_tbl[end(r, i) - 1], i, first(r, i) - 1)
<1>1. /\ r.rules_tbl \in [Pos -> Rule] /\ first(r, i) \in Nat /\ used(r, i) \in Nat
      /\ end(r, i) = first(r, i) + used(r, i)
  BY TableIs
<1>2. end(r, i) - 1 \in Pos /\ first(r, i) - 1 \in Pos /\ first(r, i) - 1 \in Nat
  BY <1>1, Constants4 DEF Pos
<1>3. r.rules_tbl[end(r, i) - 1] \in Rule
  BY <1>1, <1>2
<1>4. PICK m : m = move_forward(r, i)
  OBVIOUS
<1>5. PICK v : v = r.rules_tbl[end(r, i) - 1]
  OBVIOUS
<1>6. m = [r EXCEPT !.rules_tbl[first(r, i) - 1] = v,
                  !.rule_info[i].first_rule = first(r, i) - 1]
  <2>1. r.rule_info[i].used_rules # 0
    BY <1>1 DEF used
  <2> QED
    BY <1>4, <1>5, <2>1 DEF move_forward, first
<1> QED
  BY <1>2, <1>3, <1>4, <1>5, <1>6, WriteIs

-----------------------------------------------------------------------------
(* The longer groups move.                                                 *)

\* The groups lie in the table one after the other.
Laid(r) ==
  /\ \A i \in Depth : used(r, i) > 0 => end(r, i) <= max_rules
  /\ \A i, j \in Depth : i < j /\ used(r, i) > 0 /\ used(r, j) > 0 => end(r, i) <= first(r, j)

\* m is s with the groups of depths D moved by e places; of each group the
\* first c[i] rules count.
Shifted(s, m, c, D, e) ==
  /\ m \in RuleTable
  /\ \A i \in Depth : /\ used(m, i) = used(s, i)
                      /\ first(m, i) = IF i \in D /\ used(s, i) > 0 THEN first(s, i) + e ELSE first(s, i)
  /\ \A i \in Depth : /\ Block(m.rules_tbl, first(m, i), c[i]) = Block(s.rules_tbl, first(s, i), c[i])
                      /\ Single(m.rules_tbl, first(m, i), c[i])

LEMMA ShiftNone ==
  ASSUME NEW s \in RuleTable, NEW c, \A i \in Depth : Single(s.rules_tbl, first(s, i), c[i]),
         NEW D, NEW e, \A i \in Depth : i \notin D
  PROVE  Shifted(s, s, c, D, e)
BY DEF Shifted

\* One more group: an empty one does not move.
LEMMA ShiftEmpty ==
  ASSUME NEW s, NEW m, NEW c, NEW D, NEW e, Shifted(s, m, c, D, e),
         NEW i \in Depth, used(s, i) = 0, NEW D2, D2 = D \union {i}
  PROVE  Shifted(s, m, c, D2, e)
<1>1. \A j \in Depth : (j \in D2 /\ used(s, j) > 0) <=> (j \in D /\ used(s, j) > 0)
  OBVIOUS
<1> QED
  BY <1>1 DEF Shifted

LEMMA ShiftOne ==
  ASSUME NEW s \in RuleTable, NEW m, NEW c \in [Depth -> Nat], NEW D, NEW e \in Int,
         Shifted(s, m, c, D, e), NEW i \in Depth, i \notin D, used(s, i) > 0,
         NEW p \in Pos, NEW v \in Rule, NEW n, NEW f, f = first(m, i) + e, Wrote(m, n, p, v, i, f),
         Block(n.rules_tbl, first(n, i), c[i]) = Block(m.rules_tbl, first(m, i), c[i]),
         Single(n.rules_tbl, first(n, i), c[i]),
         \A j \in Depth : j # i => Apart(p, first(m, j), c[j]),
         NEW D2, D2 = D \union {i}
  PROVE  Shifted(s, n, c, D2, e)
<1>1. n \in RuleTable /\ n.rules_tbl = [m.rules_tbl EXCEPT ![p] = v]
  BY DEF Wrote
<1>2. m \in RuleTable
  BY DEF Shifted
<1>3. ASSUME NEW j \in Depth
      PROVE  /\ used(n, j) = used(s, j)
             /\ first(n, j) = IF j \in D2 /\ used(s, j) > 0 THEN first(s, j) + e ELSE first(s, j)
  <2>1. /\ used(m, j) = used(s, j)
        /\ first(m, j) = IF j \in D /\ used(s, j) > 0 THEN first(s, j) + e ELSE first(s, j)
    BY DEF Shifted
  <2>2. /\ used(n, j) = used(m, j)
        /\ first(n, j) = IF j = i THEN first(m, j) + e ELSE first(m, j)
    BY DEF Wrote
  <2> QED
    BY <2>1, <2>2
<1>4. ASSUME NEW j \in Depth
      PROVE  /\ Block(n.rules_tbl, first(n, j), c[j]) = Block(s.rules_tbl, first(s, j), c[j])
             /\ Single(n.rules_tbl, first(n, j), c[j])
  <2>1. /\ Block(m.rules_tbl, first(m, j), c[j]) = Block(s.rules_tbl, first(s, j), c[j])
        /\ Single(m.rules_tbl, first(m, j), c[j])
    BY DEF Shifted
  <2>2. CASE j = i
    BY <2>1, <2>2
  <2>3. CASE j # i
    <3>1. PICK T : T = m.rules_tbl
      OBVIOUS
    <3>2. PICK T2 : T2 = n.rules_tbl
      OBVIOUS
    <3>3. PICK a : a = first(m, j)
      OBVIOUS
    <3>4. T \in [Pos -> Rule] /\ a \in Nat
      BY <1>2, <3>1, <3>3, TableIs
    <3>5. first(n, j) = a
      BY <2>3, <3>3 DEF Wrote
    <3>6. PICK k : k = c[j]
      OBVIOUS
    <3>7. k \in Nat /\ Apart(p, a, k)
      BY <2>3, <3>3, <3>6
    <3>8. Put(T, T2, p, v)
      BY <1>1, <3>1, <3>2 DEF Put
    <3>9. Block(T2, a, k) = Block(T, a, k) /\ (Single(T, a, k) => Single(T2, a, k))
      BY <3>4, <3>7, <3>8, WriteOutside
    <3> QED
      BY <2>1, <3>1, <3>2, <3>3, <3>5, <3>6, <3>9
  <2> QED
    BY <2>2, <2>3
<1> QED
  BY <1>1, <1>3, <1>4 DEF Shifted

\* All rules count, and each group longer than d has room behind it.
CountAll(s, c) == c \in [Depth -> Nat] /\ \A i \in Depth : c[i] = used(s, i)
RoomBehind(s, d) == \A i \in Depth : i > d => end(s, i) # max_rules

\* The last rule of group d does not count.
CountLess(s, d, c) ==
  c \in [Depth -> Nat] /\ \A i \in Depth : c[i] = IF i = d THEN used(s, i) - 1 ELSE used(s, i)

\* A step of make_room's loop.
LEMMA BackStep ==
  ASSUME NEW s \in RuleTable, Laid(s), NEW d \in Depth, NEW c, CountAll(s, c), RoomBehind(s, d),
         NEW b \in Depth, b > d, NEW m, NEW D, D = b+1 .. RTE_LPM_MAX_DEPTH, Shifted(s, m, c, D, 1),
         NEW D2, D2 = b .. RTE_LPM_MAX_DEPTH
  PROVE  Shifted(s, move_back(m, b), c, D2, 1)
<1>1. D2 = D \union {b} /\ b \notin D
  BY Constants4 DEF Depth
<1>2. m \in RuleTable
  BY DEF Shifted
<1>3. used(m, b) = used(s, b) /\ first(m, b) = first(s, b)
  BY <1>1 DEF Shifted
<1>4. /\ m.rules_tbl \in [Pos -> Rule]
      /\ \A i \in Depth : /\ first(m, i) \in Nat /\ used(m, i) \in Nat
                          /\ end(m, i) = first(m, i) + used(m, i)
  BY <1>2, TableIs
<1>5. \A i \in Depth : /\ first(s, i) \in Nat /\ used(s, i) \in Nat
                       /\ end(s, i) = first(s, i) + used(s, i)
  BY TableIs
<1>0. c \in [Depth -> Nat] /\ \A i \in Depth : c[i] = used(s, i)
  BY DEF CountAll
<1>6. CASE used(s, b) = 0
  <2>1. move_back(m, b) = m
    BY <1>3, <1>6 DEF move_back, used
  <2> QED
    BY <1>1, <1>6, <2>1, ShiftEmpty
<1>7. CASE used(s, b) # 0
  <2>1. used(s, b) > 0 /\ end(m, b) = end(s, b) /\ end(s, b) < max_rules
    <3>1. used(s, b) > 0
      BY <1>5, <1>7
    <3>2. end(m, b) = end(s, b)
      BY <1>3, <1>4, <1>5
    <3>3. end(s, b) <= max_rules
      BY <3>1 DEF Laid
    <3>4. end(s, b) # max_rules
      BY DEF RoomBehind
    <3>5. end(s, b) \in Nat
      BY <1>5
    <3> QED
      BY <3>1, <3>2, <3>3, <3>4, <3>5, Constants4
  <2>2. PICK n : n = move_back(m, b)
    OBVIOUS
  <2>3. PICK p : p = end(m, b)
    OBVIOUS
  <2>4. PICK v : v = m.rules_tbl[first(m, b)]
    OBVIOUS
  <2>5. Wrote(m, n, p, v, b, first(m, b) + 1)
    BY <1>2, <1>3, <2>1, <2>2, <2>3, <2>4, MoveBackIs
  <2>6. p \in Pos /\ v \in Rule
    <3>1. p \in Pos /\ first(m, b) \in Pos
      BY <1>3, <1>4, <1>5, <2>1, <2>3, Constants4 DEF Pos
    <3> QED
      BY <1>4, <2>4, <3>1
  <2>7. /\ Block(n.rules_tbl, first(n, b), c[b]) = Block(m.rules_tbl, first(m, b), c[b])
        /\ Single(n.rules_tbl, first(n, b), c[b])
    <3>1. PICK T : T = m.rules_tbl
      OBVIOUS
    <3>2. PICK T2 : T2 = n.rules_tbl
      OBVIOUS
    <3>3. PICK a \in Nat : a = first(m, b)
      BY <1>4
    <3>4. PICK k \in Nat \ {0} : k = c[b]
      BY <1>0, <1>5, <1>7
    <3>5. p = a + k /\ a + k < max_rules
      BY <1>0, <1>3, <1>4, <2>1, <2>3, <3>3, <3>4
    <3>6. T2 = [T EXCEPT ![a + k] = T[a]] /\ T \in [Pos -> Rule]
      BY <1>4, <2>4, <2>5, <3>1, <3>2, <3>3, <3>5 DEF Wrote
    <3>7. first(n, b) = a + 1
      BY <2>5, <3>3 DEF Wrote
    <3>8. Single(T, a, k)
      BY <3>1, <3>3, <3>4 DEF Shifted
    <3>9. Block(T2, a+1, k) = Block(T, a, k) /\ Single(T2, a+1, k)
      BY <3>5, <3>6, <3>8, TurnBack
    <3> QED
      BY <3>1, <3>2, <3>3, <3>4, <3>7, <3>9
  <2>8. ASSUME NEW j \in Depth, j # b
        PROVE  Apart(p, first(m, j), c[j])
    <3> USE DEF Apart
    <3>1. p = first(s, b) + used(s, b)
      BY <1>5, <2>1, <2>3
    <3>2. CASE c[j] = 0
      BY <1>4, <1>5, <3>1, <3>2
    <3>3. CASE c[j] # 0 /\ j < b
      <4>1. j \notin D
        BY <3>3, Constants4 DEF Depth
      <4>2. first(m, j) = first(s, j) /\ used(s, j) = c[j]
        BY <1>0, <4>1 DEF Shifted
      <4>3. end(s, j) <= first(s, b) /\ end(s, j) <= max_rules
        BY <1>5, <2>1, <3>3, <4>2 DEF Laid
      <4> QED
        BY <1>5, <3>1, <4>2, <4>3
    <3>4. CASE c[j] # 0 /\ j > b
      <4>1. j \in D
        BY <3>4, Constants4 DEF Depth
      <4>2. used(s, j) = c[j] /\ used(s, j) > 0
        BY <1>0, <1>5, <3>4
      <4>3. first(m, j) = first(s, j) + 1
        BY <4>1, <4>2 DEF Shifted
      <4>4. end(s, b) <= first(s, j) /\ end(s, j) <= max_rules
        BY <2>1, <3>4, <4>2 DEF Laid
      <4>5. end(s, j) # max_rules
        BY <3>4, Constants4 DEF RoomBehind
      <4> QED
        <5>1. PICK x \in Nat : x = first(s, j)
          BY <1>5
        <5>2. PICK y \in Nat : y = c[j]
          BY <1>0
        <5>3. end(s, j) = x + y /\ first(m, j) = x + 1 /\ p <= x
          BY <1>5, <3>1, <4>2, <4>3, <4>4, <5>1, <5>2
        <5>4. x + y <= max_rules /\ x + y # max_rules
          BY <4>4, <4>5, <5>3
        <5>5. p < x + 1 /\ x + 1 + y <= max_rules
          BY <5>3, <5>4, <2>6, Constants4
        <5> QED
          BY <5>2, <5>3, <5>5
    <3> QED
      BY <1>0, <2>8, <3>2, <3>3, <3>4, Constants4
  <2>9. Shifted(s, n, c, D2, 1)
    <3>1. PICK f : f = first(m, b) + 1
      OBVIOUS
    <3>2. PICK e \in Int : e = 1
      OBVIOUS
    <3>3. Wrote(m, n, p, v, b, f) /\ f = first(m, b) + e /\ Shifted(s, m, c, D, e)
      BY <2>5, <3>1, <3>2
    <3>4. Shifted(s, n, c, D2, e)
      BY <1>0, <1>1, <2>1, <2>6, <2>7, <2>8, <3>3, ShiftOne
    <3> QED
      BY <3>2, <3>4
  <2> QED
    BY <2>2, <2>9
<1> QED
  BY <1>6, <1>7

\* A step of close_gap's loop.
LEMMA ForwardStep ==
  ASSUME NEW s \in RuleTable, Laid(s), NEW d \in Depth, used(s, d) > 0, NEW c, CountLess(s, d, c),
         NEW b \in Depth, b > d, NEW m, NEW D, D = d+1 .. b-1, NEW e, e = -1,
         Shifted(s, m, c, D, e),
         NEW D2, D2 = d+1 .. b
  PROVE  Shifted(s, move_forward(m, b), c, D2, e)
<1>1. D2 = D \union {b} /\ b \notin D
  BY Constants4 DEF Depth
<1>2. m \in RuleTable
  BY DEF Shifted
<1>3. used(m, b) = used(s, b) /\ first(m, b) = first(s, b)
  BY <1>1 DEF Shifted
<1>4. /\ m.rules_tbl \in [Pos -> Rule]
      /\ \A i \in Depth : /\ first(m, i) \in Nat /\ used(m, i) \in Nat
                          /\ end(m, i) = first(m, i) + used(m, i)
  BY <1>2, TableIs
<1>5. \A i \in Depth : /\ first(s, i) \in Nat /\ used(s, i) \in Nat
                       /\ end(s, i) = first(s, i) + used(s, i)
  BY TableIs
<1>0. /\ c \in [Depth -> Nat] /\ c[d] = used(s, d) - 1
      /\ \A i \in Depth : i # d => c[i] = used(s, i)
  BY DEF CountLess
<1>6. CASE used(s, b) = 0
  <2>1. move_forward(m, b) = m
    BY <1>3, <1>6 DEF move_forward, used
  <2>2. Shifted(s, m, c, D2, e)
    BY <1>1, <1>6, ShiftEmpty
  <2> QED
    BY <2>1, <2>2
<1>7. CASE used(s, b) # 0
  <2>1. used(s, b) > 0 /\ end(m, b) = end(s, b) /\ end(s, b) <= max_rules
    <3>1. used(s, b) > 0
      BY <1>5, <1>7
    <3>2. end(m, b) = end(s, b)
      BY <1>3, <1>4, <1>5
    <3>3. end(s, b) <= max_rules
      BY <3>1 DEF Laid
    <3> QED
      BY <3>1, <3>2, <3>3
  <2>0. end(s, d) <= first(s, b) /\ first(s, b) > 0
    BY <1>5, <2>1 DEF Laid
  <2>2. PICK n : n = move_forward(m, b)
    OBVIOUS
  <2>3. PICK p : p = first(m, b) - 1
    OBVIOUS
  <2>4. PICK v : v = m.rules_tbl[end(m, b) - 1]
    OBVIOUS
  <2>5. Wrote(m, n, p, v, b, first(m, b) - 1)
    BY <1>2, <1>3, <2>0, <2>1, <2>2, <2>3, <2>4, MoveForwardIs
  <2>6. p \in Pos /\ v \in Rule
    <3>1. p \in Pos /\ end(m, b) - 1 \in Pos
      <4>1. PICK x \in Nat : x = first(m, b)
        BY <1>4
      <4>2. PICK y \in Nat : y = used(m, b)
        BY <1>4
      <4>3. x > 0 /\ y > 0 /\ x + y <= max_rules /\ end(m, b) = x + y /\ p = x - 1
        BY <1>3, <1>4, <2>0, <2>1, <2>3, <4>1, <4>2
      <4> QED
        BY <4>3, Constants4 DEF Pos
    <3> QED
      BY <1>4, <2>4, <3>1
  <2>7. /\ Block(n.rules_tbl, first(n, b), c[b]) = Block(m.rules_tbl, first(m, b), c[b])
        /\ Single(n.rules_tbl, first(n, b), c[b])
    <3>1. PICK T : T = m.rules_tbl
      OBVIOUS
    <3>2. PICK T2 : T2 = n.rules_tbl
      OBVIOUS
    <3>3. PICK a \in Nat \ {0} : a = first(m, b)
      BY <1>3, <1>4, <2>0
    <3>4. PICK k \in Nat \ {0} : k = c[b]
      BY <1>0, <1>5, <1>7, Constants4
    <3>5. p = a - 1 /\ a + k <= max_rules /\ end(m, b) = a + k
      <4>1. k = used(m, b)
        BY <1>0, <1>3, <3>4, Constants4
      <4>2. end(m, b) = a + k
        BY <1>4, <3>3, <4>1
      <4> QED
        BY <2>1, <2>3, <3>3, <4>2
    <3>6. T2 = [T EXCEPT ![a - 1] = T[a + k - 1]] /\ T \in [Pos -> Rule]
      <4>1. T2 = [T EXCEPT ![p] = v]
        BY <2>5, <3>1, <3>2 DEF Wrote
      <4>2. v = T[a + k - 1]
        BY <2>4, <3>1, <3>5
      <4> QED
        BY <1>4, <3>1, <3>5, <4>1, <4>2
    <3>7. first(n, b) = a - 1
      BY <2>5, <3>3 DEF Wrote
    <3>8. Single(T, a, k)
      BY <3>1, <3>3, <3>4 DEF Shifted
    <3>9. Block(T2, a-1, k) = Block(T, a, k) /\ Single(T2, a-1, k)
      BY <3>5, <3>6, <3>8, TurnForward
    <3> QED
      BY <3>1, <3>2, <3>3, <3>4, <3>7, <3>9
  <2>8. ASSUME NEW j \in Depth, j # b
        PROVE  Apart(p, first(m, j), c[j])
    <3> USE DEF Apart
    <3>1. p = first(s, b) - 1
      BY <1>3, <2>3
    <3>2. CASE c[j] = 0
      <4>1. PICK x \in Nat : x = first(m, j)
        BY <1>4
      <4>2. p \in Int
        BY <2>6, Constants4
      <4>3. p < x \/ p >= x + 0
        BY <4>1, <4>2
      <4> QED
        BY <3>2, <4>1, <4>3
    <3>3. CASE c[j] # 0 /\ j < b /\ j > d
      <4>1. j \in D
        BY <3>3, Constants4 DEF Depth
      <4>2. used(s, j) = c[j] /\ used(s, j) > 0
        BY <1>0, <1>5, <3>3, Constants4
      <4>3. first(m, j) = first(s, j) + e
        BY <4>1, <4>2 DEF Shifted
      <4>4. end(s, j) <= first(s, b) /\ end(s, j) <= max_rules
        BY <2>1, <3>3, <4>2 DEF Laid
      <4> QED
        <5>1. PICK x \in Nat : x = first(s, j)
          BY <1>5
        <5>2. PICK y \in Nat : y = c[j]
          BY <1>0
        <5>3. PICK z \in Nat : z = first(s, b)
          BY <1>5
        <5>4. end(s, j) = x + y /\ first(m, j) = x + e /\ p = z - 1
          BY <1>5, <3>1, <4>2, <4>3, <5>1, <5>2, <5>3
        <5>5. x + y <= z /\ x + y <= max_rules
          BY <4>4, <5>3, <5>4
        <5>6. p >= x + e + y /\ x + e + y <= max_rules
          BY <5>4, <5>5, Constants4
        <5> QED
          BY <5>2, <5>4, <5>6
    <3>4. CASE c[j] # 0 /\ (j <= d \/ j > b)
      <4>1. j \notin D
        BY <3>4, Constants4 DEF Depth
      <4>2. first(m, j) = first(s, j)
        BY <4>1 DEF Shifted
      <4>3. used(s, j) > 0 /\ c[j] <= used(s, j) /\ (j = d => c[j] = used(s, j) - 1)
        BY <1>0, <1>5, <3>4
      <4>4. end(s, j) <= max_rules
        BY <4>3 DEF Laid
      <4>5. CASE j = d
        BY <1>5, <2>0, <3>1, <4>2, <4>3, <4>4, <4>5, Constants4
      <4>6. CASE j < d
        <5>1. end(s, j) <= first(s, d)
          BY <4>3, <4>6 DEF Laid
        <5> QED
          <6>1. PICK x \in Nat : x = first(s, j)
            BY <1>5
          <6>2. PICK y \in Nat : y = c[j]
            BY <1>0
          <6>3. PICK z \in Nat : z = first(s, b)
            BY <1>5
          <6>4. y = used(s, j)
            BY <1>0, <4>6, <6>2, Constants4
          <6>5. end(s, j) = x + y
            BY <1>5, <6>1, <6>4
          <6>6. x + y < z
            BY <1>5, <2>0, <5>1, <6>3, <6>5
          <6>7. p = z - 1 /\ first(m, j) = x /\ x + y <= max_rules
            BY <3>1, <4>2, <4>4, <6>1, <6>3, <6>5
          <6>8. Apart(p, x, y)
            BY <6>6, <6>7
          <6> QED
            BY <6>2, <6>7, <6>8
      <4>7. CASE j > b
        <5>1. end(s, b) <= first(s, j)
          BY <2>1, <4>3, <4>7 DEF Laid
        <5> QED
          <6>1. PICK x \in Nat : x = first(s, j)
            BY <1>5
          <6>2. PICK y \in Nat : y = c[j]
            BY <1>0
          <6>3. PICK z \in Nat : z = first(s, b)
            BY <1>5
          <6>4. y = used(s, j)
            BY <1>0, <4>7, <6>2, Constants4
          <6>5. end(s, j) = x + y
            BY <1>5, <6>1, <6>4
          <6>6. z < x
            BY <1>5, <2>1, <5>1, <6>1, <6>3
          <6>7. p = z - 1 /\ first(m, j) = x /\ x + y <= max_rules
            BY <3>1, <4>2, <4>4, <6>1, <6>3, <6>5
          <6>8. Apart(p, x, y)
            BY <6>6, <6>7
          <6> QED
            BY <6>2, <6>7, <6>8
      <4> QED
        BY <3>4, <4>5, <4>6, <4>7, Constants4
    <3> QED
      BY <1>0, <2>8, <3>2, <3>3, <3>4, Constants4
  <2>9. Shifted(s, n, c, D2, e)
    <3>1. PICK f : f = first(m, b) + e
      OBVIOUS
    <3>2. f = first(m, b) - 1
      BY <1>4, <3>1
    <3>3. Wrote(m, n, p, v, b, f) /\ e \in Int
      BY <2>5, <3>2
    <3> QED
      BY <1>0, <1>1, <2>1, <2>6, <2>7, <2>8, <3>1, <3>3, ShiftOne
  <2> QED
    BY <2>2, <2>9
<1> QED
  BY <1>6, <1>7

-----------------------------------------------------------------------------
(* The loops over the longer groups.                                       *)

\* Every nonempty set of naturals has a least element.
LEMMA LeastNumber ==
  ASSUME NEW T, T \subseteq Nat, T # {}
  PROVE  \E x \in T : \A y \in T : x <= y
<1> DEFINE R == OpToRel(<, Nat)
<1>1. IsWellFoundedOn(R, Nat)
  BY NatLessThanWellFounded
<1> HIDE DEF R
<1>2. PICK x \in T : \A y \in T : ~(<<y, x>> \in R)
  BY <1>1, WFMin
<1>3. \A y \in T : ~(y < x)
  BY <1>2 DEF R, OpToRel
<1> QED
  BY <1>3

\* What step n of a loop does to the state g[n-1] before it.
Step(r, d, back, g, n) ==
  IF n = 0 THEN r
  ELSE IF back = 1 THEN move_back(g[n-1], RTE_LPM_MAX_DEPTH + 1 - n)
  ELSE move_forward(g[n-1], d + n)

IsLoop(g, r, d, back, m) == g = [n \in 0..m |-> Step(r, d, back, g, n)]

\* The recursive functions of the loops exist.
LEMMA LoopExists ==
  ASSUME NEW r, NEW d, NEW back, NEW m \in Nat
  PROVE  \E g : IsLoop(g, r, d, back, m)
<1> USE DEF IsLoop
<1> DEFINE S == {k \in Nat : ~\E g : g = [n \in 0..k |-> Step(r, d, back, g, n)]}
<1> SUFFICES ASSUME S # {} PROVE FALSE
  OBVIOUS
<1>1. PICK k \in S : \A y \in S : k <= y
  BY LeastNumber
<1>2. k \in Nat /\ ~\E g : g = [n \in 0..k |-> Step(r, d, back, g, n)]
  BY <1>1
<1>3. CASE k = 0
  <2> DEFINE h == [n \in 0..0 |-> r]
  <2>1. h = [n \in 0..k |-> Step(r, d, back, h, n)]
    BY <1>3 DEF Step
  <2> QED
    BY <1>2, <2>1
<1>4. CASE k # 0
  <2>1. k - 1 \in Nat /\ k - 1 \notin S
    BY <1>1, <1>2, <1>4
  <2>2. PICK g : g = [n \in 0 .. k-1 |-> Step(r, d, back, g, n)]
    BY <2>1
  <2> DEFINE h == [n \in 0..k |-> IF n = k THEN Step(r, d, back, g, k) ELSE g[n]]
  <2>3. ASSUME NEW n \in 0..k
        PROVE  h[n] = Step(r, d, back, h, n)
    <3>1. n # 0 => n-1 \in 0 .. k-1 /\ h[n-1] = g[n-1]
      BY <1>2
    <3>2. Step(r, d, back, h, n) = Step(r, d, back, g, n)
      BY <3>1 DEF Step
    <3>3. n # k => n \in 0 .. k-1 /\ g[n] = Step(r, d, back, g, n)
      BY <1>2, <2>2
    <3> QED
      BY <3>2, <3>3
  <2>4. h = [n \in 0..k |-> Step(r, d, back, h, n)]
    BY <2>3
  <2> QED
    BY <1>2, <2>4
<1> QED
  BY <1>3, <1>4

LEMMA MakeRoomIs ==
  ASSUME NEW r, NEW d \in Depth
  PROVE  LET u == make_room(r, d)
         IN  /\ u[0] = r
             /\ \A n \in 1 .. RTE_LPM_MAX_DEPTH - d : u[n] = move_back(u[n-1], RTE_LPM_MAX_DEPTH + 1 - n)
<1>0. RTE_LPM_MAX_DEPTH - d \in Nat
  BY Constants4 DEF Depth
<1> DEFINE N == RTE_LPM_MAX_DEPTH - d
           body(g, n) == IF n = 0 THEN r ELSE move_back(g[n-1], RTE_LPM_MAX_DEPTH + 1 - n)
           u == CHOOSE g : g = [n \in 0..N |-> body(g, n)]
<1>1. make_room(r, d) = u
  BY DEF make_room
<1>2. PICK g : IsLoop(g, r, d, 1, N)
  BY <1>0, LoopExists
<1>3. \A n \in 0..N : Step(r, d, 1, g, n) = body(g, n)
  BY DEF Step
<1>4. [n \in 0..N |-> Step(r, d, 1, g, n)] = [n \in 0..N |-> body(g, n)]
  BY <1>3
<1>5. \E h : h = [n \in 0..N |-> body(h, n)]
  BY <1>2, <1>4 DEF IsLoop
<1>6. u = [n \in 0..N |-> body(u, n)]
  BY <1>5
<1> HIDE DEF u
<1>7. \A n \in 0..N : u[n] = body(u, n)
  BY <1>6
<1>8. u[0] = r
  BY <1>0, <1>7
<1>9. ASSUME NEW n \in 1..N
      PROVE  u[n] = move_back(u[n-1], RTE_LPM_MAX_DEPTH + 1 - n)
  <2>1. n \in 0..N /\ n # 0
    BY <1>0
  <2> QED
    BY <1>7, <2>1
<1> QED
  BY <1>1, <1>8, <1>9

LEMMA CloseGapIs ==
  ASSUME NEW r, NEW d \in Depth
  PROVE  LET u == close_gap(r, d)
         IN  /\ u[0] = r
             /\ \A n \in 1 .. RTE_LPM_MAX_DEPTH - d : u[n] = move_forward(u[n-1], d + n)
<1>0. RTE_LPM_MAX_DEPTH - d \in Nat
  BY Constants4 DEF Depth
<1> DEFINE N == RTE_LPM_MAX_DEPTH - d
           body(g, n) == IF n = 0 THEN r ELSE move_forward(g[n-1], d + n)
           u == CHOOSE g : g = [n \in 0..N |-> body(g, n)]
<1>1. close_gap(r, d) = u
  BY DEF close_gap
<1>2. PICK g : IsLoop(g, r, d, 0, N)
  BY <1>0, LoopExists
<1>3. \A n \in 0..N : Step(r, d, 0, g, n) = body(g, n)
  BY DEF Step
<1>4. [n \in 0..N |-> Step(r, d, 0, g, n)] = [n \in 0..N |-> body(g, n)]
  BY <1>3
<1>5. \E h : h = [n \in 0..N |-> body(h, n)]
  BY <1>2, <1>4 DEF IsLoop
<1>6. u = [n \in 0..N |-> body(u, n)]
  BY <1>5
<1> HIDE DEF u
<1>7. \A n \in 0..N : u[n] = body(u, n)
  BY <1>6
<1>8. u[0] = r
  BY <1>0, <1>7
<1>9. ASSUME NEW n \in 1..N
      PROVE  u[n] = move_forward(u[n-1], d + n)
  <2>1. n \in 0..N /\ n # 0
    BY <1>0
  <2> QED
    BY <1>7, <2>1
<1> QED
  BY <1>1, <1>8, <1>9

\* After make_room each longer group has moved one place back.
LEMMA RoomMade ==
  ASSUME NEW s \in RuleTable, Laid(s), NEW d \in Depth, NEW c, CountAll(s, c), RoomBehind(s, d),
         \A i \in Depth : Single(s.rules_tbl, first(s, i), c[i])
  PROVE  Shifted(s, make_room(s, d)[RTE_LPM_MAX_DEPTH - d], c, d+1 .. RTE_LPM_MAX_DEPTH, 1)
<1>0. RTE_LPM_MAX_DEPTH - d \in Nat /\ RTE_LPM_MAX_DEPTH \in Nat /\ d \in Nat \ {0}
  BY Constants4 DEF Depth
<1>1. PICK N \in Nat : N = RTE_LPM_MAX_DEPTH - d
  BY <1>0
<1>2. PICK u : /\ u = make_room(s, d) /\ u[0] = s
               /\ \A n \in 1..N : u[n] = move_back(u[n-1], RTE_LPM_MAX_DEPTH + 1 - n)
  BY <1>1, MakeRoomIs
<1> DEFINE P(n) == Shifted(s, u[n], c, RTE_LPM_MAX_DEPTH + 1 - n .. RTE_LPM_MAX_DEPTH, 1)
<1>3. P(0)
  <2>1. PICK D : D = RTE_LPM_MAX_DEPTH + 1 - 0 .. RTE_LPM_MAX_DEPTH
    OBVIOUS
  <2>2. \A i \in Depth : i \notin D
    BY <1>0, <2>1
  <2> QED
    BY <1>2, <2>1, <2>2, ShiftNone
<1>4. ASSUME NEW n \in 1..N, P(n-1)
      PROVE  P(n)
  <2>1. PICK b : b = RTE_LPM_MAX_DEPTH + 1 - n
    OBVIOUS
  <2>2. b \in Depth /\ b > d /\ b + 1 = RTE_LPM_MAX_DEPTH + 1 - (n-1)
    BY <1>0, <1>1, <2>1 DEF Depth
  <2>3. PICK m : m = u[n-1]
    OBVIOUS
  <2>4. PICK D : D = b+1 .. RTE_LPM_MAX_DEPTH
    OBVIOUS
  <2>5. PICK D2 : D2 = b .. RTE_LPM_MAX_DEPTH
    OBVIOUS
  <2>6. Shifted(s, m, c, D, 1)
    BY <1>4, <2>2, <2>3, <2>4
  <2>7. Shifted(s, move_back(m, b), c, D2, 1)
    BY <2>2, <2>4, <2>5, <2>6, BackStep
  <2> QED
    BY <1>2, <2>1, <2>3, <2>5, <2>7
<1> HIDE DEF P
<1>5. P(N)
  <2> DEFINE S == {n \in 0..N : ~P(n)}
  <2> SUFFICES ASSUME S # {} PROVE FALSE
    OBVIOUS
  <2>1. PICK n \in S : \A y \in S : n <= y
    <3>1. S \subseteq Nat
      OBVIOUS
    <3> QED
      BY <3>1, LeastNumber
  <2>2. n # 0
    BY <1>3, <2>1
  <2>3. n-1 \in 0..N /\ n-1 \notin S /\ n \in 1..N
    BY <2>1, <2>2
  <2> QED
    BY <1>4, <2>1, <2>3
<1>6. RTE_LPM_MAX_DEPTH + 1 - N = d + 1
  BY <1>0, <1>1
<1> QED
  BY <1>1, <1>2, <1>5, <1>6 DEF P

\* After close_gap each has moved one place forward.
LEMMA GapClosed ==
  ASSUME NEW s \in RuleTable, Laid(s), NEW d \in Depth, used(s, d) > 0, NEW c, CountLess(s, d, c),
         \A i \in Depth : Single(s.rules_tbl, first(s, i), c[i])
  PROVE  Shifted(s, close_gap(s, d)[RTE_LPM_MAX_DEPTH - d], c, d+1 .. RTE_LPM_MAX_DEPTH, -1)
<1>0. RTE_LPM_MAX_DEPTH - d \in Nat /\ RTE_LPM_MAX_DEPTH \in Nat /\ d \in Nat \ {0}
  BY Constants4 DEF Depth
<1>1. PICK N \in Nat : N = RTE_LPM_MAX_DEPTH - d
  BY <1>0
<1>2. PICK u : /\ u = close_gap(s, d) /\ u[0] = s
               /\ \A n \in 1..N : u[n] = move_forward(u[n-1], d + n)
  BY <1>1, CloseGapIs
<1>e. PICK e : e = -1
  OBVIOUS
<1> DEFINE P(n) == Shifted(s, u[n], c, d+1 .. d+n, e)
<1>3. P(0)
  <2>1. PICK D : D = d+1 .. d+0
    OBVIOUS
  <2>2. \A i \in Depth : i \notin D
    BY <1>0, <2>1
  <2> QED
    BY <1>2, <2>1, <2>2, ShiftNone
<1>4. ASSUME NEW n \in 1..N, P(n-1)
      PROVE  P(n)
  <2>1. PICK b : b = d + n
    OBVIOUS
  <2>2. b \in Depth /\ b > d /\ b - 1 = d + (n-1)
    BY <1>0, <1>1, <2>1 DEF Depth
  <2>3. PICK m : m = u[n-1]
    OBVIOUS
  <2>4. PICK D : D = d+1 .. b-1
    OBVIOUS
  <2>5. PICK D2 : D2 = d+1 .. b
    OBVIOUS
  <2>6. Shifted(s, m, c, D, e)
    BY <1>4, <2>2, <2>3, <2>4
  <2>7. Shifted(s, move_forward(m, b), c, D2, e)
    BY <1>e, <2>2, <2>4, <2>5, <2>6, ForwardStep
  <2> QED
    BY <1>2, <2>1, <2>3, <2>5, <2>7
<1> HIDE DEF P
<1>5. P(N)
  <2> DEFINE S == {n \in 0..N : ~P(n)}
  <2> SUFFICES ASSUME S # {} PROVE FALSE
    OBVIOUS
  <2>1. PICK n \in S : \A y \in S : n <= y
    <3>1. S \subseteq Nat
      OBVIOUS
    <3> QED
      BY <3>1, LeastNumber
  <2>2. n # 0
    BY <1>3, <2>1
  <2>3. n-1 \in 0..N /\ n-1 \notin S /\ n \in 1..N
    BY <2>1, <2>2
  <2> QED
    BY <1>4, <2>1, <2>3
<1>6. d + N = RTE_LPM_MAX_DEPTH
  BY <1>0, <1>1
<1> QED
  BY <1>e, <1>1, <1>2, <1>5, <1>6 DEF P

-----------------------------------------------------------------------------
(* The record updates of rule_add and rule_delete.                         *)

Infos == [Depth -> [used_rules : Nat, first_rule : Nat]]

Made(m, T, I) == m = [rules_tbl |-> T, rule_info |-> I]

LEMMA MadeOf ==
  ASSUME NEW T \in [Pos -> Rule], NEW I \in Infos, NEW m, Made(m, T, I)
  PROVE  m \in RuleTable /\ m.rules_tbl = T /\ m.rule_info = I
<1>1. m.rules_tbl = T /\ m.rule_info = I
  BY FieldsAre DEF Made
<1>2. m \in RuleTable
  BY DEF RuleTable, Infos, Made
<1> QED
  BY <1>1, <1>2

LEMMA PartsOf ==
  ASSUME NEW r \in RuleTable
  PROVE  r.rules_tbl \in [Pos -> Rule] /\ r.rule_info \in Infos
BY DEF RuleTable, Infos

RuleSet(r, m, k, v) == m = [r EXCEPT !.rules_tbl[k] = v]

LEMMA SetRule ==
  ASSUME NEW r \in RuleTable, NEW k \in Pos, NEW v \in Rule, NEW m, RuleSet(r, m, k, v)
  PROVE  /\ m \in RuleTable /\ Put(r.rules_tbl, m.rules_tbl, k, v)
         /\ \A i \in Depth : first(m, i) = first(r, i) /\ used(m, i) = used(r, i)
<1>1. PICK T : T = [r.rules_tbl EXCEPT ![k] = v]
  OBVIOUS
<1>2. PICK I : I = r.rule_info
  OBVIOUS
<1>3. T \in [Pos -> Rule] /\ I \in Infos
  BY <1>1, <1>2, PartsOf
<1>4. Made(m, T, I)
  BY <1>1, <1>2 DEF RuleTable, Made, RuleSet
<1>4e. PICK e : e = m
  OBVIOUS
<1>4f. Made(e, T, I)
  BY <1>4, <1>4e
<1>5. e \in RuleTable /\ e.rules_tbl = T /\ e.rule_info = I
  BY <1>3, <1>4f, MadeOf
<1> QED
  BY <1>1, <1>2, <1>4e, <1>5 DEF Put, first, used

HopSet(r, m, k, h) == m = [r EXCEPT !.rules_tbl[k].next_hop = h]

LEMMA SetHop ==
  ASSUME NEW r \in RuleTable, NEW k \in Pos, NEW h \in 0 .. GINDEX-1,
         NEW m, HopSet(r, m, k, h), NEW ip, ip = r.rules_tbl[k].ip, NEW v, v = [ip |-> ip, next_hop |-> h]
  PROVE  /\ v \in Rule
         /\ m \in RuleTable /\ Put(r.rules_tbl, m.rules_tbl, k, v)
         /\ \A i \in Depth : first(m, i) = first(r, i) /\ used(m, i) = used(r, i)
<1>0. r.rules_tbl \in [Pos -> Rule] /\ r.rules_tbl[k] \in Rule
  BY PartsOf
<1>1. v \in Rule
  BY <1>0 DEF Rule
<1>2. [r.rules_tbl[k] EXCEPT !.next_hop = h] = v
  BY <1>0 DEF Rule
<1>3. PICK T : T = [r.rules_tbl EXCEPT ![k] = v]
  OBVIOUS
<1>4. PICK I : I = r.rule_info
  OBVIOUS
<1>5. T \in [Pos -> Rule] /\ I \in Infos
  BY <1>1, <1>3, <1>4, PartsOf
<1>6. Made(m, T, I)
  BY <1>2, <1>3, <1>4 DEF RuleTable, Made, HopSet
<1>6e. PICK e : e = m
  OBVIOUS
<1>6f. Made(e, T, I)
  BY <1>6, <1>6e
<1>7. e \in RuleTable /\ e.rules_tbl = T /\ e.rule_info = I
  BY <1>5, <1>6f, MadeOf
<1> QED
  BY <1>1, <1>3, <1>4, <1>6e, <1>7 DEF Put, first, used

FirstSet(r, m, d, f) == m = [r EXCEPT !.rule_info[d].first_rule = f]

LEMMA SetFirst ==
  ASSUME NEW r \in RuleTable, NEW d \in Depth, NEW f \in Nat,
         NEW m, FirstSet(r, m, d, f)
  PROVE  /\ m \in RuleTable /\ m.rules_tbl = r.rules_tbl
         /\ \A i \in Depth : /\ used(m, i) = used(r, i)
                             /\ first(m, i) = IF i = d THEN f ELSE first(r, i)
<1>1. PICK T : T = r.rules_tbl
  OBVIOUS
<1>2. PICK I : I = [r.rule_info EXCEPT ![d].first_rule = f]
  OBVIOUS
<1>3. T \in [Pos -> Rule] /\ I \in Infos
  BY <1>1, <1>2, PartsOf DEF Infos
<1>4. Made(m, T, I)
  BY <1>1, <1>2 DEF RuleTable, Made, FirstSet
<1>4e. PICK e : e = m
  OBVIOUS
<1>4f. Made(e, T, I)
  BY <1>4, <1>4e
<1>5. e \in RuleTable /\ e.rules_tbl = T /\ e.rule_info = I
  BY <1>3, <1>4f, MadeOf
<1>6. \A i \in Depth : /\ I[i].used_rules = r.rule_info[i].used_rules
                       /\ I[i].first_rule = IF i = d THEN f ELSE r.rule_info[i].first_rule
  BY <1>2, PartsOf DEF Infos
<1> QED
  BY <1>1, <1>4e, <1>5, <1>6 DEF first, used

UsedSet(r, m, d, n) == m = [r EXCEPT !.rule_info[d].used_rules = n]

LEMMA SetUsed ==
  ASSUME NEW r \in RuleTable, NEW d \in Depth, NEW n \in Nat,
         NEW m, UsedSet(r, m, d, n)
  PROVE  /\ m \in RuleTable /\ m.rules_tbl = r.rules_tbl
         /\ \A i \in Depth : /\ first(m, i) = first(r, i)
                             /\ used(m, i) = IF i = d THEN n ELSE used(r, i)
<1>1. PICK T : T = r.rules_tbl
  OBVIOUS
<1>2. PICK I : I = [r.rule_info EXCEPT ![d].used_rules = n]
  OBVIOUS
<1>3. T \in [Pos -> Rule] /\ I \in Infos
  BY <1>1, <1>2, PartsOf DEF Infos
<1>4. Made(m, T, I)
  BY <1>1, <1>2 DEF RuleTable, Made, UsedSet
<1>4e. PICK e : e = m
  OBVIOUS
<1>4f. Made(e, T, I)
  BY <1>4, <1>4e
<1>5. e \in RuleTable /\ e.rules_tbl = T /\ e.rule_info = I
  BY <1>3, <1>4f, MadeOf
<1>6. \A i \in Depth : /\ I[i].first_rule = r.rule_info[i].first_rule
                       /\ I[i].used_rules = IF i = d THEN n ELSE r.rule_info[i].used_rules
  BY <1>2, PartsOf DEF Infos
<1> QED
  BY <1>1, <1>4e, <1>5, <1>6 DEF first, used

LastSet(r, m, k, v, d, n) == m = [r EXCEPT !.rules_tbl[k] = v, !.rule_info[d].used_rules = n]

LEMMA SetLast ==
  ASSUME NEW r \in RuleTable, NEW k \in Pos, NEW v \in Rule, NEW d \in Depth, NEW n \in Nat,
         NEW m, LastSet(r, m, k, v, d, n)
  PROVE  /\ m \in RuleTable /\ Put(r.rules_tbl, m.rules_tbl, k, v)
         /\ \A i \in Depth : /\ first(m, i) = first(r, i)
                             /\ used(m, i) = IF i = d THEN n ELSE used(r, i)
<1>1. PICK T : T = [r.rules_tbl EXCEPT ![k] = v]
  OBVIOUS
<1>2. PICK I : I = [r.rule_info EXCEPT ![d].used_rules = n]
  OBVIOUS
<1>3. T \in [Pos -> Rule] /\ I \in Infos
  BY <1>1, <1>2, PartsOf DEF Infos
<1>4. Made(m, T, I)
  BY <1>1, <1>2 DEF RuleTable, Made, LastSet
<1>4e. PICK e : e = m
  OBVIOUS
<1>4f. Made(e, T, I)
  BY <1>4, <1>4e
<1>5. e \in RuleTable /\ e.rules_tbl = T /\ e.rule_info = I
  BY <1>3, <1>4f, MadeOf
<1>6. \A i \in Depth : /\ I[i].first_rule = r.rule_info[i].first_rule
                       /\ I[i].used_rules = IF i = d THEN n ELSE r.rule_info[i].used_rules
  BY <1>2, PartsOf DEF Infos
<1> QED
  BY <1>1, <1>4e, <1>5, <1>6 DEF Put, first, used

-----------------------------------------------------------------------------
(* What the functions on the rule table do to the rules.                   *)

\* The rule for an address replaced ...
LEMMA BlockUpdate ==
  ASSUME NEW T \in [Pos -> Rule], NEW a \in Nat, NEW n \in Nat, a + n <= max_rules,
         NEW k \in a .. a+n-1, NEW v \in Rule, v.ip = T[k].ip, Single(T, a, n),
         NEW T2, Put(T, T2, k, v)
  PROVE  /\ T2 \in [Pos -> Rule]
         /\ Block(T2, a, n) = {q \in Block(T, a, n) : q.ip # v.ip} \union {v}
         /\ Single(T2, a, n)
<1>1. \A l \in a .. a+n-1 : l \in Pos
  BY Constants4 DEF Pos
<1>2. k \in Pos
  BY <1>1
<1>3. T2 \in [Pos -> Rule] /\ T2[k] = v
  BY <1>2 DEF Put
<1>4. \A l \in a .. a+n-1 : l # k => T2[l] = T[l]
  BY <1>1, <1>2 DEF Put
<1>5. \A l \in a .. a+n-1 : l # k => T[l].ip # v.ip
  BY DEF Single
<1>6. \A q : q \in Block(T2, a, n) <=> q \in {p \in Block(T, a, n) : p.ip # v.ip} \union {v}
  BY <1>3, <1>4, <1>5 DEF Block
<1>7. Single(T2, a, n)
  BY <1>3, <1>4, <1>5 DEF Single
<1> QED
  BY <1>3, <1>6, <1>7

Last(T, a, n, v, l) == v = T[a+n-1] /\ l = n-1
Without(B, ip) == {q \in B : q.ip # ip}

\* ... or deleted, its place taken by the last one.
LEMMA BlockDelete ==
  ASSUME NEW T \in [Pos -> Rule], NEW a \in Nat, NEW n \in Nat \ {0}, a + n <= max_rules,
         NEW k \in a .. a+n-1, Single(T, a, n), NEW v, NEW l, Last(T, a, n, v, l),
         NEW T2, Put(T, T2, k, v)
  PROVE  /\ T2 \in [Pos -> Rule]
         /\ Block(T2, a, l) = Without(Block(T, a, n), T[k].ip)
         /\ Single(T2, a, l)
<1> USE DEF Last, Without
<1>0. PICK z : z = a+n-1
  OBVIOUS
<1>0a. PICK ip : ip = T[k].ip
  OBVIOUS
<1>1. \A i \in a .. a+n-1 : i \in Pos
  BY Constants4 DEF Pos
<1>2. k \in Pos /\ a+n-1 \in a .. a+n-1
  BY <1>1
<1>3. T2 \in [Pos -> Rule] /\ T2[k] = v
  BY <1>1, <1>2 DEF Put
<1>4. \A i \in a .. a+n-1 : i # k => T2[i] = T[i]
  BY <1>1, <1>2 DEF Put
<1>5. \A i, j \in a .. a+n-1 : i # j => T[i].ip # T[j].ip
  BY DEF Single
<1>6. \A j : j \in a .. a+l-1 <=> j \in a .. a+n-1 /\ j # a+n-1
  OBVIOUS
<1>8. PICK G : G = a .. a+n-1
  OBVIOUS
<1>9. PICK H : H = a .. a+l-1
  OBVIOUS
<1>10. /\ \A i : i \in H <=> i \in G /\ i # z
       /\ \A i \in G : i # k => T2[i] = T[i]
       /\ \A i, j \in G : i # j => T[i].ip # T[j].ip
       /\ T2[k] = T[z] /\ k \in G /\ z \in G
  BY <1>0, <1>2, <1>3, <1>4, <1>5, <1>6, <1>8, <1>9
<1>11. \A q : q \in {T2[i] : i \in H} <=> q \in {p \in {T[i] : i \in G} : p.ip # ip}
  <2> TAKE q
  <2>1. ASSUME q \in {T2[i] : i \in H}
        PROVE  q \in {p \in {T[i] : i \in G} : p.ip # ip}
    <3>1. PICK i \in H : q = T2[i]
      BY <2>1
    <3>2. CASE i = k
      BY <1>0a, <1>10, <3>1, <3>2
    <3>3. CASE i # k
      BY <1>0a, <1>10, <3>1, <3>3
    <3> QED
      BY <3>2, <3>3
  <2>2. ASSUME q \in {p \in {T[i] : i \in G} : p.ip # ip}
        PROVE  q \in {T2[i] : i \in H}
    <3>1. PICK i \in G : q = T[i] /\ q.ip # ip
      BY <2>2
    <3>2. CASE i = z
      BY <1>0a, <1>10, <3>1, <3>2
    <3>3. CASE i # z
      BY <1>0a, <1>10, <3>1, <3>3
    <3> QED
      BY <3>2, <3>3
  <2> QED
    BY <2>1, <2>2
<1>12. Block(T2, a, l) = Without(Block(T, a, n), T[k].ip)
  BY <1>0a, <1>8, <1>9, <1>11 DEF Block
<1>13. \A i, j \in H : T2[i].ip = T2[j].ip => i = j
  BY <1>10
<1>14. Single(T2, a, l)
  BY <1>9, <1>13 DEF Single
<1> QED
  BY <1>3, <1>12, <1>14

Rules(r, d) == Block(r.rules_tbl, first(r, d), used(r, d))

Sound(r) ==
  /\ r \in RuleTable
  /\ Laid(r)
  /\ \A d \in Depth : Single(r.rules_tbl, first(r, d), used(r, d))

LEMMA FindIs ==
  ASSUME NEW r \in RuleTable, NEW ip, NEW d \in Depth, NEW k, k = rule_find(r, ip, d)
  PROVE  /\ k \in Int
         /\ k >= 0 => k \in first(r, d) .. first(r, d) + used(r, d) - 1 /\ r.rules_tbl[k].ip = ip
         /\ ~(k >= 0) => \A q \in Rules(r, d) : q.ip # ip
<1>0. first(r, d) \in Nat /\ used(r, d) \in Nat /\ end(r, d) = first(r, d) + used(r, d)
  BY TableIs
<1> DEFINE G == first(r, d) .. first(r, d) + used(r, d) - 1
           ks == {j \in G : r.rules_tbl[j].ip = ip}
<1>1. k = IF ks = {} THEN -1 ELSE Min(ks)
  <2> DEFINE js == {j \in r.rule_info[d].first_rule .. end(r, d) - 1 : r.rules_tbl[j].ip = ip}
  <2>1. k = IF js = {} THEN -1 ELSE Min(js)
    BY DEF rule_find
  <2>2. js = ks
    BY <1>0 DEF first
  <2> QED
    BY <2>1, <2>2
<1>2. ks \subseteq Nat
  BY <1>0
<1>3. CASE ks = {}
  <2>1. \A q \in Rules(r, d) : q.ip # ip
    BY <1>3 DEF Rules, Block
  <2> QED
    BY <1>1, <1>3, <2>1
<1>4. CASE ks # {}
  <2>1. \E x \in ks : \A y \in ks : x <= y
    <3> HIDE DEF ks
    <3> QED
      BY <1>2, <1>4, LeastNumber
  <2>2. Min(ks) \in ks
    <3> HIDE DEF ks
    <3> QED
      BY <2>1 DEF Min
  <2>3. k \in ks
    BY <1>1, <1>4, <2>2
  <2> QED
    BY <1>2, <2>3
<1> QED
  BY <1>3, <1>4

\* A place of one group is outside the others.
LEMMA OtherGroups ==
  ASSUME NEW r \in RuleTable, Laid(r), NEW d \in Depth, used(r, d) > 0,
         NEW k \in first(r, d) .. first(r, d) + used(r, d) - 1, NEW e \in Depth, e # d
  PROVE  Apart(k, first(r, e), used(r, e))
<1>1. PICK a \in Nat : a = first(r, d)
  BY TableIs
<1>2. PICK n \in Nat : n = used(r, d)
  BY TableIs
<1>3. PICK b \in Nat : b = first(r, e)
  BY TableIs
<1>4. PICK m \in Nat : m = used(r, e)
  BY TableIs
<1>5. end(r, d) = a + n /\ end(r, e) = b + m
  BY <1>1, <1>2, <1>3, <1>4, TableIs
<1>6. m > 0 => b + m <= max_rules
  BY <1>4, <1>5 DEF Laid
<1>7. m > 0 => b + m <= a \/ a + n <= b
  <2>1. d < e \/ e < d
    BY Constants4
  <2> QED
    BY <2>1, <1>1, <1>2, <1>3, <1>4, <1>5 DEF Laid
<1>8. k \in a .. a+n-1
  BY <1>1, <1>2
<1> QED
  BY <1>3, <1>4, <1>6, <1>7, <1>8 DEF Apart

LEMMA GroupIn ==
  ASSUME NEW r \in RuleTable, Laid(r), NEW d \in Depth, used(r, d) > 0
  PROVE  first(r, d) + used(r, d) <= max_rules
BY TableIs DEF Laid

\* The rules other than those of depth d after a write into group d.
LEMMA OthersKept ==
  ASSUME NEW r, Sound(r), NEW d \in Depth, used(r, d) > 0,
         NEW k \in first(r, d) .. first(r, d) + used(r, d) - 1, k \in Pos, NEW v \in Rule,
         NEW m \in RuleTable, Put(r.rules_tbl, m.rules_tbl, k, v),
         NEW e \in Depth, e # d, first(m, e) = first(r, e)
  PROVE  /\ Block(m.rules_tbl, first(m, e), used(r, e)) = Block(r.rules_tbl, first(r, e), used(r, e))
         /\ Single(m.rules_tbl, first(m, e), used(r, e))
<1>1. r \in RuleTable /\ Laid(r) /\ Single(r.rules_tbl, first(r, e), used(r, e))
  BY DEF Sound
<1>2. PICK T : T = r.rules_tbl
  OBVIOUS
<1>3. PICK T2 : T2 = m.rules_tbl
  OBVIOUS
<1>4. PICK a \in Nat : a = first(r, e)
  BY <1>1, TableIs
<1>5. PICK n \in Nat : n = used(r, e)
  BY <1>1, TableIs
<1>6. Apart(k, a, n)
  BY <1>1, <1>4, <1>5, OtherGroups
<1>7. T \in [Pos -> Rule] /\ Put(T, T2, k, v)
  BY <1>1, <1>2, <1>3, TableIs
<1>8. Block(T2, a, n) = Block(T, a, n) /\ (Single(T, a, n) => Single(T2, a, n))
  BY <1>6, <1>7, WriteOutside
<1> QED
  BY <1>1, <1>2, <1>3, <1>4, <1>5, <1>8

\* The rules of depth d have become B, the others are as they were.
Changed(r, n, d, B) ==
  /\ Sound(n)
  /\ Rules(n, d) = B
  /\ \A e \in Depth : e # d => Rules(n, e) = Rules(r, e)

\* rule_add, the rule found: its next hop is set.
LEMMA RuleUpdated ==
  ASSUME NEW r, Sound(r), NEW d \in Depth, NEW h \in 0 .. GINDEX-1, NEW ip \in Nat,
         NEW k \in first(r, d) .. first(r, d) + used(r, d) - 1, r.rules_tbl[k].ip = ip,
         NEW m, HopSet(r, m, k, h),
         NEW v, v = [ip |-> ip, next_hop |-> h]
  PROVE  Changed(r, m, d, {q \in Rules(r, d) : q.ip # ip} \union {v})
<1>1. /\ r \in RuleTable /\ Laid(r) /\ r.rules_tbl \in [Pos -> Rule]
      /\ \A e \in Depth : first(r, e) \in Nat /\ used(r, e) \in Nat /\ end(r, e) = first(r, e) + used(r, e)
  BY TableIs DEF Sound
<1>2. used(r, d) > 0
  BY <1>1
<1>3. first(r, d) + used(r, d) <= max_rules
  BY <1>1, <1>2, GroupIn
<1>4. k \in Pos
  BY <1>1, <1>3, Constants4 DEF Pos
<1>5. PICK w : w = v
  OBVIOUS
<1>6. PICK n : n = m
  OBVIOUS
<1>7. /\ w \in Rule /\ n \in RuleTable /\ Put(r.rules_tbl, n.rules_tbl, k, w)
      /\ \A i \in Depth : first(n, i) = first(r, i) /\ used(n, i) = used(r, i)
  BY <1>1, <1>4, <1>5, <1>6, SetHop
<1>8. w.ip = ip /\ v.ip = ip
  BY <1>5
<1>9. /\ Block(n.rules_tbl, first(n, d), used(n, d)) = {q \in Rules(r, d) : q.ip # ip} \union {w}
      /\ Single(n.rules_tbl, first(n, d), used(n, d))
  <2>1. PICK T : T = r.rules_tbl
    OBVIOUS
  <2>2. PICK T2 : T2 = n.rules_tbl
    OBVIOUS
  <2>3. PICK a \in Nat : a = first(r, d)
    BY <1>1
  <2>4. PICK c \in Nat : c = used(r, d)
    BY <1>1
  <2>5. T \in [Pos -> Rule] /\ Put(T, T2, k, w) /\ Single(T, a, c) /\ a + c <= max_rules /\ k \in a .. a+c-1
    BY <1>1, <1>3, <1>7, <2>1, <2>2, <2>3, <2>4 DEF Sound
  <2>6. w.ip = T[k].ip
    BY <1>8, <2>1
  <2>7. Block(T2, a, c) = {q \in Block(T, a, c) : q.ip # w.ip} \union {w} /\ Single(T2, a, c)
    BY <1>7, <2>5, <2>6, BlockUpdate
  <2> QED
    BY <1>7, <1>8, <2>1, <2>2, <2>3, <2>4, <2>7 DEF Rules
<1>10. ASSUME NEW e \in Depth, e # d
       PROVE  Rules(n, e) = Rules(r, e) /\ Single(n.rules_tbl, first(n, e), used(n, e))
  <2>1. first(n, e) = first(r, e) /\ used(n, e) = used(r, e)
    BY <1>7
  <2>2. /\ Block(n.rules_tbl, first(n, e), used(r, e)) = Block(r.rules_tbl, first(r, e), used(r, e))
        /\ Single(n.rules_tbl, first(n, e), used(r, e))
    BY <1>2, <1>4, <1>7, <1>10, <2>1, OthersKept
  <2> QED
    BY <2>1, <2>2 DEF Rules
<1>11. Laid(n)
  <2>1. \A i \in Depth : end(n, i) = end(r, i)
    BY <1>1, <1>7, TableIs
  <2> QED
    BY <1>1, <1>7, <2>1 DEF Laid
<1>12. Sound(n)
  BY <1>7, <1>9, <1>10, <1>11 DEF Sound
<1>13. Changed(r, n, d, {q \in Rules(r, d) : q.ip # ip} \union {w})
  BY <1>9, <1>10, <1>12 DEF Changed, Rules
<1> QED
  BY <1>5, <1>6, <1>13

\* at is between the shorter groups and the longer ones.
Fits(s, d, at) ==
  \A j \in Depth : used(s, j) > 0 => /\ j < d => end(s, j) <= at
                                     /\ j > d => at <= first(s, j)

\* rule_add, no such rule: the longer groups make room at the end of the group.
LEMMA RuleAppended ==
  ASSUME NEW s, Sound(s), NEW d \in Depth, NEW at, at = end(s, d), at < max_rules, RoomBehind(s, d),
         Fits(s, d, at), NEW v \in Rule, \A q \in Rules(s, d) : q.ip # v.ip,
         NEW m, m = make_room(s, d)[RTE_LPM_MAX_DEPTH - d],
         NEW u, u = used(s, d),
         NEW un, un = u + 1, NEW n, LastSet(m, n, at, v, d, un)
  PROVE  Changed(s, n, d, Rules(s, d) \union {v})
<1>1. /\ s \in RuleTable /\ Laid(s) /\ s.rules_tbl \in [Pos -> Rule]
      /\ \A e \in Depth : first(s, e) \in Nat /\ used(s, e) \in Nat /\ end(s, e) = first(s, e) + used(s, e)
  BY TableIs DEF Sound
<1>2. PICK c : c = [i \in Depth |-> used(s, i)]
  OBVIOUS
<1>3. CountAll(s, c) /\ \A i \in Depth : c[i] = used(s, i)
  BY <1>1, <1>2 DEF CountAll
<1>4. \A i \in Depth : Single(s.rules_tbl, first(s, i), c[i])
  BY <1>3 DEF Sound
<1>5. PICK D : D = d+1 .. RTE_LPM_MAX_DEPTH
  OBVIOUS
<1>6. PICK k : k = m
  OBVIOUS
<1>7. Shifted(s, k, c, D, 1)
  BY <1>1, <1>3, <1>4, <1>5, <1>6, RoomMade
<1>8. k \in RuleTable
  BY <1>7 DEF Shifted
<1>9. \A i \in Depth : /\ used(k, i) = used(s, i)
                       /\ first(k, i) = IF i > d /\ used(s, i) > 0 THEN first(s, i) + 1 ELSE first(s, i)
  <2>1. \A i \in Depth : i \in D <=> i > d
    BY <1>5, Constants4 DEF Depth
  <2> QED
    BY <1>7, <2>1 DEF Shifted
<1>10. \A i \in Depth : /\ Block(k.rules_tbl, first(k, i), used(s, i)) = Rules(s, i)
                        /\ Single(k.rules_tbl, first(k, i), used(s, i))
  BY <1>3, <1>7 DEF Shifted, Rules
<1>11. at \in Pos /\ un \in Nat
  BY <1>1, Constants4 DEF Pos
<1>12. PICK w : w = n
  OBVIOUS
<1>13. /\ w \in RuleTable /\ Put(k.rules_tbl, w.rules_tbl, at, v)
       /\ \A i \in Depth : /\ first(w, i) = first(k, i)
                           /\ used(w, i) = IF i = d THEN un ELSE used(k, i)
  BY <1>6, <1>8, <1>11, <1>12, SetLast
<1>14. /\ Rules(w, d) = Rules(s, d) \union {v}
       /\ Single(w.rules_tbl, first(w, d), used(w, d))
  <2>1. PICK T : T = k.rules_tbl
    OBVIOUS
  <2>2. PICK T2 : T2 = w.rules_tbl
    OBVIOUS
  <2>3. PICK a \in Nat : a = first(s, d)
    BY <1>1
  <2>4. PICK b \in Nat : b = used(s, d)
    BY <1>1
  <2>5. T \in [Pos -> Rule]
    BY <1>8, <2>1, TableIs
  <2>6. first(k, d) = a /\ first(w, d) = a /\ used(w, d) = b + 1
    BY <1>9, <1>13, <2>3, <2>4, Constants4
  <2>7. at = a + b /\ Put(T, T2, at, v)
    BY <1>1, <1>13, <2>1, <2>2, <2>3, <2>4
  <2>8. /\ Block(T2, a, b+1) = Block(T, a, b) \union {v}
        /\ Single(T, a, b) /\ (\A q \in Block(T, a, b) : q.ip # v.ip) => Single(T2, a, b+1)
    BY <1>11, <2>5, <2>7, BlockGrows
  <2>9. Block(T, a, b) = Rules(s, d) /\ Single(T, a, b)
    BY <1>10, <2>1, <2>4, <2>6
  <2>10. Block(T2, a, b+1) = Rules(s, d) \union {v} /\ Single(T2, a, b+1)
    BY <2>8, <2>9
  <2> QED
    BY <2>2, <2>6, <2>10 DEF Rules
<1>15. ASSUME NEW e \in Depth, e # d
       PROVE  Rules(w, e) = Rules(s, e) /\ Single(w.rules_tbl, first(w, e), used(w, e))
  <2>1. PICK T : T = k.rules_tbl
    OBVIOUS
  <2>2. PICK T2 : T2 = w.rules_tbl
    OBVIOUS
  <2>3. PICK a \in Nat : a = first(k, e)
    BY <1>8, TableIs
  <2>4. PICK b \in Nat : b = used(s, e)
    BY <1>1
  <2>5. T \in [Pos -> Rule] /\ Put(T, T2, at, v)
    BY <1>8, <1>13, <2>1, <2>2, TableIs
  <2>6. first(w, e) = a /\ used(w, e) = b
    BY <1>9, <1>13, <1>15, <2>3, <2>4
  <2>7. Apart(at, a, b)
    <3>1. PICK x \in Nat : x = first(s, e)
      BY <1>1
    <3>2. end(s, e) = x + b
      BY <1>1, <2>4, <3>1
    <3>3. b > 0 => end(s, e) <= max_rules
      BY <1>1, <2>4 DEF Laid
    <3>4. CASE b = 0
      <4>1. at \in Nat
        BY <1>11, Constants4
      <4> QED
        BY <3>4, <4>1 DEF Apart
    <3>5. CASE b > 0 /\ e < d
      <4>1. a = x
        BY <1>9, <2>3, <3>1, <3>5, Constants4
      <4>2. x + b <= at
        BY <2>4, <3>2, <3>5 DEF Fits
      <4> QED
        BY <3>2, <3>3, <3>5, <4>1, <4>2 DEF Apart
    <3>6. CASE b > 0 /\ e > d
      <4>1. a = x + 1
        BY <1>9, <2>3, <2>4, <3>1, <3>6
      <4>2. at <= x
        BY <2>4, <3>1, <3>6 DEF Fits
      <4>3. end(s, e) # max_rules
        BY <3>6 DEF RoomBehind
      <4>4. x + b <= max_rules /\ x + b # max_rules
        BY <3>2, <3>3, <3>6, <4>3
      <4>5. at < a /\ a + b <= max_rules
        <5>1. at \in Nat
          BY <1>11, Constants4
        <5> QED
          BY <4>1, <4>2, <4>4, <5>1, Constants4
      <4> QED
        BY <4>5 DEF Apart
    <3> QED
      BY <1>15, <3>4, <3>5, <3>6, Constants4
  <2>8. Block(T2, a, b) = Block(T, a, b) /\ (Single(T, a, b) => Single(T2, a, b))
    BY <1>11, <2>5, <2>7, WriteOutside
  <2>9. Block(T, a, b) = Rules(s, e) /\ Single(T, a, b)
    BY <1>10, <2>1, <2>3, <2>4
  <2> QED
    BY <2>2, <2>6, <2>8, <2>9 DEF Rules
<1>16. Laid(w)
  <2>1. \A i \in Depth : end(w, i) = first(w, i) + used(w, i)
    BY <1>13, TableIs
  <2>2. end(w, d) = at + 1 /\ first(w, d) = first(s, d)
    <3>1. first(k, d) = first(s, d)
      BY <1>9, Constants4
    <3> QED
      BY <1>1, <1>13, <2>1, <3>1
  <2>3. at \in Nat
    BY <1>11, Constants4
  <2>4. ASSUME NEW i \in Depth, used(w, i) > 0
        PROVE  /\ i < d => used(s, i) > 0 /\ first(w, i) = first(s, i) /\ end(w, i) = end(s, i)
               /\ i > d => used(s, i) > 0 /\ first(w, i) = first(s, i) + 1 /\ end(w, i) = end(s, i) + 1
    <3>1. CASE i < d
      <4>1. used(w, i) = used(s, i) /\ first(w, i) = first(s, i)
        BY <1>9, <1>13, <3>1, Constants4
      <4> QED
        BY <1>1, <2>1, <2>4, <3>1, <4>1, Constants4
    <3>2. CASE i > d
      <4>1. used(w, i) = used(s, i)
        BY <1>9, <1>13, <3>2, Constants4
      <4>2. first(w, i) = first(s, i) + 1
        BY <1>9, <1>13, <2>4, <3>2, <4>1
      <4>3. PICK x \in Nat : x = first(s, i)
        BY <1>1
      <4>4. PICK y \in Nat : y = used(s, i)
        BY <1>1
      <4>5. end(w, i) = x + 1 + y /\ end(s, i) = x + y
        BY <1>1, <2>1, <4>1, <4>2, <4>3, <4>4
      <4> QED
        BY <2>4, <3>2, <4>1, <4>2, <4>5, Constants4
    <3> QED
      BY <3>1, <3>2
  <2>5. ASSUME NEW i \in Depth, used(w, i) > 0
        PROVE  end(w, i) <= max_rules
    <3>1. CASE i = d
      BY <2>2, <2>3, <3>1, Constants4
    <3>2. CASE i < d
      BY <1>1, <2>4, <2>5, <3>2 DEF Laid
    <3>3. CASE i > d
      <4>1. end(s, i) <= max_rules /\ end(w, i) = end(s, i) + 1 /\ end(s, i) # max_rules
        BY <1>1, <2>4, <2>5, <3>3 DEF Laid, RoomBehind
      <4>2. end(s, i) \in Nat
        BY <1>1
      <4> QED
        BY <4>1, <4>2, Constants4
    <3> QED
      BY <3>1, <3>2, <3>3, Constants4
  <2>6. ASSUME NEW i \in Depth, NEW j \in Depth, i < j, used(w, i) > 0, used(w, j) > 0
        PROVE  end(w, i) <= first(w, j)
    <3>1. /\ end(s, i) \in Nat /\ first(s, i) \in Nat /\ end(s, j) \in Nat /\ first(s, j) \in Nat
          /\ i \in Nat /\ j \in Nat /\ d \in Nat
      BY <1>1, Constants4
    <3>2. CASE i = d
      <4>1. at <= first(s, j) /\ first(w, j) = first(s, j) + 1
        BY <2>4, <2>6, <3>2 DEF Fits
      <4> QED
        BY <2>2, <2>3, <3>1, <3>2, <4>1
    <3>3. CASE j = d
      <4>1. end(s, i) <= at /\ end(w, i) = end(s, i)
        BY <2>4, <2>6, <3>3 DEF Fits
      <4>2. CASE used(s, d) > 0
        BY <1>1, <2>2, <2>4, <2>6, <3>3, <4>1, <4>2 DEF Laid
      <4>3. CASE used(s, d) = 0
        <5>1. at = first(s, d)
          BY <1>1, <4>3
        <5> QED
          BY <2>2, <3>3, <4>1, <5>1
      <4> QED
        BY <1>1, <4>2, <4>3
    <3>4. CASE i # d /\ j # d
      <4>1. used(s, i) > 0 /\ used(s, j) > 0
        BY <2>4, <2>6, <3>1, <3>4
      <4>2. end(s, i) <= first(s, j)
        BY <1>1, <2>6, <4>1 DEF Laid
      <4>3. \/ end(w, i) = end(s, i) /\ first(w, j) = first(s, j)
            \/ end(w, i) = end(s, i) /\ first(w, j) = first(s, j) + 1
            \/ end(w, i) = end(s, i) + 1 /\ first(w, j) = first(s, j) + 1
        BY <2>4, <2>6, <3>1, <3>4
      <4> QED
        BY <3>1, <4>2, <4>3
    <3> QED
      BY <3>2, <3>3, <3>4
  <2> QED
    BY <2>5, <2>6 DEF Laid
<1>17. Sound(w)
  BY <1>13, <1>14, <1>15, <1>16 DEF Sound
<1>18. Changed(s, w, d, Rules(s, d) \union {v})
  BY <1>14, <1>15, <1>17 DEF Changed
<1> QED
  BY <1>12, <1>18

LEMMA GreatestNumber ==
  ASSUME NEW b \in Nat, NEW S, S \subseteq 0..b, S # {}
  PROVE  Max(S) \in S /\ \A y \in S : y <= Max(S)
<1> DEFINE R == {b - x : x \in S}
<1>0. \A x \in S : x \in Nat /\ x <= b /\ b - x \in Nat
  OBVIOUS
<1>1. R \subseteq Nat /\ R # {}
  BY <1>0
<1> HIDE DEF R
<1>2. PICK z \in R : \A y \in R : z <= y
  BY <1>1, LeastNumber
<1>3. PICK x \in S : z = b - x
  BY <1>2 DEF R
<1>4. \A y \in S : x >= y
  <2> TAKE y \in S
  <2>1. b - y \in R
    BY DEF R
  <2>2. b - x <= b - y
    BY <1>2, <1>3, <2>1
  <2>3. x \in Nat /\ y \in Nat
    BY <1>0, <1>3
  <2> QED
    BY <2>2, <2>3
<1>5. \E w \in S : \A y \in S : w >= y
  BY <1>4
<1>6. Max(S) \in S /\ \A y \in S : Max(S) >= y
  BY <1>5 DEF Max
<1> QED
  BY <1>0, <1>6

\* Where a new group starts.
LEMMA NewStart ==
  ASSUME NEW r \in RuleTable, Laid(r), NEW d \in Depth, used(r, d) = 0, NEW at, at = new_group_start(r, d)
  PROVE  at \in Nat /\ at <= max_rules /\ Fits(r, d, at)
<1>0. /\ \A i \in Depth : first(r, i) \in Nat /\ used(r, i) \in Nat /\ end(r, i) = first(r, i) + used(r, i)
      /\ \A i \in Depth : i \in Nat
      /\ \A i : i \in Depth /\ i < d <=> i \in 1 .. d-1
  BY TableIs, Constants4 DEF Depth
<1> DEFINE S == {i \in 1 .. d-1 : used(r, i) > 0}
<1>1. at = IF S = {} THEN 0 ELSE end(r, Max(S))
  BY DEF new_group_start, used
<1>2. S \subseteq 0 .. d /\ d \in Nat
  BY <1>0
<1>3. \A i \in Depth : i < d /\ used(r, i) > 0 <=> i \in S
  BY <1>0
<1>4. S \subseteq Depth
  BY <1>0
<1> HIDE DEF S
<1>5. CASE S = {}
  <2>1. at = 0
    BY <1>1, <1>5
  <2>2. ASSUME NEW j \in Depth, used(r, j) > 0
        PROVE  ~(j < d) /\ at <= first(r, j)
    BY <1>0, <1>3, <1>5, <2>1, <2>2
  <2>3. Fits(r, d, at)
    BY <2>2 DEF Fits
  <2> QED
    BY <2>1, <2>3, Constants4
<1>6. CASE S # {}
  <2>1. PICK g : g = Max(S)
    OBVIOUS
  <2>2. g \in S /\ \A y \in S : y <= g
    BY <1>2, <1>6, <2>1, GreatestNumber
  <2>3. g \in Depth /\ g < d /\ used(r, g) > 0 /\ at = end(r, g)
    BY <1>1, <1>3, <1>4, <1>6, <2>1, <2>2
  <2>4. at \in Nat /\ at <= max_rules
    BY <1>0, <2>3 DEF Laid
  <2>5. ASSUME NEW j \in Depth, used(r, j) > 0, j < d
        PROVE  end(r, j) <= at
    <3>1. j <= g
      BY <1>3, <2>2, <2>5
    <3>2. CASE j = g
      BY <2>3, <2>4, <3>2
    <3>3. CASE j # g
      <4>1. j < g
        BY <1>0, <2>3, <3>1, <3>3
      <4>2. end(r, j) <= first(r, g)
        BY <2>3, <2>5, <4>1 DEF Laid
      <4>3. /\ end(r, j) \in Nat /\ first(r, g) \in Nat /\ used(r, g) \in Nat
            /\ end(r, g) = first(r, g) + used(r, g)
        BY <1>0, <2>3
      <4> QED
        BY <2>3, <4>2, <4>3
    <3> QED
      BY <3>2, <3>3
  <2>6. ASSUME NEW j \in Depth, used(r, j) > 0, j > d
        PROVE  at <= first(r, j)
    <3>1. g < j
      BY <1>0, <2>3, <2>6
    <3> QED
      BY <2>3, <2>6, <3>1 DEF Laid
  <2>7. Fits(r, d, at)
    BY <2>5, <2>6 DEF Fits
  <2> QED
    BY <2>4, <2>7
<1> QED
  BY <1>5, <1>6

\* The end of a group that has rules.
LEMMA OldEnd ==
  ASSUME NEW r \in RuleTable, Laid(r), NEW d \in Depth, used(r, d) > 0, NEW at, at = end(r, d)
  PROVE  at \in Nat /\ at <= max_rules /\ Fits(r, d, at)
<1>1. \A i \in Depth : first(r, i) \in Nat /\ used(r, i) \in Nat /\ end(r, i) = first(r, i) + used(r, i)
  BY TableIs
<1>2. at \in Nat /\ at <= max_rules
  BY <1>1 DEF Laid
<1>3. ASSUME NEW j \in Depth, used(r, j) > 0, j < d
      PROVE  end(r, j) <= at
  <2>1. end(r, j) <= first(r, d)
    BY <1>3 DEF Laid
  <2>2. /\ end(r, j) \in Nat /\ first(r, d) \in Nat /\ used(r, d) \in Nat
        /\ end(r, d) = first(r, d) + used(r, d)
    BY <1>1
  <2> QED
    BY <2>1, <2>2
<1>4. ASSUME NEW j \in Depth, used(r, j) > 0, j > d
      PROVE  at <= first(r, j)
  BY <1>4 DEF Laid
<1> QED
  BY <1>2, <1>3, <1>4 DEF Fits

LEMMA EmptyBlock ==
  ASSUME NEW T, NEW a \in Nat, NEW b \in Nat
  PROVE  Block(T, a, 0) = Block(T, b, 0) /\ Single(T, a, 0)
<1>1. \A k : k \notin a .. a+0-1 /\ k \notin b .. b+0-1
  OBVIOUS
<1> QED
  BY <1>1 DEF Block, Single

\* make_room leaves used_rules alone.
LEMMA RoomUsed ==
  ASSUME NEW s, Sound(s), NEW d \in Depth, RoomBehind(s, d),
         NEW m, m = make_room(s, d)[RTE_LPM_MAX_DEPTH - d]
  PROVE  used(m, d) = used(s, d)
<1>1. s \in RuleTable /\ Laid(s)
  BY DEF Sound
<1>2. PICK c : c = [i \in Depth |-> used(s, i)]
  OBVIOUS
<1>3. CountAll(s, c) /\ \A i \in Depth : c[i] = used(s, i)
  BY <1>1, <1>2, TableIs DEF CountAll
<1>4. \A i \in Depth : Single(s.rules_tbl, first(s, i), c[i])
  BY <1>3 DEF Sound
<1>5. PICK D : D = d+1 .. RTE_LPM_MAX_DEPTH
  OBVIOUS
<1>6. Shifted(s, m, c, D, 1)
  BY <1>1, <1>3, <1>4, <1>5, RoomMade
<1> QED
  BY <1>6 DEF Shifted

\* rule_add replaces the rule of that prefix, or adds it.
LEMMA RuleAdded ==
  ASSUME NEW r, Sound(r), NEW ip \in Nat, NEW d \in Depth, NEW h \in 0 .. GINDEX-1,
         rule_add(r, ip, d, h).status = "running", NEW n, n = rule_add(r, ip, d, h).rt,
         NEW v, v = [ip |-> ip, next_hop |-> h]
  PROVE  Changed(r, n, d, {q \in Rules(r, d) : q.ip # ip} \union {v})
<1>0. r \in RuleTable /\ Laid(r)
  BY DEF Sound
<1>1. PICK k : k = rule_find(r, ip, d)
  OBVIOUS
<1>2. /\ k \in Int
      /\ k >= 0 => k \in first(r, d) .. first(r, d) + used(r, d) - 1 /\ r.rules_tbl[k].ip = ip
      /\ ~(k >= 0) => \A q \in Rules(r, d) : q.ip # ip
  BY <1>0, <1>1, FindIs
<1>3. CASE k >= 0
  <2>1. HopSet(r, n, k, h)
    BY <1>1, <1>3 DEF rule_add, HopSet
  <2> QED
    BY <1>2, <1>3, <2>1, RuleUpdated
<1>4. CASE ~(k >= 0)
  <2> DEFINE new == r.rule_info[d].used_rules = 0
             at == IF new THEN new_group_start(r, d) ELSE end(r, d)
             s == [r EXCEPT !.rule_info[d].first_rule = IF new THEN at ELSE @]
             m == make_room(s, d)[RTE_LPM_MAX_DEPTH - d]
             w == [m EXCEPT !.rules_tbl[at] = [ip |-> ip, next_hop |-> h],
                            !.rule_info[d].used_rules = @ + 1]
  <2>1. /\ ~(new /\ at = max_rules)
        /\ ~\E i \in d+1 .. RTE_LPM_MAX_DEPTH : end(s, i) = max_rules
        /\ at # max_rules
        /\ n = w
    <3> DEFINE bad == \/ new /\ at = max_rules
                      \/ \E i \in d+1 .. RTE_LPM_MAX_DEPTH : end(s, i) = max_rules
    <3>1. rule_add(r, ip, d, h) =
            IF bad THEN [status |-> "assert", rt |-> r]
            ELSE IF at = max_rules THEN [status |-> "overrun", rt |-> r]
            ELSE [status |-> "running", rt |-> w]
      BY <1>1, <1>4 DEF rule_add
    <3> HIDE DEF bad, at, w
    <3>2. ~bad /\ at # max_rules /\ n = w
      BY <3>1
    <3> QED
      BY <3>2 DEF bad
  <2>2. PICK a : a = at
    OBVIOUS
  <2>3. PICK f : f = IF new THEN a ELSE first(r, d)
    OBVIOUS
  <2>4. PICK t : t = s
    OBVIOUS
  <2>5. FirstSet(r, t, d, f)
    BY <2>2, <2>3, <2>4 DEF FirstSet, first
  <2>6. PICK y : y = m
    OBVIOUS
  <2>7. y = make_room(t, d)[RTE_LPM_MAX_DEPTH - d]
    BY <2>4, <2>6
  <2>8. n = [y EXCEPT !.rules_tbl[a] = v, !.rule_info[d].used_rules = @ + 1]
    BY <2>1, <2>2, <2>6
  <2>9. a = IF new THEN new_group_start(r, d) ELSE end(r, d)
    BY <2>2
  <2>10. a # max_rules /\ ~\E i \in d+1 .. RTE_LPM_MAX_DEPTH : end(t, i) = max_rules
    BY <2>1, <2>2, <2>4
  <2>11. new <=> used(r, d) = 0
    BY DEF used
  <2> HIDE DEF new, at, s, m, w
  <2>12. /\ \A i \in Depth : /\ first(r, i) \in Nat /\ used(r, i) \in Nat
                              /\ end(r, i) = first(r, i) + used(r, i)
         /\ v \in Rule /\ v.ip = ip
    BY <1>0, TableIs DEF Rule
  <2>13. a \in Nat /\ a <= max_rules /\ Fits(r, d, a)
    <3>1. CASE new
      BY <1>0, <2>9, <2>11, <3>1, NewStart
    <3>2. CASE ~new
      <4>1. used(r, d) > 0
        BY <2>11, <2>12, <3>2
      <4> QED
        BY <1>0, <2>9, <3>2, <4>1, OldEnd
    <3> QED
      BY <3>1, <3>2
  <2>14. f \in Nat
    BY <2>3, <2>12, <2>13
  <2>15. /\ t \in RuleTable /\ t.rules_tbl = r.rules_tbl
         /\ \A i \in Depth : /\ used(t, i) = used(r, i)
                             /\ first(t, i) = IF i = d THEN f ELSE first(r, i)
    BY <1>0, <2>5, <2>14, SetFirst
  <2>16. \A i \in Depth : used(r, i) > 0 => first(t, i) = first(r, i) /\ end(t, i) = end(r, i)
    <3>1. \A i \in Depth : used(r, i) > 0 => first(t, i) = first(r, i)
      BY <2>3, <2>11, <2>15
    <3>2. \A i \in Depth : end(t, i) = first(t, i) + used(t, i)
      BY <2>15, TableIs
    <3> QED
      BY <2>12, <2>15, <3>1, <3>2
  <2>17. Laid(t)
    BY <1>0, <2>15, <2>16 DEF Laid
  <2>18. Fits(t, d, a)
    BY <2>13, <2>15, <2>16 DEF Fits
  <2>19. \A e \in Depth : Rules(t, e) = Rules(r, e) /\ Single(t.rules_tbl, first(t, e), used(t, e))
    <3> TAKE e \in Depth
    <3>1. CASE used(r, e) > 0
      BY <2>15, <2>16, <3>1 DEF Sound, Rules
    <3>2. CASE used(r, e) = 0
      BY <2>12, <2>14, <2>15, <3>2, EmptyBlock DEF Rules
    <3> QED
      BY <2>12, <3>1, <3>2
  <2>20. Sound(t)
    BY <2>15, <2>17, <2>19 DEF Sound
  <2>21. a = end(t, d) /\ a < max_rules
    <3>1. a = end(t, d)
      <4>1. CASE new
        <5>1. end(t, d) = first(t, d) + used(t, d) /\ first(t, d) = a /\ used(t, d) = 0
          BY <2>3, <2>11, <2>15, <4>1, TableIs
        <5> QED
          BY <2>13, <5>1
      <4>2. CASE ~new
        BY <2>9, <2>11, <2>12, <2>16, <4>2
      <4> QED
        BY <4>1, <4>2
    <3> QED
      BY <2>10, <2>13, <3>1, Constants4
  <2>22. RoomBehind(t, d)
    <3>1. \A i \in Depth : i > d => i \in d+1 .. RTE_LPM_MAX_DEPTH
      BY Constants4 DEF Depth
    <3> QED
      BY <2>10, <3>1 DEF RoomBehind
  <2>23. PICK u : u = used(t, d)
    OBVIOUS
  <2>24. PICK x : x = u + 1
    OBVIOUS
  <2>25. LastSet(y, n, a, v, d, x)
    <3>1. used(y, d) = u
      BY <2>7, <2>20, <2>22, <2>23, RoomUsed
    <3> QED
      BY <2>8, <2>24, <3>1 DEF LastSet, used
  <2>26. \A q \in Rules(t, d) : q.ip # v.ip
    BY <1>2, <1>4, <2>12, <2>19
  <2>27. Changed(t, n, d, Rules(t, d) \union {v})
    BY <2>7, <2>12, <2>18, <2>20, <2>21, <2>22, <2>23, <2>24, <2>25, <2>26, RuleAppended
  <2>28. {q \in Rules(r, d) : q.ip # ip} = Rules(r, d)
    BY <1>2, <1>4
  <2> QED
    BY <2>19, <2>27, <2>28 DEF Changed
<1> QED
  BY <1>3, <1>4

\* rule_delete removes the rule at k.
LEMMA RuleDeleted ==
  ASSUME NEW r, Sound(r), NEW d \in Depth, NEW k \in first(r, d) .. first(r, d) + used(r, d) - 1,
         NEW ip, ip = r.rules_tbl[k].ip, NEW n, n = rule_delete(r, k, d)
  PROVE  Changed(r, n, d, {q \in Rules(r, d) : q.ip # ip})
<1>1. /\ r \in RuleTable /\ Laid(r) /\ r.rules_tbl \in [Pos -> Rule]
      /\ \A e \in Depth : first(r, e) \in Nat /\ used(r, e) \in Nat /\ end(r, e) = first(r, e) + used(r, e)
  BY TableIs DEF Sound
<1>2. used(r, d) > 0
  BY <1>1
<1>3. first(r, d) + used(r, d) <= max_rules
  BY <1>1, <1>2, GroupIn
<1>4. k \in Pos /\ end(r, d) - 1 \in Pos
  BY <1>1, <1>2, <1>3, Constants4 DEF Pos
<1>5. PICK v : v = r.rules_tbl[end(r, d) - 1]
  OBVIOUS
<1>6. v \in Rule
  BY <1>1, <1>4, <1>5
<1>7. PICK s : RuleSet(r, s, k, v)
  BY DEF RuleSet
<1>8. /\ s \in RuleTable /\ Put(r.rules_tbl, s.rules_tbl, k, v)
      /\ \A i \in Depth : first(s, i) = first(r, i) /\ used(s, i) = used(r, i)
  BY <1>1, <1>4, <1>6, <1>7, SetRule
<1>9. PICK m : m = close_gap(s, d)[RTE_LPM_MAX_DEPTH - d]
  OBVIOUS
<1>10. n = [m EXCEPT !.rule_info[d].used_rules = @ - 1]
  BY <1>5, <1>7, <1>9 DEF rule_delete, RuleSet
<1>11. \A i \in Depth : end(s, i) = end(r, i)
  BY <1>1, <1>8, TableIs
<1>12. Laid(s)
  BY <1>1, <1>8, <1>11 DEF Laid
<1>13. PICK c : c = [i \in Depth |-> IF i = d THEN used(s, i) - 1 ELSE used(s, i)]
  OBVIOUS
<1>14. /\ CountLess(s, d, c) /\ c[d] = used(r, d) - 1 /\ c[d] \in Nat
       /\ \A i \in Depth : i # d => c[i] = used(r, i)
  <2>1. \A i \in Depth : c[i] = IF i = d THEN used(s, i) - 1 ELSE used(s, i)
    BY <1>13
  <2>2. \A i \in Depth : (IF i = d THEN used(s, i) - 1 ELSE used(s, i)) \in Nat
    BY <1>1, <1>2, <1>8
  <2>3. c \in [Depth -> Nat]
    BY <1>13, <2>2
  <2> QED
    BY <1>8, <2>1, <2>3 DEF CountLess
<1>15. /\ Block(s.rules_tbl, first(s, d), c[d]) = {q \in Rules(r, d) : q.ip # ip}
       /\ Single(s.rules_tbl, first(s, d), c[d])
  <2>1. PICK T : T = r.rules_tbl
    OBVIOUS
  <2>2. PICK T2 : T2 = s.rules_tbl
    OBVIOUS
  <2>3. PICK a \in Nat : a = first(r, d)
    BY <1>1
  <2>4. PICK b \in Nat \ {0} : b = used(r, d)
    BY <1>1, <1>2
  <2>5. T \in [Pos -> Rule] /\ Put(T, T2, k, v) /\ Single(T, a, b) /\ a + b <= max_rules /\ k \in a .. a+b-1
    BY <1>1, <1>3, <1>8, <2>1, <2>2, <2>3, <2>4 DEF Sound
  <2>6. PICK l : Last(T, a, b, v, l)
    BY <1>1, <1>5, <2>1, <2>3, <2>4 DEF Last
  <2>7. ip = T[k].ip /\ l = b - 1
    BY <2>1, <2>6 DEF Last
  <2>9. Block(T2, a, l) = Without(Block(T, a, b), T[k].ip) /\ Single(T2, a, l)
    BY <2>5, <2>6, BlockDelete
  <2>8. first(s, d) = a /\ c[d] = l
    BY <1>8, <1>14, <2>1, <2>3, <2>4, <2>7
  <2> QED
    BY <2>1, <2>2, <2>3, <2>4, <2>7, <2>8, <2>9 DEF Rules, Without
<1>16. ASSUME NEW e \in Depth, e # d
       PROVE  Block(s.rules_tbl, first(s, e), c[e]) = Rules(r, e) /\ Single(s.rules_tbl, first(s, e), c[e])
  <2>1. first(s, e) = first(r, e) /\ c[e] = used(r, e)
    BY <1>8, <1>14, <1>16
  <2>2. /\ Block(s.rules_tbl, first(s, e), used(r, e)) = Block(r.rules_tbl, first(r, e), used(r, e))
        /\ Single(s.rules_tbl, first(s, e), used(r, e))
    BY <1>2, <1>4, <1>6, <1>8, <1>16, <2>1, OthersKept
  <2> QED
    BY <2>1, <2>2 DEF Rules
<1>17. PICK D : D = d+1 .. RTE_LPM_MAX_DEPTH
  OBVIOUS
<1>18. PICK z : z = -1
  OBVIOUS
<1>19. Shifted(s, m, c, D, z)
  <2>1. used(s, d) > 0
    BY <1>2, <1>8
  <2>2. \A i \in Depth : Single(s.rules_tbl, first(s, i), c[i])
    BY <1>15, <1>16
  <2> QED
    BY <1>8, <1>9, <1>12, <1>14, <1>17, <1>18, <2>1, <2>2, GapClosed
<1>20. m \in RuleTable /\ used(m, d) = used(r, d)
  BY <1>8, <1>19 DEF Shifted
<1>21. \A i \in Depth : /\ used(m, i) = used(r, i)
                        /\ first(m, i) = IF i > d /\ used(r, i) > 0 THEN first(r, i) - 1 ELSE first(r, i)
  <2>1. \A i \in Depth : i \in D <=> i > d
    BY <1>17, Constants4 DEF Depth
  <2>2. \A i \in Depth : /\ used(m, i) = used(s, i)
                         /\ first(m, i) = IF i > d /\ used(s, i) > 0 THEN first(s, i) + z ELSE first(s, i)
    BY <1>19, <2>1 DEF Shifted
  <2>3. \A i \in Depth : first(s, i) + z = first(r, i) - 1
    BY <1>1, <1>8, <1>18
  <2> QED
    BY <1>8, <2>2, <2>3
<1>22. PICK x : x = c[d]
  OBVIOUS
<1>23. UsedSet(m, n, d, x)
  <2>1. m.rule_info[d].used_rules - 1 = x
    BY <1>14, <1>20, <1>22 DEF used
  <2> QED
    BY <1>10, <2>1 DEF UsedSet
<1>24. /\ n \in RuleTable /\ n.rules_tbl = m.rules_tbl
       /\ \A i \in Depth : /\ first(n, i) = first(m, i)
                           /\ used(n, i) = IF i = d THEN x ELSE used(m, i)
  BY <1>14, <1>20, <1>22, <1>23, SetUsed
<1>25. \A i \in Depth : used(n, i) = c[i]
  BY <1>14, <1>21, <1>22, <1>24
<1>26. \A i \in Depth : /\ Block(n.rules_tbl, first(n, i), used(n, i)) = Block(s.rules_tbl, first(s, i), c[i])
                        /\ Single(n.rules_tbl, first(n, i), used(n, i))
  BY <1>19, <1>24, <1>25 DEF Shifted
<1>27. Laid(n)
  <2>1. \A i \in Depth : /\ end(n, i) = first(n, i) + used(n, i)
                         /\ first(n, i) \in Nat /\ used(n, i) \in Nat
    BY <1>24, TableIs
  <2>2. ASSUME NEW i \in Depth, used(n, i) > 0
        PROVE  /\ used(r, i) > 0
               /\ i < d => first(n, i) = first(r, i) /\ end(n, i) = end(r, i)
               /\ i = d => first(n, i) = first(r, i) /\ end(n, i) = end(r, i) - 1
               /\ i > d => first(n, i) = first(r, i) - 1 /\ end(n, i) = end(r, i) - 1
    <3>1. PICK a \in Nat : a = first(r, i)
      BY <1>1
    <3>2. PICK b \in Nat : b = used(r, i)
      BY <1>1
    <3>3. used(n, i) = IF i = d THEN b - 1 ELSE b
      BY <1>14, <1>25, <3>2
    <3>4. b > 0
      BY <2>2, <3>2, <3>3
    <3>5. first(n, i) = IF i > d THEN a - 1 ELSE a
      BY <1>21, <1>24, <3>1, <3>2, <3>4
    <3>6. end(r, i) = a + b /\ end(n, i) = first(n, i) + used(n, i)
      BY <1>1, <2>1, <3>1, <3>2
    <3>7. CASE i < d
      <4>1. first(n, i) = a /\ used(n, i) = b
        BY <3>3, <3>5, <3>7, Constants4
      <4> QED
        BY <3>1, <3>2, <3>4, <3>6, <3>7, <4>1, Constants4
    <3>8. CASE i = d
      <4>1. first(n, i) = a /\ used(n, i) = b - 1
        BY <3>3, <3>5, <3>8, Constants4
      <4> QED
        BY <3>1, <3>2, <3>4, <3>6, <3>8, <4>1, Constants4
    <3>9. CASE i > d
      <4>1. first(n, i) = a - 1 /\ used(n, i) = b
        BY <3>3, <3>5, <3>9, Constants4
      <4> QED
        BY <3>1, <3>2, <3>4, <3>6, <3>9, <4>1, Constants4
    <3>10. i < d \/ i = d \/ i > d
      BY Constants4
    <3> QED
      BY <3>7, <3>8, <3>9, <3>10
  <2>3. ASSUME NEW i \in Depth, used(n, i) > 0
        PROVE  end(n, i) <= max_rules
    <3>1. end(r, i) <= max_rules /\ end(r, i) \in Nat
      BY <1>1, <2>2, <2>3 DEF Laid
    <3>2. end(n, i) = end(r, i) \/ end(n, i) = end(r, i) - 1
      BY <2>2, <2>3, Constants4
    <3> QED
      BY <3>1, <3>2, Constants4
  <2>4. ASSUME NEW i \in Depth, NEW j \in Depth, i < j, used(n, i) > 0, used(n, j) > 0
        PROVE  end(n, i) <= first(n, j)
    <3>1. /\ end(r, i) \in Nat /\ first(r, i) \in Nat /\ end(r, j) \in Nat /\ first(r, j) \in Nat
          /\ i \in Nat /\ j \in Nat /\ d \in Nat
      BY <1>1, Constants4
    <3>2. used(r, i) > 0 /\ used(r, j) > 0
      BY <2>2, <2>4
    <3>3. end(r, i) <= first(r, j)
      BY <1>1, <2>4, <3>2 DEF Laid
    <3>4. CASE i >= d
      <4>1. end(n, i) = end(r, i) - 1 /\ first(n, j) = first(r, j) - 1
        BY <2>2, <2>4, <3>1, <3>4
      <4> QED
        BY <3>1, <3>3, <4>1
    <3>5. CASE j <= d
      <4>1. end(n, i) = end(r, i) /\ first(n, j) = first(r, j)
        BY <2>2, <2>4, <3>1, <3>5
      <4> QED
        BY <3>3, <4>1
    <3>6. CASE i < d /\ j > d
      <4>1. end(n, i) = end(r, i) /\ first(n, j) = first(r, j) - 1
        BY <2>2, <2>4, <3>1, <3>6
      <4>2. end(r, i) <= first(r, d) /\ end(r, d) <= first(r, j)
        BY <1>1, <1>2, <3>2, <3>6 DEF Laid
      <4>3. PICK a \in Nat : a = first(r, d)
        BY <1>1
      <4>4. PICK b \in Nat : b = used(r, d)
        BY <1>1
      <4>5. end(r, d) = a + b /\ b > 0
        BY <1>1, <1>2, <4>3, <4>4
      <4> QED
        BY <3>1, <4>1, <4>2, <4>3, <4>5
    <3> QED
      BY <3>1, <3>4, <3>5, <3>6
  <2> QED
    BY <2>3, <2>4 DEF Laid
<1>28. Sound(n)
  BY <1>24, <1>26, <1>27 DEF Sound
<1> QED
  BY <1>15, <1>16, <1>26, <1>28 DEF Changed, Rules

-----------------------------------------------------------------------------
(* The invariant.                                                          *)

Entry(q, d) == [ip |-> q.ip, depth |-> d, next_hop |-> q.next_hop]

\* The routes are the rules.
Kept(R, r) == \A x : x \in R <=> \E d \in Depth : \E q \in Rules(r, d) : x = Entry(q, d)

\* The inductive invariant: the groups lie one after the other in the
\* table, none has two rules for one prefix, and their rules are the routes.
TableKept == Sound(rt) /\ Kept(routes, rt)

\* The rules, and the routes, without those of one prefix and with new ones.
NewRules(r, n, d, p, N) == Changed(r, n, d, {q \in Rules(r, d) : q.ip # p} \union N)
NewRoutes(R, S, d, p, N) ==
  S = {x \in R : ~(x.ip = p /\ x.depth = d)} \union {Entry(q, d) : q \in N}

LEMMA RoutesChanged ==
  ASSUME NEW R, NEW r, Kept(R, r), NEW d \in Depth, NEW p, NEW N,
         NEW n, NewRules(r, n, d, p, N), NEW S, NewRoutes(R, S, d, p, N)
  PROVE  Kept(S, n)
<1> USE DEF NewRoutes
<1>1. \A q, e : Entry(q, e).ip = q.ip /\ Entry(q, e).depth = e
  BY DEF Entry
<1>2. /\ \A q : q \in Rules(n, d) <=> (q \in Rules(r, d) /\ q.ip # p) \/ q \in N
      /\ \A e \in Depth : e # d => Rules(n, e) = Rules(r, e)
  BY DEF Changed, NewRules
<1>3. \A x : x \in R <=> \E e \in Depth : \E q \in Rules(r, e) : x = Entry(q, e)
  BY DEF Kept
<1>4. ASSUME NEW x, x \in S
      PROVE  \E e \in Depth : \E q \in Rules(n, e) : x = Entry(q, e)
  <2>1. CASE x \in R /\ ~(x.ip = p /\ x.depth = d)
    <3>0. PICK e \in Depth : \E q \in Rules(r, e) : x = Entry(q, e)
      BY <1>3, <2>1
    <3>1. PICK q \in Rules(r, e) : x = Entry(q, e)
      BY <3>0
    <3>2. ~(q.ip = p /\ e = d)
      BY <1>1, <2>1, <3>1
    <3>3. q \in Rules(n, e)
      BY <1>2, <3>1, <3>2
    <3> QED
      BY <3>1, <3>3
  <2>2. CASE x \in {Entry(q, d) : q \in N}
    <3>1. PICK q \in N : x = Entry(q, d)
      BY <2>2
    <3>2. q \in Rules(n, d)
      BY <1>2
    <3> QED
      BY <3>1, <3>2
  <2> QED
    BY <1>4, <2>1, <2>2
<1>5. ASSUME NEW x, NEW e \in Depth, NEW q \in Rules(n, e), x = Entry(q, e)
      PROVE  x \in S
  <2>1. CASE q \in Rules(r, e) /\ ~(e = d /\ q.ip = p)
    <3>1. x \in R
      BY <1>3, <1>5, <2>1
    <3>2. ~(x.ip = p /\ x.depth = d)
      BY <1>1, <1>5, <2>1
    <3> QED
      BY <3>1, <3>2
  <2>2. CASE e = d /\ q \in N
    BY <1>5, <2>2
  <2> QED
    BY <1>2, <2>1, <2>2
<1> QED
  BY <1>4, <1>5 DEF Kept

LEMMA EmptyKept == Sound(NoRules) /\ Kept({}, NoRules)
<1>1. NoRules \in RuleTable
  <2>1. 0 \in Nat /\ 0 \in 0 .. GINDEX-1
    BY Lpm4Assumption
  <2>2. [k \in 0..max_rules-1 |-> [ip |-> 0, next_hop |-> 0]] \in [Pos -> Rule]
    BY <2>1 DEF Pos, Rule
  <2>3. [d \in Depth |-> [used_rules |-> 0, first_rule |-> 0]] \in Infos
    BY DEF Infos
  <2> QED
    BY <2>2, <2>3 DEF NoRules, RuleTable, Infos
<1>2. \A d \in Depth : used(NoRules, d) = 0 /\ first(NoRules, d) = 0
  BY DEF NoRules, used, first
<1>3. \A d \in Depth : /\ Rules(NoRules, d) = {}
                       /\ Single(NoRules.rules_tbl, first(NoRules, d), used(NoRules, d))
  <2>1. \A k : k \notin 0 .. 0 + 0 - 1
    OBVIOUS
  <2> QED
    BY <1>2, <2>1 DEF Rules, Block, Single
<1>4. Laid(NoRules)
  BY <1>2 DEF Laid
<1> QED
  BY <1>1, <1>3, <1>4 DEF Sound, Kept

\* The prefixes of callers are masked already.
LEMMA RouteIs ==
  ASSUME NEW x \in Routes
  PROVE  /\ x.depth \in Depth /\ x.ip \in Nat /\ x.next_hop \in 0 .. GINDEX-1
         /\ masked(x.ip, x.depth) = x.ip
<1>1. /\ x.depth \in Depth /\ x.ip \in 0 .. 2^RTE_LPM_MAX_DEPTH - 1 /\ x.next_hop \in 0 .. GINDEX-1
      /\ x.ip % 2^(RTE_LPM_MAX_DEPTH - x.depth) = 0
  BY Lpm4Assumption DEF Depth
<1>2. x.ip \in Nat
  BY <1>1
<1>3. masked(x.ip, x.depth) = x.ip - 0
  BY <1>1 DEF masked
<1> QED
  BY <1>1, <1>2, <1>3

LEMMA AddKeeps ==
  ASSUME TableKept, NEW x \in Routes, rte_lpm_add(x.ip, x.depth, x.next_hop)
  PROVE  TableKept'
<1>1. PICK d \in Depth, ip \in Nat, h \in 0 .. GINDEX-1 :
        d = x.depth /\ ip = x.ip /\ h = x.next_hop /\ masked(x.ip, x.depth) = ip
  BY RouteIs
<1>2. PICK a : a = rule_add(rt, ip, d, h)
  OBVIOUS
<1>3. \/ UNCHANGED <<rt, routes>>
      \/ /\ a.status = "running" /\ rt' = a.rt
         /\ routes' = {y \in routes : ~(y.ip = ip /\ y.depth = d)}
                        \union {[ip |-> ip, depth |-> d, next_hop |-> h]}
  BY <1>1, <1>2 DEF rte_lpm_add
<1>4. CASE UNCHANGED <<rt, routes>>
  <2>1. Sound(rt)' /\ Kept(routes, rt)'
    BY <1>4 DEF TableKept, Sound, Kept, Laid, Rules, first, used, end
  <2> QED
    BY <2>1 DEF TableKept
<1>5. CASE /\ a.status = "running" /\ rt' = a.rt
           /\ routes' = {y \in routes : ~(y.ip = ip /\ y.depth = d)}
                          \union {[ip |-> ip, depth |-> d, next_hop |-> h]}
  <2>1. PICK v : v = [ip |-> ip, next_hop |-> h]
    OBVIOUS
  <2>2. PICK n : n = a.rt
    OBVIOUS
  <2>3. PICK r : r = rt
    OBVIOUS
  <2>4. Sound(r) /\ Kept(routes, r)
    BY <2>3 DEF TableKept
  <2>5. Changed(r, n, d, {q \in Rules(r, d) : q.ip # ip} \union {v})
    BY <1>2, <1>5, <2>1, <2>2, <2>3, <2>4, RuleAdded
  <2>6. PICK R : R = routes
    OBVIOUS
  <2>7. PICK S : S = routes'
    OBVIOUS
  <2>8. [ip |-> ip, depth |-> d, next_hop |-> h] = Entry(v, d)
    BY <2>1 DEF Entry
  <2>9. {[ip |-> ip, depth |-> d, next_hop |-> h]} = {Entry(q, d) : q \in {v}}
    BY <2>8
  <2>10. S = {y \in R : ~(y.ip = ip /\ y.depth = d)} \union {Entry(q, d) : q \in {v}}
    BY <1>5, <2>6, <2>7, <2>9
  <2>11. Kept(S, n)
    <3>1. PICK N : N = {v}
      OBVIOUS
    <3>2. NewRules(r, n, d, ip, N) /\ NewRoutes(R, S, d, ip, N) /\ Kept(R, r)
      BY <2>4, <2>5, <2>6, <2>10, <3>1 DEF NewRules, NewRoutes
    <3> QED
      BY <3>2, RoutesChanged
  <2>12. Sound(n)
    BY <2>5 DEF Changed
  <2>13. rt' = n
    BY <1>5, <2>2
  <2> QED
    BY <2>7, <2>11, <2>12, <2>13 DEF TableKept
<1> QED
  BY <1>3, <1>4, <1>5

LEMMA DeleteKeeps ==
  ASSUME TableKept, NEW x \in Routes, rte_lpm_delete(x.ip, x.depth)
  PROVE  TableKept'
<1>1. PICK d \in Depth, ip \in Nat : d = x.depth /\ ip = x.ip /\ masked(x.ip, x.depth) = ip
  BY RouteIs
<1>2. PICK r : r = rt
  OBVIOUS
<1>3. PICK k : k = rule_find(r, ip, d)
  OBVIOUS
<1>4. PICK n : n = rule_delete(r, k, d)
  OBVIOUS
<1>5. k >= 0 /\ rt' = n /\ routes' = {y \in routes : ~(y.ip = ip /\ y.depth = d)}
  BY <1>1, <1>2, <1>3, <1>4 DEF rte_lpm_delete
<1>6. Sound(r) /\ Kept(routes, r) /\ r \in RuleTable
  BY <1>2 DEF TableKept, Sound
<1>7. k \in first(r, d) .. first(r, d) + used(r, d) - 1 /\ ip = r.rules_tbl[k].ip
  BY <1>3, <1>5, <1>6, FindIs
<1>8. Changed(r, n, d, {q \in Rules(r, d) : q.ip # ip})
  BY <1>4, <1>6, <1>7, RuleDeleted
<1>9. Changed(r, n, d, {q \in Rules(r, d) : q.ip # ip} \union {})
  <2>1. {q \in Rules(r, d) : q.ip # ip} \union {} = {q \in Rules(r, d) : q.ip # ip}
    OBVIOUS
  <2> QED
    BY <1>8, <2>1
<1>10. PICK R : R = routes
  OBVIOUS
<1>11. PICK S : S = routes'
  OBVIOUS
<1>12. S = {y \in R : ~(y.ip = ip /\ y.depth = d)} \union {Entry(q, d) : q \in {}}
  BY <1>5, <1>10, <1>11
<1>13. Kept(S, n)
  <2>1. PICK N : N = {}
    OBVIOUS
  <2>2. NewRules(r, n, d, ip, N) /\ NewRoutes(R, S, d, ip, N) /\ Kept(R, r)
    BY <1>6, <1>9, <1>10, <1>12, <2>1 DEF NewRules, NewRoutes
  <2> QED
    BY <2>2, RoutesChanged
<1>14. Sound(n)
  BY <1>8 DEF Changed
<1> QED
  BY <1>5, <1>11, <1>13, <1>14 DEF TableKept

\* What the invariant says of the table.
LEMMA KeptIsRoutes ==
  ASSUME TableKept
  PROVE  RulesAreRoutes
<1>1. PICK r : r = rt
  OBVIOUS
<1>2. Sound(r) /\ Kept(routes, r) /\ r \in RuleTable /\ Laid(r)
  BY <1>1 DEF TableKept, Sound
<1>3. \A i \in Depth : first(r, i) \in Nat /\ used(r, i) \in Nat /\ end(r, i) = first(r, i) + used(r, i)
  BY <1>2, TableIs
<1> DEFINE seg(d) == r.rule_info[d].first_rule .. end(r, d) - 1
           stored(d) == {[ip |-> r.rules_tbl[k].ip, depth |-> d, next_hop |-> r.rules_tbl[k].next_hop] :
                           k \in seg(d)}
<1>4. \A d \in Depth : seg(d) = first(r, d) .. first(r, d) + used(r, d) - 1
  BY <1>3 DEF first
<1>5. \A d \in Depth : stored(d) = {Entry(q, d) : q \in Rules(r, d)}
  BY <1>4 DEF Rules, Block, Entry
<1>6. routes = UNION {stored(d) : d \in Depth}
  <2> HIDE DEF stored
  <2>1. \A x : x \in routes <=> x \in UNION {stored(d) : d \in Depth}
    BY <1>2, <1>5 DEF Kept
  <2> QED
    BY <2>1
<1>7. ASSUME NEW d \in Depth, used(r, d) > 0
      PROVE  Cardinality(stored(d)) = used(r, d)
  <2>1. PICK a \in Nat : a = first(r, d)
    BY <1>3
  <2>2. PICK n \in Nat : n = used(r, d)
    BY <1>3
  <2>3. PICK G : G = a .. a+n-1
    OBVIOUS
  <2>4. IsFiniteSet(G) /\ Cardinality(G) = n
    <3>1. a \in Int /\ a+n-1 \in Int /\ ~(a > a+n-1)
      BY <1>7, <2>2
    <3>2. IsFiniteSet(a .. a+n-1) /\ Cardinality(a .. a+n-1) = IF a > a+n-1 THEN 0 ELSE a+n-1-a+1
      BY <3>1, FS_Interval
    <3> QED
      BY <2>3, <3>1, <3>2
  <2>5. PICK T : T = r.rules_tbl
    OBVIOUS
  <2>6. Single(T, a, n)
    BY <1>2, <2>1, <2>2, <2>5 DEF Sound
  <2>7. PICK S : S = stored(d)
    OBVIOUS
  <2>8. S = {Entry(T[k], d) : k \in G}
    BY <1>4, <2>1, <2>2, <2>3, <2>5, <2>7 DEF Entry
  <2> DEFINE f == [k \in G |-> Entry(T[k], d)]
  <2>9. f \in [G -> S]
    BY <2>8
  <2>10. \A k, l \in G : f[k] = f[l] => k = l
    <3>1. \A k \in G : f[k].ip = T[k].ip
      BY DEF Entry
    <3>2. \A k, l \in G : T[k].ip = T[l].ip => k = l
      BY <2>3, <2>6 DEF Single
    <3> QED
      BY <3>1, <3>2
  <2>11. \A y \in S : \E k \in G : f[k] = y
    BY <2>8
  <2> HIDE DEF f
  <2>12. f \in Bijection(G, S)
    BY <2>9, <2>10, <2>11 DEF Bijection, Injection, Surjection, IsInjective
  <2>13. ExistsBijection(G, S)
    BY <2>12 DEF ExistsBijection
  <2>14. Cardinality(S) = n
    BY <2>4, <2>13, FS_Bijection
  <2> QED
    BY <2>2, <2>7, <2>14
<1>8. \A d, e \in Depth : used(r, d) > 0 /\ used(r, e) > 0 /\ d < e => end(r, d) <= first(r, e)
  BY <1>2 DEF Laid
<1> HIDE DEF stored
<1>9. /\ routes = UNION {stored(d) : d \in Depth}
      /\ \A d \in {i \in Depth : r.rule_info[i].used_rules > 0} :
           Cardinality(stored(d)) = r.rule_info[d].used_rules
      /\ \A d, e \in {i \in Depth : r.rule_info[i].used_rules > 0} :
           d < e => end(r, d) <= r.rule_info[e].first_rule
  BY <1>6, <1>7, <1>8 DEF used, first
<1> QED
  BY <1>1, <1>9 DEF RulesAreRoutes, stored

(* The rule table of the IPv4 longest-prefix match holds exactly the       *)
(* routes, one rule each, grouped by depth with the shorter ones first,    *)
(* after any history of rte_lpm_add, rte_lpm_delete and                    *)
(* rte_lpm_delete_all, for any widths and any size of the table.           *)
THEOREM RoutesKept == Spec => []RulesAreRoutes
<1>1. Init => TableKept
  BY EmptyKept DEF Init, TableKept
<1>2. TableKept /\ [Next]_vars => TableKept'
  <2> SUFFICES ASSUME TableKept, [Next]_vars
               PROVE  TableKept'
    OBVIOUS
  <2>1. CASE \E x \in Routes : rte_lpm_add(x.ip, x.depth, x.next_hop)
    BY <2>1, AddKeeps
  <2>2. CASE \E x \in Routes : rte_lpm_delete(x.ip, x.depth)
    BY <2>2, DeleteKeeps
  <2>3. CASE rte_lpm_delete_all
    <3>1. rt' = NoRules /\ routes' = {}
      BY <2>3 DEF rte_lpm_delete_all
    <3> QED
      BY <3>1, EmptyKept DEF TableKept
  <2>4. CASE UNCHANGED vars
    <3>1. rt' = rt /\ routes' = routes
      BY <2>4 DEF vars
    <3> QED
      BY <3>1 DEF TableKept, Sound, Kept, Laid, Rules, first, used, end
  <2> QED
    BY <2>1, <2>2, <2>3, <2>4 DEF Next
<1>3. TableKept => RulesAreRoutes
  BY KeptIsRoutes
<1> QED
  BY <1>1, <1>2, <1>3, PTL DEF Spec
=============================================================================
