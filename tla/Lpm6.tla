-------------------------------- MODULE Lpm6 --------------------------------
(***************************************************************************)
(* antlr/actual/ipv6/rte_lpm6: longest-prefix match over a first-level     *)
(* table indexed by the leading bits of the address (tbl24) and a pool of  *)
(* smaller tables (tbl8 groups), each indexed by the next bits.  A rule of *)
(* depth d fills every entry it covers with its next hop unless a deeper   *)
(* rule is there; an entry with deeper rules below points to a group.      *)
(*                                                                         *)
(* The code's 24 + 13 * 8 bits are TBL24_BITS + LEVELS * TBL8_BITS here.   *)
(* Table -1 is tbl24, table g >= 0 is the g-th group of tbl8; an address   *)
(* is a number of ADDR_BITS bits.                                          *)
(***************************************************************************)
EXTENDS Integers, SequencesExt

CONSTANTS
  TBL24_BITS,     \* 24 in the code
  TBL8_BITS,      \* 8
  LEVELS,         \* 13: how many groups an address can run through
  number_tbl8s,   \* groups in the pool
  max_rules,
  NextHops        \* the next hops callers use, a set of naturals

ASSUME Lpm6Assumption ==
  /\ TBL24_BITS \in Nat \ {0} /\ TBL8_BITS \in Nat \ {0} /\ LEVELS \in Nat
  /\ number_tbl8s \in Nat /\ max_rules \in Nat \ {0}
  /\ NextHops \subseteq Nat

ADDR_BITS == TBL24_BITS + LEVELS * TBL8_BITS
Addr  == 0 .. 2^ADDR_BITS - 1
Depth == 1 .. ADDR_BITS
TBL24 == -1
Group == 0 .. number_tbl8s - 1
Table == {TBL24} \union Group
Index(g) == 0 .. 2^(IF g = TBL24 THEN TBL24_BITS ELSE TBL8_BITS) - 1

VARIABLES
  rules_tbl,      \* the used part of the rules table, in its order
  tbl,            \* tbl24 and the tbl8 groups
  next_tbl8,      \* groups handed out so far
  status          \* what the last operation returned, or "assert" after assert(0)

vars == <<rules_tbl, tbl, next_tbl8, status>>

Entry == [valid : BOOLEAN, ext_entry : BOOLEAN, depth : 0..ADDR_BITS, next_hop : Nat]
NoEntry == [valid |-> FALSE, ext_entry |-> FALSE, depth |-> 0, next_hop |-> 0]
Leaf(d, h) == [valid |-> TRUE, ext_entry |-> FALSE, depth |-> d, next_hop |-> h]
Ext(g) == [valid |-> TRUE, ext_entry |-> TRUE, depth |-> 0, next_hop |-> g]

Rule == [ip : Addr, depth : Depth, next_hop : NextHops]

TypeOK ==
  /\ rules_tbl \in Seq(Rule) /\ Len(rules_tbl) <= max_rules
  /\ DOMAIN tbl = Table
  /\ \A g \in Table : tbl[g] \in [Index(g) -> Entry]
  /\ next_tbl8 \in 0..number_tbl8s
  /\ status \in {"0", "ENOSPC", "ENOENT", "assert", "nested"}

\* memset of tbl24 and tbl8
Zeroed == [g \in Table |-> [i \in Index(g) |-> NoEntry]]

\* rte_lpm6_create
Init ==
  /\ rules_tbl = <<>>
  /\ tbl = Zeroed
  /\ next_tbl8 = 0
  /\ status = "0"

-----------------------------------------------------------------------------
\* Keep the first d bits of an address and clear the others.
mask_ip(ip, d) == ip - (ip % 2^(ADDR_BITS - d))

\* The bits an address has been followed through once level l is indexed.
bits_covered(l) == TBL24_BITS + l * TBL8_BITS

\* The index of the address in its table of level l (0 is tbl24).
tbl_index(ip, l) ==
  (ip \div 2^(ADDR_BITS - bits_covered(l)))
    % 2^(IF l = 0 THEN TBL24_BITS ELSE TBL8_BITS)

\* The position of a rule in a rules table, 0 if it is not there.
rule_find(rules, ip, d) ==
  SelectInSeq(rules, LAMBDA r : r.ip = ip /\ r.depth = d)

\* The last rule takes the place of the one removed.
rule_delete(rules, k) == Front([rules EXCEPT ![k] = Last(rules)])

\* Mutant: the depths are not compared.
OverwriteAnyDepth(e, d, h) == IF ~e.valid \/ ~e.ext_entry THEN Leaf(d, h) ELSE e

\* An entry as a rule of depth d leaves it: entries of deeper rules stay.
Overwrite(e, d, h) ==
  IF ~e.valid \/ (~e.ext_entry /\ e.depth <= d) THEN Leaf(d, h) ELSE e

\* The groups that the entries at the given indices of table g lead to.
Children(t, g, is) == {t[g][i].next_hop : i \in {j \in is : t[g][j].ext_entry}}

\* The groups gs and all those under them, a level at a time.
Below(t, gs) ==
  LET upto[n \in 0..LEVELS] ==
        IF n = 0 THEN gs
        ELSE LET above == upto[n-1]
             IN  above \union UNION {Children(t, g, Index(g)) : g \in above}
  IN  upto[LEVELS]

\* The last add_step: fill the covered entries of table g and, expand_rule,
\* everything below the ones that are extended.
Fill(t, g, is, d, h) ==
  LET below == Below(t, Children(t, g, is))
  IN  [x \in Table |->
         [j \in Index(x) |->
            IF x \in below \/ (x = g /\ j \in is) THEN Overwrite(t[x][j], d, h)
            ELSE t[x][j]]]

\* Where rte_lpm6_add stands in the tables: at table at, having status
\* "1" for another add_step to come, "0" or "ENOSPC".
Begin(t, n) == [tbl |-> t, next_tbl8 |-> n, at |-> TBL24, status |-> "1"]

\* The add_step of level l.
add_step(s, l, r) ==
  LET i == tbl_index(r.ip, l)
      e == s.tbl[s.at][i]
      n == s.next_tbl8
      moved == IF e.valid THEN [j \in Index(n) |-> Leaf(e.depth, e.next_hop)]
               ELSE s.tbl[n]
  IN  IF r.depth <= bits_covered(l)
        THEN [s EXCEPT !.status = "0",
                       !.tbl = Fill(s.tbl, s.at, i .. i + 2^(bits_covered(l) - r.depth) - 1,
                                    r.depth, r.next_hop)]
      ELSE IF e.ext_entry
        THEN [s EXCEPT !.at = e.next_hop]
      ELSE IF n < number_tbl8s
        THEN [tbl |-> [s.tbl EXCEPT ![n] = moved, ![s.at][i] = Ext(n)],
              next_tbl8 |-> n + 1, at |-> n, status |-> "1"]
      ELSE [s EXCEPT !.status = "ENOSPC"]

\* The tables before each level of the loop of rte_lpm6_add.
Steps(s, r) ==
  LET step[l \in 0 .. LEVELS+1] ==
        IF l = 0 THEN Begin(s.tbl, s.next_tbl8)
        ELSE LET p == step[l-1] IN IF p.status = "1" THEN add_step(p, l-1, r) ELSE p
  IN  step

\* One rule put into the tables, as rte_lpm6_add does after rule_add.
Install(s, r) == Steps(s, r)[LEVELS + 1]

\* A set of tables, and the rules added to it one after the other until one
\* does not fit.
Readd(s, rules) ==
  LET after[k \in 0..Len(rules)] ==
        IF k = 0 THEN s
        ELSE LET p == after[k-1]
             IN  IF p.status = "ENOSPC" THEN p ELSE Install(p, rules[k])
  IN  after

\* Mutant: next_tbl8 is not reset.
RebuildKeepsCount(rules) == Readd(Begin(Zeroed, next_tbl8), rules)[Len(rules)]

\* Mutant: only tbl24 is cleared.
RebuildKeepsGroups(rules) ==
  Readd(Begin([tbl EXCEPT ![TBL24] = Zeroed[TBL24]], 0), rules)[Len(rules)]

\* Clear the tables and add every rule again, as the deletes do.
Rebuild(rules) == Readd(Begin(Zeroed, 0), rules)[Len(rules)]

-----------------------------------------------------------------------------
\* Adding a rule again while rebuilding must not fail: rte_lpm6_add would
\* then delete it in the middle of the loop over the rules ("nested").
Deleted(rules, st) ==
  LET s == Rebuild(rules)
  IN  /\ rules_tbl' = rules
      /\ tbl' = s.tbl
      /\ next_tbl8' = s.next_tbl8
      /\ status' = IF s.status = "ENOSPC" THEN "nested" ELSE st

Running == status \notin {"assert", "nested"}

\* Mutant: a failed add does not take its rule back.
AddKeepsRule(ip, d, h) ==
  LET r == [ip |-> mask_ip(ip, d), depth |-> d, next_hop |-> h]
      k == rule_find(rules_tbl, r.ip, d)
      rules == IF k # 0 THEN [rules_tbl EXCEPT ![k].next_hop = h]
               ELSE Append(rules_tbl, r)
      s == Install(Begin(tbl, next_tbl8), r)
  IN  /\ Running
      /\ k # 0 \/ Len(rules_tbl) < max_rules
      /\ rules_tbl' = rules
      /\ tbl' = s.tbl
      /\ next_tbl8' = s.next_tbl8
      /\ status' = s.status

rte_lpm6_add(ip, d, h) ==
  LET r == [ip |-> mask_ip(ip, d), depth |-> d, next_hop |-> h]
      k == rule_find(rules_tbl, r.ip, d)
      rules == IF k # 0 THEN [rules_tbl EXCEPT ![k].next_hop = h]
               ELSE Append(rules_tbl, r)
      s == Install(Begin(tbl, next_tbl8), r)
  IN  /\ Running
      /\ \/ /\ k = 0 /\ Len(rules_tbl) = max_rules
            /\ status' = "assert"
            /\ UNCHANGED <<rules_tbl, tbl, next_tbl8>>
         \/ /\ k # 0 \/ Len(rules_tbl) < max_rules
            /\ s.status = "0"
            /\ rules_tbl' = rules
            /\ tbl' = s.tbl
            /\ next_tbl8' = s.next_tbl8
            /\ status' = "0"
         \/ /\ k # 0 \/ Len(rules_tbl) < max_rules
            /\ s.status = "ENOSPC"
            /\ Deleted(rule_delete(rules, rule_find(rules, r.ip, d)), "ENOSPC")

\* Mutant: the rule leaves the rules table only.
DeleteWithoutRebuild(ip, d) ==
  LET k == rule_find(rules_tbl, mask_ip(ip, d), d)
  IN  /\ Running
      /\ k # 0
      /\ rules_tbl' = rule_delete(rules_tbl, k)
      /\ status' = "0"
      /\ UNCHANGED <<tbl, next_tbl8>>

rte_lpm6_delete(ip, d) ==
  LET k == rule_find(rules_tbl, mask_ip(ip, d), d)
  IN  /\ Running
      /\ \/ /\ k = 0
            /\ status' = "ENOENT"
            /\ UNCHANGED <<rules_tbl, tbl, next_tbl8>>
         \/ k # 0 /\ Deleted(rule_delete(rules_tbl, k), "0")

\* The rules left after each of the (ip, depth) pairs ps; missing ones are
\* skipped.
Removed(ps) ==
  LET left[k \in 0..Len(ps)] ==
        IF k = 0 THEN rules_tbl
        ELSE LET rules == left[k-1]
                 j == rule_find(rules, mask_ip(ps[k][1], ps[k][2]), ps[k][2])
             IN  IF j = 0 THEN rules ELSE rule_delete(rules, j)
  IN  left

rte_lpm6_delete_bulk_func(ps) == Running /\ Deleted(Removed(ps)[Len(ps)], "0")

rte_lpm6_delete_all ==
  /\ Running
  /\ rules_tbl' = <<>>
  /\ tbl' = Zeroed
  /\ next_tbl8' = 0
  /\ status' = "0"

Next ==
  \/ \E ip \in Addr, d \in Depth, h \in NextHops : rte_lpm6_add(ip, d, h)
  \/ \E ip \in Addr, d \in Depth : rte_lpm6_delete(ip, d)
  \/ \E p, q \in {<<r.ip, r.depth>> : r \in ToSet(rules_tbl)} :
       rte_lpm6_delete_bulk_func(<<p, q>>)
  \/ rte_lpm6_delete_all

Spec == Init /\ [][Next]_vars

-----------------------------------------------------------------------------
\* The entry a lookup inspects at each level, the last one it comes to for
\* the levels after that.
lookup_step(t, ip) ==
  LET e[l \in 0..LEVELS] ==
        IF l = 0 THEN t[TBL24][tbl_index(ip, 0)]
        ELSE LET p == e[l-1]
             IN  IF p.valid /\ p.ext_entry THEN t[p.next_hop][tbl_index(ip, l)] ELSE p
  IN  e

\* The next hop of an address, -1 for a miss.
rte_lpm6_lookup(t, ip) ==
  LET e == lookup_step(t, ip)[LEVELS] IN IF e.valid THEN e.next_hop ELSE -1

-----------------------------------------------------------------------------
Matches(rules, ip) == {r \in ToSet(rules) : mask_ip(ip, r.depth) = r.ip}

LongestMatch(rules, ip) ==
  LET m == Matches(rules, ip)
  IN  IF m = {} THEN -1
      ELSE (CHOOSE r \in m : \A q \in m : q.depth <= r.depth).next_hop

(* What the tables answer is the next hop of the most specific rule in the *)
(* rules table, for every address and after every sequence of adds,        *)
(* updates, failed adds and deletes.                                       *)
LookupIsLongestMatch ==
  Running => \A ip \in Addr : rte_lpm6_lookup(tbl, ip) = LongestMatch(rules_tbl, ip)

(* An add that fails for want of groups leaves every rule and every answer *)
(* as it was, although it has changed the tables on its way.               *)
FailedAddChangesNothing ==
  [][status' = "ENOSPC" =>
       /\ ToSet(rules_tbl') = ToSet(rules_tbl)
       /\ \A ip \in Addr : rte_lpm6_lookup(tbl', ip) = rte_lpm6_lookup(tbl, ip)]_vars

(* The rules that were in the tables fit in again when a delete rebuilds   *)
(* them, so rte_lpm6_add never fails, and never deletes, in its loop.      *)
RebuildNeverFails == status # "nested"

(* The groups handed out form a tree under tbl24: each is pointed to by    *)
(* exactly one entry, no other is pointed to, and those still free are     *)
(* zero, which add_step relies on when it links one to an invalid entry.   *)
(* All entries and counts are in their ranges.                             *)
GroupsFormTree ==
  /\ TypeOK
  /\ \A g \in Group :
       LET parents == {p \in UNION {{x} \X Index(x) : x \in Table} :
                         tbl[p[1]][p[2]].ext_entry /\ tbl[p[1]][p[2]].next_hop = g}
       IN  Cardinality(parents) = IF g < next_tbl8 THEN 1 ELSE 0
  /\ \A g \in Group : g >= next_tbl8 => tbl[g] = Zeroed[g]

(* The tables are no larger than the rules need: the groups in use are the *)
(* level-aligned proper prefixes of the rules (what makes a rebuild fit).  *)
GroupsNeeded ==
  LET inner == UNION {{<<l, mask_ip(r.ip, bits_covered(l))>> :
                         l \in {k \in 0..LEVELS : bits_covered(k) < r.depth}} :
                      r \in ToSet(rules_tbl)}
  IN  Running => next_tbl8 = Cardinality(inner)
=============================================================================
