-------------------------------- MODULE Lpm4 --------------------------------
(***************************************************************************)
(* antlr/actual/ipv4/rte_lpm: longest-prefix match for IPv4.  tbl24 is     *)
(* indexed by the leading bits of an address; an entry with rules longer   *)
(* than that points to a tbl8 group, indexed by the rest.  Unlike the IPv6 *)
(* table, a delete repairs the tables in place, from the next shorter rule *)
(* in the rule table.                                                      *)
(*                                                                         *)
(* The code's 24 + 8 bits are MAX_DEPTH_TBL24 + TBL8_BITS here, and its    *)
(* uint8_t, which holds a next hop or the number of a group, has GINDEX    *)
(* values.  The functions take and return the state they change: a rule    *)
(* table [rules_tbl, rule_info] and the tables [tbl24, tbl8].              *)
(***************************************************************************)
EXTENDS Integers, FiniteSetsExt

CONSTANTS
  MAX_DEPTH_TBL24,  \* 24 in the code
  TBL8_BITS,        \* 8
  NUM_GROUPS,       \* RTE_LPM_TBL8_NUM_GROUPS, 32768
  GINDEX,           \* values of a uint8_t, 256
  max_rules,
  Routes            \* what callers add and delete: [ip, depth, next_hop], with
                    \* the bits of ip beyond depth 0

RTE_LPM_MAX_DEPTH == MAX_DEPTH_TBL24 + TBL8_BITS

ASSUME Lpm4Assumption ==
  /\ MAX_DEPTH_TBL24 \in Nat \ {0} /\ TBL8_BITS \in Nat \ {0}
  /\ NUM_GROUPS \in Nat \ {0} /\ GINDEX \in 1..NUM_GROUPS /\ max_rules \in Nat \ {0}
  /\ \A x \in Routes : /\ x.depth \in 1..RTE_LPM_MAX_DEPTH
                       /\ x.ip \in 0 .. 2^RTE_LPM_MAX_DEPTH - 1
                       /\ x.ip % 2^(RTE_LPM_MAX_DEPTH - x.depth) = 0
                       /\ x.next_hop \in 0..GINDEX-1

Addr  == 0 .. 2^RTE_LPM_MAX_DEPTH - 1
Depth == 1 .. RTE_LPM_MAX_DEPTH
Index == 0 .. 2^MAX_DEPTH_TBL24 - 1
Group == 0 .. NUM_GROUPS - 1
Off   == 0 .. 2^TBL8_BITS - 1

VARIABLES
  rt,       \* the rule table
  tb,       \* the tables
  routes,   \* history: the rules callers have added and not deleted
  status    \* "running", "assert" after an assert(0), "overrun" after a write
            \* past the rule table

vars == <<rt, tb, routes, status>>

Zero24 == [valid |-> FALSE, ext_entry |-> FALSE, depth |-> 0, next_hop |-> 0]
Zero8  == [valid |-> FALSE, valid_group |-> FALSE, depth |-> 0, next_hop |-> 0]

NoRules == [rules_tbl |-> [k \in 0..max_rules-1 |-> [ip |-> 0, next_hop |-> 0]],
            rule_info |-> [d \in Depth |-> [used_rules |-> 0, first_rule |-> 0]]]
NoTables == [tbl24 |-> [i \in Index |-> Zero24],
             tbl8  |-> [g \in Group |-> [j \in Off |-> Zero8]]]

\* rte_lpm_create
Init ==
  /\ rt = NoRules
  /\ tb = NoTables
  /\ routes = {}
  /\ status = "running"

-----------------------------------------------------------------------------
\* ip & depth_to_mask(d)
masked(ip, d) == ip - (ip % 2^(RTE_LPM_MAX_DEPTH - d))

depth_to_range(d) ==
  2^((IF d <= MAX_DEPTH_TBL24 THEN MAX_DEPTH_TBL24 ELSE RTE_LPM_MAX_DEPTH) - d)

\* The rules of one depth lie together in the rule table: first_rule .. end - 1.
end(r, d) == r.rule_info[d].first_rule + r.rule_info[d].used_rules

\* The position of a rule, -1 if it is not there.
rule_find(r, ip, d) ==
  LET ks == {k \in r.rule_info[d].first_rule .. end(r, d) - 1 : r.rules_tbl[k].ip = ip}
  IN  IF ks = {} THEN -1 ELSE Min(ks)

\* Where the first rule of depth d goes: after those of the next shorter depth.
new_group_start(r, d) ==
  LET shorter == {i \in 1 .. d-1 : r.rule_info[i].used_rules > 0}
  IN  IF shorter = {} THEN 0 ELSE end(r, Max(shorter))

\* Mutant: first_rule of the group moved is not advanced.
move_back_in_place(s, i) ==
  IF s.rule_info[i].used_rules = 0 THEN s
  ELSE [s EXCEPT !.rules_tbl[end(s, i)] = s.rules_tbl[s.rule_info[i].first_rule]]

\* The first rule of the group moves behind its last.
move_back(s, i) ==
  IF s.rule_info[i].used_rules = 0 THEN s
  ELSE [s EXCEPT !.rules_tbl[end(s, i)] = s.rules_tbl[s.rule_info[i].first_rule],
                 !.rule_info[i].first_rule = @ + 1]

\* The last rule of the group moves before its first.
move_forward(s, i) ==
  IF s.rule_info[i].used_rules = 0 THEN s
  ELSE [s EXCEPT !.rules_tbl[s.rule_info[i].first_rule - 1] = s.rules_tbl[end(s, i) - 1],
                 !.rule_info[i].first_rule = @ - 1]

\* The rule table after each of the groups longer than d, from the longest
\* down to d + 1, has moved back ...
make_room(r, d) ==
  LET after[n \in 0 .. RTE_LPM_MAX_DEPTH - d] ==
        IF n = 0 THEN r ELSE move_back(after[n-1], RTE_LPM_MAX_DEPTH + 1 - n)
  IN  after

\* ... or, from d + 1 to the longest, forward.
close_gap(r, d) ==
  LET after[n \in 0 .. RTE_LPM_MAX_DEPTH - d] ==
        IF n = 0 THEN r ELSE move_forward(after[n-1], d + n)
  IN  after

\* The room is checked only in the longer groups and for the first rule of
\* a group; one more rule of the last group in a full table is written
\* behind the table.
rule_add(r, ip, d, h) ==
  LET k   == rule_find(r, ip, d)
      new == r.rule_info[d].used_rules = 0
      at  == IF new THEN new_group_start(r, d) ELSE end(r, d)
      s   == [r EXCEPT !.rule_info[d].first_rule = IF new THEN at ELSE @]
      m   == make_room(s, d)[RTE_LPM_MAX_DEPTH - d]
  IN  IF k >= 0
        THEN [status |-> "running", rt |-> [r EXCEPT !.rules_tbl[k].next_hop = h]]
      ELSE IF \/ new /\ at = max_rules
              \/ \E i \in d+1 .. RTE_LPM_MAX_DEPTH : end(s, i) = max_rules
        THEN [status |-> "assert", rt |-> r]
      ELSE IF at = max_rules
        THEN [status |-> "overrun", rt |-> r]
      ELSE [status |-> "running",
            rt |-> [m EXCEPT !.rules_tbl[at] = [ip |-> ip, next_hop |-> h],
                             !.rule_info[d].used_rules = @ + 1]]

\* The last rule of the depth takes the place of the one deleted, and the
\* longer groups move one place forward.
rule_delete(r, k, d) ==
  LET s == [r EXCEPT !.rules_tbl[k] = r.rules_tbl[end(r, d) - 1]]
      m == close_gap(s, d)[RTE_LPM_MAX_DEPTH - d]
  IN  [m EXCEPT !.rule_info[d].used_rules = @ - 1]

\* The depth of the longest rule for ip shorter than d, 0 if there is none.
find_previous_rule(r, ip, d) ==
  Max({0} \union {p \in 1 .. d-1 : rule_find(r, masked(ip, p), p) >= 0})

-----------------------------------------------------------------------------
index(ip) == ip \div 2^TBL8_BITS
off(ip)   == ip % 2^TBL8_BITS
range24(ip, d) == index(ip) .. index(ip) + depth_to_range(d) - 1
range8(ip, d)  == off(ip) .. off(ip) + depth_to_range(d) - 1

Free(t) == {g \in Group : ~t.tbl8[g][0].valid_group}

\* The first free group, cleaned and marked, as the tbl8 it becomes.
tbl8_alloc == [j \in Off |-> [Zero8 EXCEPT !.valid_group = (j = 0)]]

\* Mutant: shorter rules are not overwritten, longer ones are.
covers_deeper(e, d) == ~e.valid \/ e.depth >= d

\* May a rule of depth d replace what an entry holds?
covers(e, d) == ~e.valid \/ e.depth <= d

set8(e, d, h) == [e EXCEPT !.valid = TRUE, !.depth = d, !.next_hop = h]

\* Entries that the rule does not replace are taken for extended ones, their
\* next hop for the number of a group.
add_depth_small(t, ip, d, h) ==
  LET set(i) == ~t.tbl24[i].valid \/ (~t.tbl24[i].ext_entry /\ t.tbl24[i].depth <= d)
      gs == {t.tbl24[i].next_hop : i \in {j \in range24(ip, d) : ~set(j)}}
  IN  [tbl24 |-> [i \in Index |->
                    IF i \in range24(ip, d) /\ set(i)
                      THEN [valid |-> TRUE, ext_entry |-> FALSE, depth |-> d, next_hop |-> h]
                      ELSE t.tbl24[i]],
       tbl8  |-> [g \in Group |-> [j \in Off |->
                    IF g \in gs /\ covers(t.tbl8[g][j], d)
                      THEN [valid |-> TRUE, valid_group |-> TRUE, depth |-> d, next_hop |-> h]
                      ELSE t.tbl8[g][j]]]]

\* A rule longer than tbl24 goes into the group of its entry, or into a new
\* one filled with what the entry said before.
add_depth_big(t, ip, d, h) ==
  LET e == t.tbl24[index(ip)]
      g == IF e.valid /\ e.ext_entry THEN e.next_hop ELSE Min(Free(t))
      old == IF ~e.valid THEN tbl8_alloc
             ELSE IF ~e.ext_entry
               THEN [j \in Off |-> set8(tbl8_alloc[j], e.depth, e.next_hop)]
             ELSE t.tbl8[g]
  IN  [tbl24 |-> IF e.valid /\ e.ext_entry THEN t.tbl24
                 ELSE [t.tbl24 EXCEPT ![index(ip)] =
                        [valid |-> TRUE, ext_entry |-> TRUE, depth |-> 0, next_hop |-> g % GINDEX]],
       tbl8 |-> [t.tbl8 EXCEPT ![g] =
                  [j \in Off |-> IF j \in range8(ip, d) /\ covers(old[j], d)
                                   THEN set8(old[j], d, h) ELSE old[j]]]]

\* Does a rule longer than tbl24 need a group, and there is none?
NoGroup(t, ip, d) ==
  /\ d > MAX_DEPTH_TBL24
  /\ ~(t.tbl24[index(ip)].valid /\ t.tbl24[index(ip)].ext_entry)
  /\ Free(t) = {}

\* The rule is replaced by the next shorter one, of depth sd with next hop
\* sh, or by nothing (sd = 0).  A replaced tbl8 entry loses valid_group.
delete_depth_small(t, ip, d, sd, sh) ==
  LET set(i) == ~t.tbl24[i].ext_entry /\ t.tbl24[i].depth <= d
      gs == {t.tbl24[i].next_hop : i \in {j \in range24(ip, d) : ~set(j)}}
      new24(e) == IF sd = 0 THEN [e EXCEPT !.valid = FALSE]
                  ELSE [valid |-> TRUE, ext_entry |-> FALSE, depth |-> sd, next_hop |-> sh]
      new8(e)  == IF sd = 0 THEN [e EXCEPT !.valid = FALSE] ELSE set8(Zero8, sd, sh)
  IN  [tbl24 |-> [i \in Index |->
                    IF i \in range24(ip, d) /\ set(i) THEN new24(t.tbl24[i]) ELSE t.tbl24[i]],
       tbl8  |-> [g \in Group |-> [j \in Off |->
                    IF g \in gs /\ t.tbl8[g][j].depth <= d
                      THEN new8(t.tbl8[g][j]) ELSE t.tbl8[g][j]]]]

\* Mutant: the group stays marked.
tbl8_keep(t8) == t8

\* The mark of a group is in its first entry.
tbl8_free(t8) == [t8 EXCEPT ![0].valid_group = FALSE]

\* tbl8_recycle_check: -EINVAL
empty(t8) == \A j \in Off : ~t8[j].valid

\* tbl8_recycle_check: the group holds one rule that fits tbl24
uniform(t8) ==
  /\ t8[0].valid /\ t8[0].depth < MAX_DEPTH_TBL24
  /\ \A j \in Off : t8[j].depth = t8[0].depth

delete_depth_big(t, ip, d, sd, sh) ==
  LET i  == index(ip)
      g  == t.tbl24[i].next_hop
      vg == t.tbl8[g][0].valid_group
      t8 == [j \in Off |->
              IF j \in range8(ip, d) /\ t.tbl8[g][j].depth <= d
                THEN IF sd = 0 THEN [t.tbl8[g][j] EXCEPT !.valid = FALSE]
                     ELSE [valid |-> TRUE, valid_group |-> vg, depth |-> sd, next_hop |-> sh]
                ELSE t.tbl8[g][j]]
  IN  IF empty(t8)
        THEN [tbl24 |-> [t.tbl24 EXCEPT ![i].valid = FALSE],
              tbl8 |-> [t.tbl8 EXCEPT ![g] = tbl8_free(t8)]]
      ELSE IF uniform(t8)
        THEN [tbl24 |-> [t.tbl24 EXCEPT ![i] =
                [valid |-> TRUE, ext_entry |-> FALSE,
                 depth |-> t8[0].depth, next_hop |-> t8[0].next_hop]],
              tbl8 |-> [t.tbl8 EXCEPT ![g] = tbl8_free(t8)]]
      ELSE [t EXCEPT !.tbl8[g] = t8]

-----------------------------------------------------------------------------
\* assert(0) ends the program; so may a write behind the rule table.
rte_lpm_add(ip, d, h) ==
  LET p == masked(ip, d)
      r == rule_add(rt, p, d, h)
  IN  /\ status = "running"
      /\ IF r.status # "running" THEN status' = r.status /\ UNCHANGED <<rt, tb, routes>>
         ELSE IF NoGroup(tb, p, d) THEN status' = "assert" /\ UNCHANGED <<rt, tb, routes>>
         ELSE /\ rt' = r.rt
              /\ tb' = IF d <= MAX_DEPTH_TBL24 THEN add_depth_small(tb, p, d, h)
                       ELSE add_depth_big(tb, p, d, h)
              /\ routes' = {x \in routes : ~(x.ip = p /\ x.depth = d)}
                             \union {[ip |-> p, depth |-> d, next_hop |-> h]}
              /\ UNCHANGED status

rte_lpm_delete(ip, d) ==
  LET p  == masked(ip, d)
      k  == rule_find(rt, p, d)
      r  == rule_delete(rt, k, d)
      sd == find_previous_rule(r, ip, d)
      sh == IF sd = 0 THEN 0
            ELSE r.rules_tbl[rule_find(r, masked(ip, sd), sd)].next_hop
  IN  /\ status = "running"
      /\ k >= 0
      /\ rt' = r
      /\ tb' = IF d <= MAX_DEPTH_TBL24 THEN delete_depth_small(tb, p, d, sd, sh)
               ELSE delete_depth_big(tb, p, d, sd, sh)
      /\ routes' = {x \in routes : ~(x.ip = p /\ x.depth = d)}
      /\ UNCHANGED status

rte_lpm_delete_all ==
  /\ status = "running"
  /\ rt' = NoRules
  /\ tb' = NoTables
  /\ routes' = {}
  /\ UNCHANGED status

Next ==
  \/ \E x \in Routes : rte_lpm_add(x.ip, x.depth, x.next_hop)
  \/ \E x \in Routes : rte_lpm_delete(x.ip, x.depth)
  \/ rte_lpm_delete_all

Spec == Init /\ [][Next]_vars

-----------------------------------------------------------------------------
\* The next hop of an address, -1 for a miss.
rte_lpm_lookup(ip) ==
  LET e == tb.tbl24[index(ip)]
      f == IF e.valid /\ e.ext_entry THEN tb.tbl8[e.next_hop][off(ip)] ELSE e
  IN  IF f.valid THEN f.next_hop ELSE -1

\* The reference: the next hop of the longest route that ip falls under.
LongestMatch(ip) ==
  LET ms == {x \in routes : masked(ip, x.depth) = x.ip}
  IN  IF ms = {} THEN -1
      ELSE (CHOOSE x \in ms : \A y \in ms : y.depth <= x.depth).next_hop

(* After any history of adds, updates and deletes a lookup returns the     *)
(* next hop of the most specific route, which is what rte_lpm_lookup       *)
(* promises.                                                               *)
LookupIsLongestMatch ==
  \A ip \in Addr : rte_lpm_lookup(ip) = LongestMatch(ip)

(* The rule table holds exactly the routes, those of one depth together    *)
(* and shorter ones first, although rule_add and rule_delete move only one *)
(* rule of each longer depth.                                              *)
RulesAreRoutes ==
  LET stored(d) == {[ip |-> rt.rules_tbl[k].ip, depth |-> d, next_hop |-> rt.rules_tbl[k].next_hop] :
                      k \in rt.rule_info[d].first_rule .. end(rt, d) - 1}
      used == {d \in Depth : rt.rule_info[d].used_rules > 0}
  IN  /\ routes = UNION {stored(d) : d \in Depth}
      /\ \A d \in used : Cardinality(stored(d)) = rt.rule_info[d].used_rules
      /\ \A d, e \in used : d < e => end(rt, d) <= rt.rule_info[e].first_rule

(* A tbl8 group is marked as used if and only if an entry of tbl24 points  *)
(* to it, and no two do: groups are neither leaked nor handed out twice.   *)
GroupsOwned ==
  \A g \in Group :
    LET owners == {i \in Index : /\ tb.tbl24[i].valid /\ tb.tbl24[i].ext_entry
                                 /\ tb.tbl24[i].next_hop = g}
    IN  Cardinality(owners) = IF tb.tbl8[g][0].valid_group THEN 1 ELSE 0
=============================================================================
