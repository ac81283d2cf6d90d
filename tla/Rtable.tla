------------------------------- MODULE Rtable -------------------------------
(***************************************************************************)
(* antlr/actual/15745: an IPv4 routing trie that consumes an address a     *)
(* fixed number of bits at a time.  ipv4_rtable_create builds a linked     *)
(* trie and copies it to an array, in which child 0 means none; four       *)
(* lookups walk it: one address at a time, as a foreach, transformed, and  *)
(* level by level over the whole batch.                                    *)
(*                                                                         *)
(* An address is the sequence of its digits of IPV4_RTABLE_ENTRY_NUM_BITS  *)
(* bits, most significant first; a route is a prefix of one, because       *)
(* generate_rib_entries makes masks of whole bytes.                        *)
(***************************************************************************)
EXTENDS Segments

CONSTANTS
  DIGITS,       \* digits of an address, 8 in the code
  Digit,        \* the digits
  CACHED,       \* levels read without a switch: 2 in the code (shift >= 24)
  fallback_port_id

Node(port) == [port_id |-> port, children |-> [x \in Digit |-> 0]]

\* ipv4_rtable_writeable_entry_alloc gives out entry_id 0, 1, 2, ...; the
\* root is entry 0, and entry k is the k+1st of the sequence.
Empty == <<Node(fallback_port_id)>>

\* Mutant: the entries on the way get the route's port too.
AddRouteAlongPath(t, p, port) ==
  LET grow(a, x) ==
        IF a.t[a.id + 1].children[x] # 0
          THEN [t |-> a.t, id |-> a.t[a.id + 1].children[x]]
          ELSE [t |-> Append([a.t EXCEPT ![a.id + 1].children[x] = Len(a.t)], Node(port)),
                id |-> Len(a.t)]
      end == FoldLeft(grow, [t |-> t, id |-> 0], p)
  IN  [end.t EXCEPT ![end.id + 1].port_id = port]

\* One iteration of the loop over rib_entries: the missing entries are made
\* with the fallback port, the last one gets the route's.
AddRoute(t, p, port) ==
  LET grow(a, x) ==
        IF a.t[a.id + 1].children[x] # 0
          THEN [t |-> a.t, id |-> a.t[a.id + 1].children[x]]
          ELSE [t |-> Append([a.t EXCEPT ![a.id + 1].children[x] = Len(a.t)],
                             Node(fallback_port_id)),
                id |-> Len(a.t)]
      end == FoldLeft(grow, [t |-> t, id |-> 0], p)
  IN  [end.t EXCEPT ![end.id + 1].port_id = port]

-----------------------------------------------------------------------------
\* Where a lookup stands: entry_id is to be read with digit n.
Root == [n |-> 0, entry_id |-> 0, port_id |-> fallback_port_id, end |-> FALSE]

\* The body of the loop: the entry's port counts unless it is the fallback
\* port, and the loop ends without a child or without a further digit.
Visit(t, addr, l) ==
  LET e == t[l.entry_id + 1]
      child == e.children[addr[l.n + 1]]
  IN  [n |-> l.n + 1, entry_id |-> child,
       port_id |-> IF e.port_id # fallback_port_id THEN e.port_id ELSE l.port_id,
       end |-> child = 0 \/ l.n + 1 = DIGITS]

\* The body repeated, at most k times.
VisitUpTo(t, addr, l, k) ==
  FoldLeft(LAMBDA a, j : IF a.end THEN a ELSE Visit(t, addr, a), l, UpTo(k))

\* ipv4_rtable_lookup
rtable_lookup(t, addr) == VisitUpTo(t, addr, Root, DIGITS).port_id

\* ipv4_rtable_lookup_nogoto, which counts the expensive levels in nop
lookup_nogoto(t, addr) ==
  LET l == VisitUpTo(t, addr, Root, DIGITS)
  IN  Store([nop |-> IF l.n > CACHED THEN l.n - CACHED ELSE 0], l.port_id)

nogoto_count(t, addrs) == SumOver([nop |-> 0], LAMBDA a : lookup_nogoto(t, a).add, addrs)

\* ipv4_rtable_lookup_goto, from fpp_start: the cached levels at once
FirstLevels(t, addr) ==
  LET l == VisitUpTo(t, addr, Root, CACHED)
  IN  IF l.end THEN Store(Nothing, l.port_id) ELSE Switch(1, l, Nothing)

\* Mutant: the result is stored where the switch is.
NextLevelTooEarly(t, addr, l) ==
  LET v == Visit(t, addr, l)
  IN  IF v.end THEN Store([nop |-> 1], l.port_id) ELSE Switch(1, v, [nop |-> 1])

\* from fpp_label_1, in the middle of the loop
NextLevel(t, addr, l) ==
  LET v == Visit(t, addr, l)
  IN  IF v.end THEN Store([nop |-> 1], v.port_id) ELSE Switch(1, v, [nop |-> 1])

\* ipv4_rtable_lookup_multi: the batch is taken down level by level; a slot
\* without a child is finished and keeps its entry.
lookup_multi(t, addrs) ==
  LET n == Len(addrs)
      port(a, i)  == t[a.entry_id[i] + 1].port_id
      child(a, i, d) == t[a.entry_id[i] + 1].children[addrs[i][d + 1]]
      level(a, d) ==
        IF Cardinality(a.finished) = n THEN a
        ELSE [port_id |-> [i \in 1..n |->
                IF i \notin a.finished /\ port(a, i) # fallback_port_id THEN port(a, i)
                ELSE a.port_id[i]],
              entry_id |-> [i \in 1..n |->
                IF i \notin a.finished /\ child(a, i, d) # 0 THEN child(a, i, d)
                ELSE a.entry_id[i]],
              finished |-> a.finished \union {i \in 1..n : child(a, i, d) = 0}]
  IN  FoldLeft(level, [port_id |-> [i \in 1..n |-> fallback_port_id],
                       entry_id |-> [i \in 1..n |-> 0], finished |-> {}],
               UpTo(DIGITS)).port_id

-----------------------------------------------------------------------------
\* The reference: of the routes, in the order they were added, the last one
\* for the longest prefix of addr whose port is not the fallback port.
LongestRoute(routes, addr) ==
  LET latest(p)  == routes[SelectLastInSeq(routes, LAMBDA r : r.prefix = p)].port
      matching == {r.prefix : r \in {q \in ToSet(routes) : IsPrefix(q.prefix, addr)}}
      visible  == {p \in matching : latest(p) # fallback_port_id}
  IN  IF visible = {} THEN fallback_port_id
      ELSE latest(CHOOSE p \in visible : \A q \in visible : Len(q) <= Len(p))
=============================================================================
