------------------------------ MODULE BatchApps -----------------------------
(***************************************************************************)
(* The batch programs of antlr/actual that look packets up in a table:     *)
(* cuckoo, ht-cuckoo, mica, the routing trie of 15745, aho-corasick and    *)
(* the microbenchmarks.  Every program has the same life: main fills the   *)
(* table, and calls process_batch for BATCH_SIZE packets after the other.  *)
(* All but aho-corasick exist in a version transformed by G-Opt; this      *)
(* process_batch runs the segments of the program's own module on the      *)
(* scheduler of Fpp.  app says which program this is; the modules of the   *)
(* programs are instantiated for what their segments compute.              *)
(***************************************************************************)
EXTENDS Fpp, Segments

CONSTANTS
  Apps,                      \* the programs considered
  NUM_KEYS, NUM_PKTS,        \* packets of the table programs and of the others
  MaxKey,                    \* bound: rand() gives keys 1..MaxKey
  NUM_BKT, SLOTS,                              \* cuckoo, ht-cuckoo
  HT_INDEX_N, SLOTS_PER_BKT, HT_LOG_CAP, Tags, \* mica
  DIGITS, Digit, CACHED, fallback_port_id,     \* 15745
  PortIds, RouteDepths, MaxRoutes,             \* bounds on its routes
  ALPHA_SIZE, Dfas, AHO_MAX_STATES, OUT_ARR,   \* aho-corasick
  PatternLens, PacketLens, MaxPatterns,        \* bounds on its patterns and packets
  LOG_CAP, DEPTH, COMPUTE, NBH                 \* the microbenchmarks

TableApps == {"cuckoo", "ht-cuckoo", "mica"}
MicroApps == {"simple", "locals", "pointer-chasing", "synthetic-divergence", "random-walk"}

ASSUME BatchAppsAssumption ==
  /\ Apps \subseteq TableApps \union {"rtable", "aho-corasick"} \union MicroApps
  /\ NUM_KEYS % BATCH_SIZE = 0 /\ NUM_PKTS % BATCH_SIZE = 0
  /\ HT_LOG_CAP = NUM_KEYS                     \* mica/param.h
  /\ \A d \in RouteDepths : d < DIGITS         \* generate_rib_entries: at most 24 bits
  /\ PssWrap = "BATCH_SIZE" /\ EndWrap = "BATCH_SIZE"

C == INSTANCE Cuckoo
M == INSTANCE Mica
R == INSTANCE Rtable
A == INSTANCE Aho
U == INSTANCE Micro

Key  == 1 .. MaxKey
Word == 0 .. Max({MaxKey, NUM_BKT - 1})        \* what cuckoo's hash() is applied to
Address == [1..DIGITS -> Digit]
RoutePrefixes == UNION {[1..d -> Digit] : d \in RouteDepths}
Contents(lens) == UNION {[1..n -> A!Byte] : n \in lens}
Packet == [dfa_id : Dfas, content : Contents(PacketLens)]

VARIABLES
  app,
  stage,        \* of main: "fill" the table or "run" the lookups; aho-corasick: "built"
  mem,          \* the program's table
  added,        \* the rib entries of 15745, the patterns of aho-corasick
  pkts,         \* the packets: keys, addresses or indices
  base,         \* the loop index i of main: first packet of the current batch
  loc,          \* the locals of every slot
  total,        \* the global counters
  out           \* the results stored for each packet

fillVars == <<app, stage, mem, added, pkts>>
vars == <<fppVars, fillVars, base, loc, total, out>>

Counters ==
  CASE app = "cuckoo" -> C!Zero
    [] app = "mica" -> M!Zero
    [] app = "rtable" -> [nop |-> 0]
    [] app = "aho-corasick" -> A!Zero
    [] OTHER -> U!Zero

\* The tables main may start from: allocated and cleared, nothing inserted.
Allocated(a) ==
  CASE a \in {"cuckoo", "ht-cuckoo"} -> {C!Cleared(h) : h \in [Word -> C!Bkt]}
    [] a = "mica" -> {M!Created(h) : h \in [Key -> Tags \X (0..HT_INDEX_N-1)]}
    [] a = "rtable" -> {R!Empty}
    [] a = "aho-corasick" -> {A!aho_init}
    [] OTHER -> {Nothing}

Init ==
  /\ pc = "caller" /\ nb_pkts = BATCH_SIZE /\ I = 0 /\ iMask = {}
  /\ batch_rips = [i \in Slot |-> fpp_start]
  /\ app \in Apps
  /\ stage = "fill"
  /\ mem \in Allocated(app)
  /\ added = <<>>
  /\ pkts = <<>>
  /\ base = 0
  /\ loc = [i \in Slot |-> Nothing]
  /\ total = Counters
  /\ out = <<>>

-----------------------------------------------------------------------------
\* Filling the tables.
Filling == stage = "fill" /\ UNCHANGED <<fppVars, app, base, loc, total>>

Keyed(m, key) ==
  /\ Filling
  /\ Len(pkts) < NUM_KEYS
  /\ mem' = m
  /\ pkts' = Append(pkts, key)
  /\ UNCHANGED <<stage, added, out>>

\* cuckoo_init of the two programs
CuckooInsert(key, coin) ==
  app = "cuckoo" /\ Keyed(C!Insert(mem, Len(pkts), key, coin), key)

HtCuckooInsert(key, coin) ==
  app = "ht-cuckoo" /\ Keyed(C!Insert(mem, Len(pkts), key, coin), key)

MicaPut(K, replace) ==
  app = "mica" /\ Keyed(M!Put(mem, Len(pkts), K, replace), K)

AddRoute(p, port) ==
  /\ app = "rtable"
  /\ Filling
  /\ Len(added) < MaxRoutes
  /\ mem' = R!AddRoute(mem, p, port)
  /\ added' = Append(added, [prefix |-> p, port |-> port])
  /\ UNCHANGED <<stage, pkts, out>>

AddPattern(d, w) ==
  /\ app = "aho-corasick"
  /\ Filling
  /\ Len(added) < MaxPatterns
  /\ A!Addable(mem[d], w)
  /\ mem' = [mem EXCEPT ![d] = A!aho_add_pattern(@, w, Len(added))]
  /\ added' = Append(added, [dfa_id |-> d, content |-> w])
  /\ UNCHANGED <<stage, pkts, out>>

AhoBuild ==
  /\ app = "aho-corasick"
  /\ Filling
  /\ \A d \in Dfas : A!Buildable(mem[d])
  /\ mem' = A!Built(mem)
  /\ stage' = "built"
  /\ UNCHANGED <<added, pkts, out>>

-----------------------------------------------------------------------------
\* main, from the filled table to the first lookup.
Start(m, ps) ==
  /\ stage = IF app = "aho-corasick" THEN "built" ELSE "fill"
  /\ stage' = "run"
  /\ mem' = m
  /\ pkts' = ps
  /\ out' = [k \in DOMAIN ps |-> Nothing]
  /\ UNCHANGED <<fppVars, app, added, base, loc, total>>

\* cuckoo looks its keys up in the order it inserted them.
CuckooStart == app = "cuckoo" /\ Len(pkts) = NUM_KEYS /\ Start(mem, pkts)

\* So does each thread of ht-cuckoo, again and again.  The threads only read
\* the table, and keep their sums to themselves: this is one of them, in its
\* first round.
HtCuckooStart == app = "ht-cuckoo" /\ Len(pkts) = NUM_KEYS /\ Start(mem, pkts)

\* mica shuffles them.
MicaStart ==
  /\ app = "mica" /\ Len(pkts) = NUM_KEYS
  /\ \E p \in Permutations(DOMAIN pkts) : Start(mem, [k \in DOMAIN pkts |-> pkts[p[k]]])

RtableStart == app = "rtable" /\ \E ps \in [1..NUM_PKTS -> Address] : Start(mem, ps)

AhoStart == app = "aho-corasick" /\ \E ps \in [1..NUM_PKTS -> Packet] : Start(mem, ps)

\* The microbenchmarks fill their array and draw packets at random.
RandomPkts == [1..NUM_PKTS -> U!Index]

SimpleStart == app = "simple" /\ \E ps \in RandomPkts : Start(U!Identity, ps)

LocalsStart == app = "locals" /\ \E ps \in RandomPkts : Start(U!Identity, ps)

PointerChasingStart ==
  /\ app = "pointer-chasing"
  /\ \E ht_log \in [U!Index -> U!Index], ps \in RandomPkts : Start(ht_log, ps)

DivergenceStart ==
  /\ app = "synthetic-divergence"
  /\ \E cache \in [U!Index -> [1..NBH -> U!Index]], ps \in RandomPkts : Start(cache, ps)

\* random-walk starts from every node in turn.
RandomWalkStart ==
  /\ app = "random-walk"
  /\ \E nodes \in U!rand_walk_init : Start(nodes, UpTo(LOG_CAP))

-----------------------------------------------------------------------------
\* main calls process_batch(&pkts[i]) for i = 0, BATCH_SIZE, ...
Call ==
  /\ app # "aho-corasick"
  /\ stage = "run"
  /\ base < Len(pkts)
  /\ FppEnter(BATCH_SIZE)
  /\ UNCHANGED <<fillVars, base, loc, total, out>>

pkt == pkts[base + I + 1]
l == loc[I]

\* A segment of the current packet, with its effect r.
Segment(label, r) ==
  /\ At(label)
  /\ loc' = [loc EXCEPT ![I] = r.loc]
  /\ total' = Plus(total, r.add)
  /\ out' = IF r.out = Nothing THEN out ELSE [out EXCEPT ![base + I + 1] = r.out]
  /\ IF r.to = fpp_end THEN FallThrough ELSE FPP_PSS(r.to)
  /\ UNCHANGED <<fillVars, base>>

Cuckoo ==
  /\ app = "cuckoo"
  /\ \/ Segment(fpp_start, C!FirstBucket(mem, pkt))
     \/ Segment(1, C!SecondBucket(mem, l))
     \/ Segment(2, C!LastBucket(mem, l))

HtCuckoo ==
  /\ app = "ht-cuckoo"
  /\ \/ Segment(fpp_start, C!ht_FirstBucket(mem, pkt))
     \/ Segment(1, C!ht_SecondBucket(mem, l))
     \/ Segment(2, C!ht_LastBucket(mem, l))

Mica ==
  /\ app = "mica"
  /\ \/ Segment(fpp_start, M!IndexBucket(mem, pkt))
     \/ Segment(1, M!InspectBucket(mem, l))
     \/ Segment(2, M!InspectEntry(mem, l))

Rtable ==
  /\ app = "rtable"
  /\ \/ Segment(fpp_start, R!FirstLevels(mem, pkt))
     \/ Segment(1, R!NextLevel(mem, pkt, l))

Simple ==
  /\ app = "simple"
  /\ \/ Segment(fpp_start, U!simple_Address(pkt))
     \/ Segment(1, U!simple_Add(mem, l))

Locals ==
  /\ app = "locals"
  /\ \/ Segment(fpp_start, U!locals_Address(pkt))
     \/ Segment(1, U!locals_Add(mem, l))

PointerChasing ==
  /\ app = "pointer-chasing"
  /\ \/ Segment(fpp_start, U!chase_Start(pkt))
     \/ Segment(1, U!chase_Next(mem, l))

Divergence ==
  /\ app = "synthetic-divergence"
  /\ \/ Segment(fpp_start, U!diverge_Start(pkt))
     \/ Segment(1, U!diverge_Next(mem, l))

RandomWalk ==
  /\ app = "random-walk"
  /\ \/ Segment(fpp_start, U!walk_Start(pkt))
     \/ \E nbh \in 1..NBH : Segment(1, U!walk_Next(mem, l, nbh))

\* ids_func of noopt.c: a batch is matched and counted.
Aho ==
  LET b  == SubSeq(pkts, base + 1, base + BATCH_SIZE)
      ms == A!process_batch(mem, b)
  IN  /\ app = "aho-corasick"
      /\ stage = "run"
      /\ base < Len(pkts)
      /\ total' = Plus(total, A!Counted(b, ms))
      /\ out' = [k \in DOMAIN out |-> IF k - base \in DOMAIN ms THEN <<ms[k - base]>> ELSE out[k]]
      /\ base' = base + BATCH_SIZE
      /\ UNCHANGED <<fppVars, fillVars, loc>>

Finish ==
  /\ FppEnd
  /\ base' = IF pc' = "caller" THEN base + BATCH_SIZE ELSE base
  /\ UNCHANGED <<fillVars, loc, total, out>>

Skip == Revisit /\ UNCHANGED <<fillVars, base, loc, total, out>>

Fill ==
  \/ \E key \in Key, coin \in BOOLEAN : CuckooInsert(key, coin) \/ HtCuckooInsert(key, coin)
  \/ \E K \in Key, replace \in 1..SLOTS_PER_BKT : MicaPut(K, replace)
  \/ \E p \in RoutePrefixes, port \in PortIds : AddRoute(p, port)
  \/ \E d \in Dfas, w \in Contents(PatternLens) : AddPattern(d, w)
  \/ AhoBuild
  \/ CuckooStart \/ HtCuckooStart \/ MicaStart \/ RtableStart \/ AhoStart
  \/ SimpleStart \/ LocalsStart \/ PointerChasingStart \/ DivergenceStart
  \/ RandomWalkStart

Next ==
  \/ Fill
  \/ Call \/ Finish \/ Skip
  \/ Cuckoo \/ HtCuckoo \/ Mica \/ Rtable \/ Aho
  \/ Simple \/ Locals \/ PointerChasing \/ Divergence \/ RandomWalk

Spec == Init /\ [][Next]_vars

-----------------------------------------------------------------------------
LookedUp == SubSeq(pkts, 1, base)

Batches == [j \in 1 .. base \div BATCH_SIZE |->
              SubSeq(pkts, (j - 1) * BATCH_SIZE + 1, j * BATCH_SIZE)]

\* What the program nogoto.c has counted after the packets ps.
AsWritten(ps) ==
  CASE app = "cuckoo" -> C!nogoto(mem, ps)
    [] app = "ht-cuckoo" -> C!ht_nogoto(mem, ps)
    [] app = "mica" -> M!nogoto(mem, ps)
    [] app = "simple" -> U!simple_nogoto(mem, ps)
    [] app = "locals" -> U!locals_nogoto(mem, ps)
    [] app = "pointer-chasing" -> U!chase_nogoto(mem, ps)
    [] app = "synthetic-divergence" -> U!diverge_nogoto(mem, ps)

\* What the program handopt.c has counted after the batches bs.
ByHand(bs) ==
  CASE app = "cuckoo" -> C!handopt(mem, bs)
    [] app = "ht-cuckoo" -> C!ht_handopt(mem, bs)
    [] app = "simple" -> U!simple_manual(mem, bs)
    [] app = "pointer-chasing" -> U!chase_handopt(mem, bs)
    [] app = "synthetic-divergence" -> U!diverge_handopt(mem, bs)

(* Between two batches the transformed code has counted and stored exactly *)
(* what the foreach loop of nogoto.c does for the same packets, and what   *)
(* handopt.c does batch by batch (15745: what the single and the level-by- *)
(* level lookup return, as the asserts of its main demand).  The programs  *)
(* of random-walk call rand() in different orders (its file IMPORTANT):    *)
(* what one of them computes is a possible outcome of the others.  mica's  *)
(* handopt.c finds what the others find unless slots share the key's tag.  *)
(* aho-corasick's sorts the packets and counts what noopt.c counts.        *)
VersionsAgree ==
  (pc = "caller" /\ stage = "run") =>
    /\ app \notin {"rtable", "aho-corasick", "random-walk"} => total = AsWritten(LookedUp)
    /\ app \notin {"mica", "rtable", "aho-corasick", "locals", "random-walk"} => total = ByHand(Batches)
    /\ app = "rtable" =>
         /\ total = R!nogoto_count(mem, LookedUp)
         /\ \A k \in 1..base : out[k] = R!lookup_nogoto(mem, pkts[k]).out
         /\ \A k \in 1..base : out[k] = <<R!rtable_lookup(mem, pkts[k])>>
         /\ FlattenSeq(SubSeq(out, 1, base)) = FlattenSeq([b \in DOMAIN Batches |->
                                                 R!lookup_multi(mem, Batches[b])])
    /\ (app = "aho-corasick" /\ base = Len(pkts)) => A!handopt(mem, pkts) = {total}
    /\ app = "random-walk" =>
         /\ total.sum \in U!walk_nogoto(mem, LookedUp)
         /\ total.sum \in U!walk_handopt(mem, Batches)
    /\ app = "mica" =>
         \A k \in 1..base :
           LET hand == M!handopt(mem, <<pkts[k]>>)
               ours == M!nogoto(mem, <<pkts[k]>>)
           IN  IF hand.succ = 1 THEN ours.succ = 1 /\ ours.sum = hand.sum
               ELSE ours.succ = 0 \/ M!TagShared(mem, pkts[k])

(* A lookup fails only for a key that has no room: the lookups that fail   *)
(* are at most the inserts of cuckoo_init that failed, or the slots that   *)
(* mica has replaced.  A packet's list has every occurrence of a pattern   *)
(* of its automaton but those at the very end: the state after the last    *)
(* byte is not asked for its patterns.                                     *)
FailuresExplained ==
  /\ app = "cuckoo" => total.fail <= mem.failed
  /\ app = "mica" => total.fail_2 <= mem.replaced
  /\ app = "aho-corasick" =>
       \A k \in 1..base, i \in DOMAIN added :
         Cardinality({j \in DOMAIN out[k][1] : out[k][1][j] = i - 1}) =
           IF added[i].dfa_id = pkts[k].dfa_id
             THEN A!Occurrences(added[i].content, pkts[k].content) ELSE 0

\* The patterns of an automaton by their ids, which count from 0
PatternsOf(d) ==
  [i \in {k \in 0 .. Len(added)-1 : added[k + 1].dfa_id = d} |-> added[i + 1].content]

(* Whatever is in a table can be found: keys are in their buckets without  *)
(* a hole before them, mica's slots lead to distinct log entries with the  *)
(* slot's tag, and the routing trie is a tree, in which child 0 is none.   *)
(* Whatever an automaton has read, it is in a state with just the patterns *)
(* that end there.                                                         *)
TablesWellFormed ==
  /\ app \in {"cuckoo", "ht-cuckoo"} => (stage = "fill" => C!WellFormed(mem, pkts))
  /\ app = "mica" => (stage = "fill" => M!WellFormed(mem, Len(pkts)))
  /\ app = "rtable" =>
       \A k \in 1 .. Len(mem)-1 :
         Cardinality({<<i, x>> \in (DOMAIN mem) \X Digit : mem[i].children[x] = k}) = 1
  /\ stage = "built" =>
       \A d \in Dfas, w \in Contents(0 .. Max(PatternLens) + 1) : A!Recognises(mem[d], PatternsOf(d), w)

(* 15745: every address gets the port of its longest route, a route to the *)
(* fallback port counting as none.                                         *)
RouteIsLongest ==
  (app = "rtable" /\ pc = "caller" /\ stage = "run") =>
    \A k \in 1..base : out[k] = <<R!LongestRoute(added, pkts[k])>>
=============================================================================
