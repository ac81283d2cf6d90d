# A TLA+ model of G-Opt and the programs around it

G-Opt hides memory latency on a CPU. A programmer writes a batch function as a
`foreach` loop over packets and marks the expensive memory accesses; G-Opt
rewrites the function so that, at every marked access, the current packet is
parked and the next one continues. The repository holds the transformer
(`antlr/`), the applications it is used on, in up to three versions each
(`antlr/actual/`: plain `nogoto.c`, transformed `goto.c`, hand-optimised
`handopt.c`), a DPDK forwarding benchmark (`l2fwd/`), lock benchmarks (`glock/`)
and GPU experiments (`gpu/`).

This project models the switching code itself, the applications it is used on
with the tables they build, the locks, the forwarding benchmark and the GPU
programs: everything whose correctness depends on an order of steps, or on
several versions of one function computing the same.

## Inventory

| Part | State | Operations | What is hard | What makes it correct |
|---|---|---|---|---|
| Switching runtime (`fpp.h`, `startCode`, `endCode`) | `I`, `batch_rips`, `iMask` | enter, `FPP_PSS`, `fpp_end` | packets interleave; two wraps that must agree; partial batches | does for each packet what the loop does; returns when all are done; keeps the prefetch distance |
| Cuckoo tables (`actual/cuckoo`, `cuckoo-city64`, `ht-cuckoo`) | `ht_index`, `keys`, counters | insert, batched lookup in three versions each | full buckets; locals turned into arrays | the versions agree; a miss means a failed insert |
| MICA index (`actual/mica`) | `ht_index`, `ht_log`, counters | put, shuffle, batched lookup in three versions | a lossy index; tags that collide | the versions agree but for shared tags; a miss means a replaced slot |
| Routing trie (`actual/15745`) | the array of entries | add routes, four lookups | a loop re-entered in the middle; the fallback port as "no route" | the longest route, from all four |
| Aho-Corasick (`actual/aho-corasick`) | the automata, counters | add patterns, build, match in two versions | the order of the traversal; a batch dispatched by what its packets share | every occurrence is found once (but for the last byte); the versions agree |
| Microbenchmarks (`actual/simple`, `locals`, `pointer-chasing`, `synthetic-divergence`, `random-walk`) | an array and a sum | fill, batched walk in up to three versions | packets of different lengths; `rand()` called in another order | the versions agree |
| IPv6 LPM (`actual/ipv6`) | `tbl24`, `tbl8`, `rules_tbl`, counts | add, delete, bulk delete, delete all, lookups | group exhaustion in the middle of an add; nested prefixes; rebuild after delete | lookups give the longest match; failures undo themselves |
| Version lock (`glock/striped_verlock`) | `locks`, `nodes` | writer, reader | torn reads; width of the version | snapshots are consistent and current; readers finish |
| Batched spin locks (`glock/goto_spinlock`) | `locks`, `nodes`, a batch per thread | fill, lock, update, unlock | lost updates; lock order | no lost update; no deadlock |
| Forwarding server (`l2fwd/server.c`) | receive burst, transmit buffer and counters per port | poll, process, send, report | short bursts, full NIC, starvation | mbufs conserved; flows in order; ports served |
| Client and set-up (`l2fwd/client.c`, `common.c`, `main.c`) | a pool per lcore, queues, a burst | allocate, send, drain | a receive queue whose pool belongs to another lcore; short transmissions | mbufs conserved; the pool lasts; queues are polled |
| IPv4 LPM (`actual/ipv4`) | `rules_tbl`, `rule_info`, `tbl24`, `tbl8` | add, delete, delete all, lookup | rules moved between depths; repair in place after a delete; an 8-bit group number | lookups give the longest match; rules in order; groups owned once |
| NDN names (`actual/ndn`) | `ht`, `nb_fail` | insert URLs, batched lookup in two versions | order of URLs; full buckets; nested loops left and re-entered | names get the port of their longest prefix; the versions agree |
| GPU programs (`gpu/`) | host and device arrays, a stream or a flag | write, copy, launch, poll, compare | asynchronous copies; a flag without a barrier; spinning threads | results are those of the round; host and device do not touch an array together; the programs end |
| Striped spin locks (`glock/striped_spinlock`) | locks, nodes | reader (the writer is never started) | nothing: readers write nothing shared | not modelled |
| Transformer (`antlr/*.java`) | the token stream | ten passes | local variables become arrays; labels; the end code | not modelled; its output is |
| Data sets, CityHash, `trie` | none | file conversion, hashing | nothing the model adds to | not modelled |

Interactions: a transformed function contains the runtime (textually, by the
transformer); the applications call it with a batch and then read what it wrote;
the server calls its batch function with what it received, and the batch
function calls `send_packet`, which hands packets to the NIC; the client's lcores
share mbuf pools through the receive queues; GPU programs share arrays with their
kernels; threads of the
lock benchmarks share nodes and locks and nothing else.

## Modules

* `Fpp` - the inserted code as action fragments: `FppEnter` (`startCode`),
  `FPP_PSS`, `FppEnd` (`endCode`), and `FallThrough`/`Revisit` for the two ways
  to reach `fpp_end`. `batch_rips` holds label numbers, `iMask` the set of bits
  that are set. `PssWrap` and `EndWrap` choose between the two forms each piece
  has in the repository: wrap at `BATCH_SIZE` by masking, or at the number of
  packets passed.
* `FppScheduler` - a transformed function with arbitrary packet code: packet `i`
  has `segs[i]` segments, chosen when the function is entered.
* `ForeachBatch` - the abstract specification: what the `foreach` loop promises.
  `FppScheduler` implements it with `running <- pc # "caller"`.
* `BatchApps` - the life of ten programs of `antlr/actual`: `main` fills a table or
  an array, then calls `process_batch` for batch after batch. `app` says which
  program it is; `Segment` runs one segment of the current packet on `Fpp`, adds
  to the program's counters and stores its result. Aho-Corasick is not written
  for G-Opt and processes a batch in one action.
* `Segments` - what a segment returns: where the packet continues (or that it is
  done), its locals, what it adds to the counters, what it stores.
* `Cuckoo`, `Mica`, `Rtable`, `Micro` - the programs: how their table is filled,
  the segments of the transformed `process_batch`, and the plain and the
  hand-optimised version as operators. The hash functions are any functions,
  fixed in `Init`.
* `Aho` - the automaton: `aho_add_pattern`, `aho_build_ff`, `aho_preprocess_dfa`,
  and the matching functions of `noopt.c` and `handopt.c`.
* `Lpm6` - the rule table and the two-kind trie of groups. `tbl[TBL24]` is
  `tbl24`; `tbl[g]` is the `g`-th group of `tbl8`. Addresses are numbers of
  `ADDR_BITS` bits; the code's 24 bits, 8 bits and 13 levels of `tbl8` are the
  constants `TBL24_BITS`, `TBL8_BITS` and `LEVELS`. An add is one action with all
  its error returns.
* `Lpm6Lookup` - composes `Lpm6` and `Fpp`: any history of adds, failing adds,
  updates and deletes, then batches through `rte_lpm6_lookup_goto`, compared with
  the reference definition of longest match and with the hand-optimised lookup.
* `Lpm4` - `rte_lpm.c`: the rule table with its groups per depth, and `tbl24`
  with `tbl8`. The code's functions are operators from tables to tables; adds,
  deletes and `delete_all` are the actions. A `uint8_t` has `GINDEX` values.
  `routes` is a history variable. An `assert(0)` ends a behaviour with `status`
  `"assert"`, a write behind the rule table with `"overrun"`. `MCLpm4` has the
  routes of the runs.
* `Ndn` - `ndn_init`, one action per line of the FIB's file, and `process_batch`:
  `goto.c` on `Fpp`, `nogoto.c` as an operator. A name is a sequence of
  components. `hash` gives each prefix two buckets, any two; colliding 64-bit
  hashes are outside the model, as `NDN_algorithm` puts them outside the program.
  `MCNdn` has the URLs and names of the runs.
* `StripedVerlock` - one writer and any readers, a step per access to shared
  memory. `ToInt` is the conversion of the `long long` version to the reader's
  `int`, which has `2 * IntHalf` values.
* `GotoSpinlock` - threads with batches of nodes; a step per lock operation,
  load and store. `nogoto.c` and `goto.c` differ only in prefetches.
* `L2fwdServer` - `run_server` of one lcore with `process_batch_nogoto` and
  `send_packet`. The NIC is external: it receives and transmits at any time and
  accepts any part of a burst (a prefix, as DPDK promises).
* `L2fwdClient` - `run_client` on the lcores of a machine, with the pools and
  queues that `main` sets up. Mbufs are counted per pool. DPDK is external: an
  lcore may keep any part of what it frees or takes in a cache of its own, up to
  `NB_MBUF_CACHE`.
* `L2fwd` - `main`: the program is the server or the client.
* `Gpu` - thirteen GPU programs. A host program is three lists of operations
  (write the inputs, copy, launch, synchronize, compare; or clear, write, raise
  the flag, wait, compare): what it does once, in every round, and at its end.
  `prog` says which program it is, `part`, `pc` and `round` where it is. The
  stream, the copies and the places for threads on the device are external. A
  copy to memory that is not pinned is synchronous, which matters in one program.
* `FppScheduler_proofs`, `StripedVerlock_proofs`, `GotoSpinlock_proofs`,
  `L2fwd_proofs` (server, client and benchmark), `Gpu_proofs`, `Ndn_proofs`,
  `Lpm6_proofs` (tables and batched lookup), `Lpm4_proofs` (rule table) - the
  theorems, the inductive invariants they need and the lemmas about the operators
  of the models.

Operators with a comment "Mutant:" are deliberately wrong forms of the
definition that follows them; they are used to show that the properties notice
such a mistake, and no specification uses them.

## Runs

| Run | Bounds | Shows |
|---|---|---|
| `fpp` | 4 slots, batches of 1 to 4, up to 3 segments each | implements `ForeachBatch` (with its liveness), labels agree with work, round robin, nothing runs past the batch, returns exactly when done |
| `fpp_mixed` | 4 slots, batches of 1 to 4 | **violation**: the two wraps disagree and a partial batch does not return |
| `batch_apps` | batches of 2; cuckoo: 2 buckets of 2 slots, 4 keys from 3; MICA: 1 bucket of 2 slots, 2 tags; trie: 3 digits, 2 routes, 3 ports; automata: 2 of up to 8 states, 2 bytes, 2 patterns, packets of 1 and 3 bytes; arrays of 2 | the versions of each program agree on every table and every input; failed lookups are lost entries; tables and automata are well formed; the trie gives the longest route |
| `lpm6` | 3-bit addresses in 3 levels, 3 groups, 3 rules, 2 next hops; batches of 1 and 2 in tables of up to 2 rules | longest match after any history, from the single and the interleaved lookup; failed adds change nothing; rebuilding never fails; lookups stay in the tables |
| `lpm4` | 3-bit addresses, 2 of them in `tbl24`; 2 groups, 3 rules; 6 routes whose short prefixes do not nest | longest match after any history of adds, updates and deletes; rule table in order; groups neither leaked nor shared |
| `lpm4_nested` | the same, with two nested prefixes that fit `tbl24` | **violation**: a next hop is taken for the number of a group |
| `ndn` | 2 buckets of 2 slots, FIBs of up to 2 of 4 URLs with 2 ports, all hash functions, batches of 2 names | the FIB is as described whatever the order of URLs; the versions agree; names get their longest prefix unless a prefix is in its second bucket |
| `ndn_spilled` | the same with a chain of two URLs | **violation**: a longer prefix in its second bucket is missed |
| `verlock` | 3 nodes on 2 stripes, versions up to 8 against an `int` of -4..3 | accepted snapshots are consistent and current, also after truncation; a reader gets one while versions fit |
| `goto_spinlock` | 2 threads, batches of 2, 4 nodes on 2 locks | no lost update, no hold-and-wait, batches complete |
| `l2fwd` | server: 2 ports, bursts of 2, 2 tries, 3 mbufs, 4 arrivals; client: lcores 2 and 4, bursts of 2, pools of 7 mbufs, caches of 1 | mbufs conserved, flows in order, buffers have room, allocation never fails, no port or queue starves, the server's pool refills |
| `gpu` | 1 to 4 packets, 3 rounds, 3 places on the device, all inputs, logs and hash functions over 2 words | the programs' own comparisons succeed (`seqMem` has none: it adds up the kernel's results); host and device take turns on arrays; host and polling kernel stay in step; programs that can be served end |

The form of the switching code that wraps at `BATCH_SIZE` is exercised with full
batches by `batch_apps` and `ndn`, and covered by the theorems.

Why the bounds are enough. Four slots and three segments let packets finish in
every order, be revisited after they finish, and let the index wrap while others
are in the middle. Two buckets of two slots with four keys make full buckets,
duplicate keys, and keys whose two buckets coincide. One bucket of MICA's index
with two slots is filled twice over, with equal and different tags. Three digits
of the trie are a cached and two switching levels; two routes are nested,
disjoint or equal. Patterns of two and three bytes over two bytes are suffixes
and prefixes of each other, so that outputs are inherited and failure states are
chained; packets of one and three bytes give batches that differ in length, in
automaton, in both or in neither. In the microbenchmarks, packets of a batch take
equal and different numbers of steps.

Three levels are the first, a middle and the last level of the IPv6 trie, three
groups are fewer than three rules may need, so that exhaustion happens at the
first and at the second group of one add. Batches are looked up in tables of at
most two rules (`LookupRules`), which nest over all levels; tables of three rules
are checked with the single lookup. The IPv4 routes have all three kinds of
depth (short of `tbl24`, as long as it, longer), so that an add moves rules of
two other depths, fill a group with the rule around it, and recycle it. The NDN
table makes both buckets of a prefix full (with equal buckets) and a first bucket
full with room in the second. Two nodes on one stripe and one on the other
distinguish a lock per node from a lock per stripe.

Two ports with bursts of two give short and full bursts, and three mbufs for two
buffers let the server's pool run dry. The client's lcores 2 and 4 are the two
lcores of a port that receive into each other's pools (lcore 0 polls the queue of
its own pool and shares nothing, so its queue is left out by `QueueIds`); their
pools are as small as the assumption allows, and with one mbuf less
`AllocSucceeds` fails. Four packets on a device with three places make the
polling programs hang, up to three are served; three rounds have a first, a
middle and a last one.

`CHECK_DEADLOCK FALSE` is used where the program ends: the batch programs, LPM and
NDN benchmarks after their last batch, `Lpm4` at an `assert(0)` or overrun,
`GotoSpinlock` when the bound on batches is used up, `Gpu` after the last round.

### Findings

* `fpp_mixed`: the transformer emits the two-argument `FPP_PSS`, whose index
  wraps at `BATCH_SIZE`, together with an end code that uses `nb_pkts`. For
  batches shorter than `BATCH_SIZE` the bits of slots past the batch get into
  `iMask`, which then never equals `(1 << nb_pkts) - 1`. The hand-finished
  functions (`rte_lpm6_lookup_goto`, `l2fwd/fpp.h`) pass the bound as a third
  argument, and full batches are not affected.
* `lpm4_nested`: `add_depth_small` treats every entry of `tbl24` it must leave
  alone as an extended one. A deeper entry that is not extended has a next hop
  where the others have a group number, and the shorter rule is written into the
  group of that number, which may be another entry's.
* `ndn_spilled`: `prefix_match_found` is cleared once per name. After a first
  match, longer prefixes are looked for in their first bucket only.

Limits of the code that the models show without a run of their own:

* `Aho`: the patterns of a state are collected before the next byte is read, so a
  pattern that ends with the packet's last byte is not reported. The reference of
  `FailuresExplained` counts occurrences that end before it.
* `Mica`: `handopt.c` keeps only the last slot whose tag matches, and misses a key
  that shares its tag with a later slot. `VersionsAgree` allows this and nothing
  else.
* `Cuckoo`: a key is tried in one of its buckets, drawn at random, and dropped if
  that is full, though the other may have room.
* `Micro`: the macro `ABS` of `synthetic-divergence` expands `-1 * a` without
  parentheses, so its value is not the absolute difference; all versions use it.
* `L2fwdClient`: the `l2fwd/README` says the code knows the lcore of a queue from
  `client_port_queue_to_lcore`; `run_client` takes queue `lcore_id % 3`, so lcores
  2 and 4 (8 and 10, and so on) have their queues exchanged and receive into each
  other's pools. Each queue is still polled by one lcore (`QueuesPolled`, proved
  as `TablesAgree`), and the pools are large enough.
* `Gpu`: a polling program with more threads than the device holds, or with a hash
  that is 0 for some input, waits for ever; `Servable` is the condition of
  `Terminates`. `vectorAdd` compares with sums that start from memory nobody has
  cleared, and may report a mismatch.
* `StripedVerlock`: the reader keeps its copy of the 64-bit version in an `int`;
  a version beyond `INT_MAX` never compares equal to its copy, and the reader
  retries for ever. Hence the condition in `ReaderCompletesInRange`. Safety is
  not affected: a truncated copy is rejected, never wrongly accepted.
* `Lpm4`: with `NUM_GROUPS > GINDEX` (32768 groups and an 8-bit `tbl8_gindex` in
  the code) two entries of `tbl24` come to share a group. `delete_depth_small`
  with a replacement rule clears the `valid_group` mark of a group in use
  (`rte_lpm.c:620`), so with nested short prefixes the group is handed out again.
  `rule_add` does not check for room in the depth of the rule itself, so a rule
  of the longest depth in use is written behind a full rule table (`status`
  `"overrun"`).
* `Ndn`: the lookup starts behind the first slash, so URLs of one component are
  inserted and never found. The reference of the lookup properties therefore
  starts at two components.

## Fairness

* `BatchApps`, `Lpm6Lookup`, `Lpm4`, `Ndn`: none; their properties are about states
  and steps.
* `FppScheduler`: weak fairness of the function's own steps. It is sequential code
  in a running thread; entering the function is not fair.
* `StripedVerlock`: weak fairness of each reader's loop and of a writer that has
  made a version odd; each has a core of its own and neither blocks. The writer
  need not start another update, and `MaxLock` bounds how often it does: a reader
  can be overtaken as long as the writer keeps returning to its stripe.
* `GotoSpinlock`: weak fairness of each thread within its batch. The spin lock is
  not assumed fair: a waiting thread is only sure to get a lock that stays free,
  so completion is shown for threads with a bounded number of batches
  (`MaxBatches`); what it excludes is deadlock and a lock left held.
* `L2fwd`: weak fairness of each lcore's loop, which has a core of its own, and of
  the transmission by the server's NIC. Arrivals are not fair: the network may
  fall silent. Nothing is assumed of the client's NIC, which may never send.
* `Gpu`: weak fairness of the host thread, of the device's copies and the launch of
  the kernel, and of each thread of a grid, which can run only when it has a place.
  A polling thread is not assumed to give its place up.

## Proofs

| Theorem | Says | Assumes |
|---|---|---|
| `TypeCorrect`, `LabelsCorrect`, `StaysInBatch`, `PrefetchDistance`, `ReturnCorrect` | the type invariant of `FppScheduler` and the safety properties of the run `fpp` | `WrapsAgree` |
| `Refinement` | `FppScheduler` implements `ForeachBatch!SafeSpec` | `WrapsAgree` |
| `AcceptedSnapshotIsCurrent`, `TearingIsGuarded`, `AssertionHolds` | the properties of the run `verlock` | constants only |
| `UpdatesSurvive`, `NoHoldAndWait` | the safety of the run `goto_spinlock` | constants only |
| `TablesAgree` | the tables of `main` and `run_client` give every queue one lcore and every pool one queue | up to 4 ports and 12 lcores, as in the code |
| `MbufsKept`, `OrderKept`, `BuffersFit`, `AllocNeverFails` | the safety of the run `l2fwd`, server and client | pools as large as `ServerAssumption` and `ClientAssumption` say |
| `ArraysOwned`, `StepKept`, `ResultsKept` | the safety of the run `gpu` | constants only |
| `LookupCorrect`, `RebuildFits`, `TreeKept`, `NoGroupWasted`, `FailedAddTakenBack`, `BatchCorrect`, `LookupsBounded` | all the properties of the run `lpm6`: the tables after any history, and the batched lookups in them | constants only |
| `RoutesKept` | the rule table of `Lpm4` holds exactly the routes (`RulesAreRoutes` of the run `lpm4`), also when routes nest | constants only |
| `TableBuilt`, `LookupsAgree`, `LookupsLongest` | the three properties of the run `ndn`: the table `ndn_init` builds, `goto.c` against `nogoto.c`, and the longest prefix | constants only |

They hold for every batch size, number of segments, nodes, stripes, threads,
readers and width of `int`; for every number of ports of the server, of mbufs and
of retries and every size of the bursts; for every number of packets, rounds and
places on the device, every log; for every file of URLs, all names, every hash
function and every size of the NDN table; for IPv6 tables of every width, number
of levels, groups and rules; for IPv4 rule tables of every width and size and any
routes. `WrapsAgree` says that `FPP_PSS` and `fpp_end` wrap alike, and that code
that wraps at `BATCH_SIZE` is given full batches: exactly what the finding
`fpp_mixed` violates.

The inductive invariants are called `IInv` in the first three components; those
of the forwarding benchmark, of the GPU programs, of `Ndn`, `Lpm6` and `Lpm4` are
in the proof modules.

* `FppScheduler`: `RoundRobin` alone is not inductive: that a packet before `I`
  is a segment ahead needs `LabelsMatchWork` (what a packet runs next is what it
  has not run) and `CurrentInBatch` (the index returns to 0 after the last packet
  and not later), which needs `NoWorkPastBatch` for `iMask` to become full.
* `StripedVerlock`: a snapshot is current because the version it was read under
  has not changed; the invariant relates what a reader has loaded so far
  to the node, as long as the version still equals the reader's copy.
* `GotoSpinlock`: a thread between load and store still sees in the node what it
  loaded, because it owns the node's lock and every other thread inside owns
  another.
* `L2fwdServer` (`ServerInv`): the places of a packet are a list of stages it goes
  through (`Pipeline`). An mbuf is in one place only (`OwnedOnce`), and along the
  stages the packets of a flow are in the order of their arrival (`InOrder`).
  Neither is inductive without the other facts the loop keeps: buffers are never
  full between two calls of `send_packet`, hold packets of their port only, and
  the receive burst is processed up to `I`. Each action moves a piece of one
  stage to the next one, which two lemmas about lists of lists settle for all of
  them.
* `L2fwdClient` (`ClientInv`): what is missing from a pool is in the queue it
  serves, in the burst of its owner or of the one lcore that polls that queue, or
  in one of their caches. That there is only one such lcore is `TablesAgree`;
  that all these places together are smaller than the pool is `ClientAssumption`.
  A step of the client leaves the server's state alone and conversely, so the
  invariants of the two add up (`MainInvariant`).
* `Gpu`, what is common (`HostInv`): the stream is empty wherever the list of
  operations has a `sync` behind all it has issued. That every list of the
  thirteen programs has one before it touches its arrays, and at its end, is a
  lemma about the lists (`BodiesSynced`).
* `Gpu`, polling (`PollInv`): a thread's round is the flag's or one more; it is
  the flag's only while the host waits; and a result is zero until the thread has
  stored the one of this round. `KernelInStep` needs the last part: clearing the
  results is what makes waiting for non-zero a barrier.
* `Gpu`, copying (`DataInv`): the stream holds what is issued and not finished, in
  order, and each packet is where the number of finished operations says: on the
  host, on the device, computed by the threads in `ran`, or back. That the lists
  issue a round in order, prepare before it and compare after it is again a lemma
  about the lists, one for each program.
* `Ndn`, the table (`FibInv`): `FibIsBuilt` stated for any table, set of prefixes,
  their ports and the non-terminal ones among them (`Built`), so that it can be
  followed through the prefixes of one URL: each insertion adds its prefix, or
  takes over its port, or makes it non-terminal, or counts a failure, and leaves
  every other prefix in its slot (`OthersKept`). After the last prefix the sets are
  those of the file with one more line (`FileAppended`).
* `Ndn`, the lookup (`LookupInv`): a name that waits for a bucket of a prefix has the
  locals that `nogoto.c` has after the prefix before, and one that waits for the
  second bucket has missed in the first.
* `Ndn`, the longest prefix (`SoFar`): after n prefixes `nogoto.c` has the port of
  the longest one held so far, and has stopped only if no longer one is held:
  a terminal prefix has none behind it in the file (`TerminalIsLongest`), hence
  none in the table (`FibInv`). Only the step to a held prefix needs that it is
  not in its second bucket.
* `Lpm6` (`TableInv`): `LookupIsLongestMatch` says nothing of the entries no lookup
  comes to, nor of what a rebuild needs. The invariant is about places: an address
  and a level give the prefix that all addresses followed to the same table share.
  There is a tree of places, numbered by `f` with the groups in use (`Tree`); the
  entry of an address at a place leads to the place below if that is in the tree,
  and holds the deepest rule covering it if not (`Contents`); and the tree has
  exactly the places the rules need (`Room`, `Tight`). Taking a group extends the
  tree by one place and changes no answer (`LinkGood`); the last `add_step`
  overwrites the cells of the addresses that match the rule and no others
  (`FillCell`, with `expand_rule` going through what is `Below`). A rebuild fits
  because a tree with room for the rules is no smaller than the one for some of
  them (`RoomLeft`), which needs `Tight`.
* `Lpm6`, its arithmetic: masks and indices are quotients by powers of two. All that
  is used of `^` is `2^(m+n) = 2^m * 2^n`, proved by counting subsets
  (`FS_SUBSET`), so the proof is for every width.
* `Lpm6Lookup` (`BatchInv`): a slot waiting at `fpp_label_1` is at the entry of its
  address on the level `first_byte` says, a finished one has its answer, one that
  has not started has written nothing; the finished ones are those in `iMask`,
  and no slot past the packets passed is ever resumed.
* `Lpm4` (`TableKept`): `RulesAreRoutes` bounds neither the end of the table nor the
  number of rules a depth has for one prefix, and `rule_add` and `rule_delete` rely
  on both. The invariant adds that the depths' rules lie one depth behind the
  other, within `max_rules` (`Laid`), and that no depth has two rules for a prefix
  (`Single`); `Kept` says that the rules are the routes. Moving the first rule of a
  block behind its last, or the last before the first, keeps what the block holds
  (`TurnBack`, `TurnForward`), and the loop over the longer depths does so for one
  depth after the other (`Shifted`). A delete writes the last rule of the depth
  over the deleted one; that its old place no longer counts is `CountLess`.

The recursive functions of `Ndn` (over the prefixes of a URL and of a name), of
`Lpm6` (over levels, rules and rounds) and of `Lpm4` (over the longer depths) are
reasoned about by the least number at which a statement would fail (`LeastNumber`,
from the library's `WFMin`), which takes a set and not an operator and so is within
the provers' reach.

Only model-checked: liveness (`Terminates`, `NothingStarves`, `PoolRefills`,
`ReaderCompletesInRange` and the rest: fairness and `ENABLED` are outside the
prover's reach); `BatchApps` with its modules, of which `Aho` and what is built on
it use `RECURSIVE` operators, with which the prover cannot be used; and
`LookupIsLongestMatch` and `GroupsOwned` of `Lpm4`. These two do not hold for every
value of the constants, only for routes whose short prefixes do not nest, as the
run `lpm4_nested` shows, and for group numbers that fit `GINDEX`.

## Not modelled

* Timing and the effect of prefetching on the cache; the statistics text.
* The memory order of the machine: `glock` is x86, where the loads and stores in
  question are not reordered, and the models take one access at a time in program
  order. So do reads and writes of memory mapped to the GPU, which the hardware
  does not promise; `KernelInStep` is about the programs, not about the bus, and
  does not answer the question of a barrier at `mtMappedMemory.cu:58`.
* Creation and destruction of objects, allocation failures and device errors at
  start-up, after which the programs exit; random number generation (every value
  is allowed instead); reading of files.
* Width of the sums: they wrap in the code, alike in all versions of a program.
* The threads of `ht-cuckoo` and Aho-Corasick beyond one (they share only what
  they read), and the packets `aho-corasick/handopt.c` keeps for its next
  round when their number is not a multiple of `BIG_BATCH_SIZE`.
* The vendor's bandwidth test, the CPU-only programs the GPU programs are compared
  with, `mtMappedMemory` with more than the one host thread it is compiled for.
* `glock/striped_spinlock`: its threads only read; `actual/trie`, CityHash, the
  data sets.
* The transformer: its passes rewrite the text of C programs. What they emit is
  modelled by `Fpp`, and that the result computes what the source did is checked
  program by program in `batch_apps`, `lpm6` and `ndn`.
* `nb_pkts = 0`: no caller passes it; the server skips empty bursts and the
  benchmarks pass full batches.

## Plan

1. (done) The runtime, its contract and its proofs; the applications; the locks;
   client and server; the GPU programs.
2. (done) Proofs of the safety of the forwarding benchmark, of the GPU programs, of
   NDN, table and lookup, of the IPv6 tables and their lookups, and of the IPv4
   rule table.
   Next: the lookup of `Lpm4` and `GroupsOwned`, for routes whose short prefixes do
   not nest; a program of `BatchApps` without recursion, `Mica` first.
3. A composition of client, network and server; `GoptTransform`, the passes on an
   abstract program.
