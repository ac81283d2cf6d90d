-------------------------------- MODULE Ndn ---------------------------------
(***************************************************************************)
(* antlr/actual/ndn: forwarding by names.  ndn_init puts every prefix of   *)
(* every URL of the FIB into a hash table in which a prefix has two        *)
(* buckets; process_batch looks up the prefixes of a name, shortest first, *)
(* until it meets a terminal one.  The lookup is modelled step by step as  *)
(* transformed (goto.c) and as a function as written (nogoto.c).           *)
(*                                                                         *)
(* A name is a sequence of components; a prefix ends at a slash, so it is  *)
(* a prefix of that sequence, and c_i counts components.  The 64-bit hash  *)
(* that stands for a prefix in the table is the prefix itself: colliding   *)
(* hashes are declared out of scope by the file NDN_algorithm.             *)
(***************************************************************************)
EXTENDS Fpp, SequencesExt

CONSTANTS
  Urls,           \* the URLs that may be in the FIB
  Names,          \* the names that may be looked up
  Ports,          \* the ports in portmask
  NDN_NUM_BKT,
  NDN_NUM_SLOTS,  \* 8 in the code
  MaxUrls         \* bound on the lines of the FIB's file

ASSUME NdnAssumption ==
  /\ \A u \in Urls \union Names : u # <<>> /\ u \in Seq(Range(u))
  /\ Ports \subseteq Nat
  /\ NDN_NUM_BKT \in Nat \ {0} /\ NDN_NUM_SLOTS \in Nat \ {0} /\ MaxUrls \in Nat
  /\ PssWrap = "BATCH_SIZE" /\ EndWrap = "BATCH_SIZE"

Bkt    == 0 .. NDN_NUM_BKT-1
\* The first n components, up to and with their slash.
Pre(u, n) == SubSeq(u, 1, n)
Prefix == UNION {{Pre(u, n) : n \in 1..Len(u)} : u \in Urls \union Names}
Free   == [dst_port |-> -1, is_terminal |-> FALSE, cityhash |-> <<>>]

VARIABLES
  hash,       \* the two buckets of each prefix, arbitrary and fixed
  fib,        \* the URLs read so far, with their ports
  ht,         \* the slots of each bucket
  nb_fail,
  names,      \* the batch passed to process_batch
  dst_ports,
  c_i, terminate, prefix_match_found     \* the arrays made of the locals

fibVars  == <<hash, fib, ht, nb_fail>>
nameVars == <<names, dst_ports, c_i, terminate, prefix_match_found>>
vars == <<fppVars, fibVars, nameVars>>

Init ==
  /\ pc = "caller" /\ nb_pkts = BATCH_SIZE /\ I = 0 /\ iMask = {}
  /\ batch_rips = [i \in Slot |-> fpp_start]
  /\ hash \in [Prefix -> Bkt \X Bkt]
  /\ fib = <<>>
  /\ ht = [b \in Bkt |-> [s \in 1..NDN_NUM_SLOTS |-> Free]]
  /\ nb_fail = 0
  /\ names = [i \in Slot |-> <<>>]
  /\ dst_ports = [i \in Slot |-> -1]
  /\ c_i = [i \in Slot |-> 0]
  /\ terminate = [i \in Slot |-> FALSE]
  /\ prefix_match_found = [i \in Slot |-> FALSE]

-----------------------------------------------------------------------------
\* The slot of bucket b that holds prefix p, 0 if none does.
Find(t, b, p) ==
  SelectInSeq(t[b], LAMBDA s : s.dst_port >= 0 /\ s.cityhash = p)

\* A slot of the table, by bucket and position.
Located(t, p) ==
  LET b == IF Find(t, hash[p][1], p) # 0 THEN hash[p][1] ELSE hash[p][2]
  IN  <<b, Find(t, b, p)>>

\* Mutant: a terminal prefix that exists already keeps its port.
contains_keeps_port(t, p, is_terminal, dst_port) ==
  LET l == Located(t, p)
  IN  IF is_terminal THEN t ELSE [t EXCEPT ![l[1]][l[2]].is_terminal = FALSE]

\* ndn_contains, for a prefix that is there: a non-terminal insert makes it
\* non-terminal, a terminal one takes over its port.
ndn_contains(t, p, is_terminal, dst_port) ==
  LET l == Located(t, p)
  IN  IF is_terminal THEN [t EXCEPT ![l[1]][l[2]].dst_port = dst_port]
      ELSE [t EXCEPT ![l[1]][l[2]].is_terminal = FALSE]

\* The first empty slot of a bucket, 0 if it is full.
FreeSlot(t, b) == SelectInSeq(t[b], LAMBDA s : s.dst_port = -1)

\* acc is the table and the number of failures.
ndn_ht_insert(acc, p, is_terminal, dst_port) ==
  LET t == acc.ht
      b == IF FreeSlot(t, hash[p][1]) # 0 THEN hash[p][1] ELSE hash[p][2]
      s == FreeSlot(t, b)
  IN  IF Located(t, p)[2] # 0
        THEN [acc EXCEPT !.ht = ndn_contains(t, p, is_terminal, dst_port)]
      ELSE IF s # 0
        THEN [acc EXCEPT !.ht[b][s] =
               [dst_port |-> dst_port, is_terminal |-> is_terminal, cityhash |-> p]]
      ELSE [acc EXCEPT !.nb_fail = @ + 1]

\* The table and the failures after the first n prefixes of a URL, shortest
\* first, the last one terminal.
Inserted(u, dst_port) ==
  LET acc[n \in 0..Len(u)] ==
        IF n = 0 THEN [ht |-> ht, nb_fail |-> nb_fail]
        ELSE ndn_ht_insert(acc[n-1], Pre(u, n), n = Len(u), dst_port)
  IN  acc

\* One line of the file of ndn_init.
InsertUrl(u, dst_port) ==
  LET acc == Inserted(u, dst_port)[Len(u)]
  IN  /\ pc = "caller"
      /\ names[0] = <<>>              \* main reads the whole FIB first
      /\ Len(fib) < MaxUrls
      /\ fib' = Append(fib, [url |-> u, port |-> dst_port])
      /\ ht' = acc.ht
      /\ nb_fail' = acc.nb_fail
      /\ UNCHANGED <<fppVars, hash, nameVars>>

-----------------------------------------------------------------------------
\* nogoto.c: the loop over the slots of bucket b, with the locals a.
Match(a, b, p) ==
  LET s == Find(ht, b, p)
  IN  IF s = 0 THEN a
      ELSE [dst_port |-> ht[b][s].dst_port,
            terminate |-> a.terminate \/ ht[b][s].is_terminal,
            prefix_match_found |-> TRUE]

\* The loop over the buckets of a prefix.  prefix_match_found is not reset
\* for the next prefix.
MatchPrefix(a, p) ==
  LET f == Match(a, hash[p][1], p)
  IN  IF a.terminate THEN a
      ELSE IF f.prefix_match_found THEN f
      ELSE Match(f, hash[p][2], p)

\* The locals after each prefix of a name; the first component alone is
\* skipped.
Matched(name) ==
  LET locals[n \in 1..Len(name)] ==
        IF n = 1 THEN [dst_port |-> -1, terminate |-> FALSE, prefix_match_found |-> FALSE]
        ELSE MatchPrefix(locals[n-1], Pre(name, n))
  IN  locals

process_name_nogoto(name) == Matched(name)[Len(name)].dst_port

-----------------------------------------------------------------------------
\* goto.c.  main calls process_batch for each batch of names; the model
\* looks up one batch.
Call(batch) ==
  /\ names[0] = <<>>
  /\ names' = batch
  /\ dst_ports' = [i \in Slot |-> -1]
  /\ FppEnter(BATCH_SIZE)
  /\ UNCHANGED <<fibVars, c_i, terminate, prefix_match_found>>

\* from fpp_start to the first FPP_PSS
FetchName ==
  /\ At(fpp_start)
  /\ FPP_PSS(1)
  /\ UNCHANGED <<fibVars, nameVars>>

\* The loop over the name's characters, from where c_i stands to the next
\* prefix, which is looked up in its first bucket.
NextPrefix(n) ==
  /\ c_i' = [c_i EXCEPT ![I] = n + 1]
  /\ IF n < Len(names[I]) THEN FPP_PSS(2) ELSE FallThrough

\* from fpp_label_1
StartName ==
  /\ At(1)
  /\ terminate' = [terminate EXCEPT ![I] = FALSE]
  /\ prefix_match_found' = [prefix_match_found EXCEPT ![I] = FALSE]
  /\ dst_ports' = [dst_ports EXCEPT ![I] = -1]
  /\ NextPrefix(1)
  /\ UNCHANGED <<fibVars, names>>

\* Mutant: a longer match does not overwrite the port of a shorter one.
ProbeKeepsFirst(b) ==
  LET s == Find(ht, b, Pre(names[I], c_i[I]))
  IN  IF s = 0 \/ prefix_match_found[I] THEN UNCHANGED <<dst_ports, terminate, prefix_match_found>>
      ELSE /\ dst_ports' = [dst_ports EXCEPT ![I] = ht[b][s].dst_port]
           /\ terminate' = [terminate EXCEPT ![I] = @ \/ ht[b][s].is_terminal]
           /\ prefix_match_found' = [prefix_match_found EXCEPT ![I] = TRUE]

\* The loop over the slots of a bucket.
Probe(b) ==
  LET s == Find(ht, b, Pre(names[I], c_i[I]))
  IN  IF s = 0 THEN UNCHANGED <<dst_ports, terminate, prefix_match_found>>
      ELSE /\ dst_ports' = [dst_ports EXCEPT ![I] = ht[b][s].dst_port]
           /\ terminate' = [terminate EXCEPT ![I] = @ \/ ht[b][s].is_terminal]
           /\ prefix_match_found' = [prefix_match_found EXCEPT ![I] = TRUE]

\* After the buckets of a prefix: stop or go on with the next.
AfterBuckets ==
  IF terminate'[I] THEN FallThrough /\ UNCHANGED c_i ELSE NextPrefix(c_i[I])

\* from fpp_label_2
FirstBucket ==
  /\ At(2)
  /\ Probe(hash[Pre(names[I], c_i[I])][1])
  /\ IF prefix_match_found'[I] THEN AfterBuckets ELSE FPP_PSS(3) /\ UNCHANGED c_i
  /\ UNCHANGED <<fibVars, names>>

\* Mutant: the first bucket's hit is looked for a second time.
SecondBucketIsFirst ==
  /\ At(3)
  /\ Probe(hash[Pre(names[I], c_i[I])][1])
  /\ AfterBuckets
  /\ UNCHANGED <<fibVars, names>>

\* from fpp_label_3
SecondBucket ==
  /\ At(3)
  /\ Probe(hash[Pre(names[I], c_i[I])][2])
  /\ AfterBuckets
  /\ UNCHANGED <<fibVars, names>>

Finish == FppEnd /\ UNCHANGED <<fibVars, nameVars>>
Skip   == Revisit /\ UNCHANGED <<fibVars, nameVars>>

Next ==
  \/ \E u \in Urls, d \in Ports : InsertUrl(u, d)
  \/ \E batch \in [Slot -> Names] : Call(batch)
  \/ FetchName \/ StartName \/ FirstBucket \/ SecondBucket \/ Finish \/ Skip

Spec == Init /\ [][Next]_vars

-----------------------------------------------------------------------------
\* The port of a prefix, as NDN_algorithm gives it: of the last URL that is
\* this prefix, or else of the first URL that has it.
PortOf(p) ==
  LET exact  == SelectLastInSeq(fib, LAMBDA f : f.url = p)
      having == SelectInSeq(fib, LAMBDA f : IsPrefix(p, f.url))
  IN  fib[IF exact # 0 THEN exact ELSE having].port

Known    == {p \in Prefix : \E k \in DOMAIN fib : IsPrefix(p, fib[k].url)}
Extended(p) == \E k \in DOMAIN fib : IsStrictPrefix(p, fib[k].url)
Held(p)  == {l \in Bkt \X (1..NDN_NUM_SLOTS) :
               ht[l[1]][l[2]].dst_port >= 0 /\ ht[l[1]][l[2]].cityhash = p}

(* Whatever the order of the URLs, ndn_init leaves each of their prefixes  *)
(* in one slot of one of its buckets, with its port and terminal exactly   *)
(* if no URL goes on from it; a prefix is missing only where both buckets  *)
(* are full, and nb_fail tells whether any is.                             *)
FibIsBuilt ==
  /\ \A b \in Bkt, s \in 1..NDN_NUM_SLOTS :
       ht[b][s].dst_port >= 0 => ht[b][s].cityhash \in Known
  /\ \A p \in Known :
       IF Held(p) = {} THEN \A k \in {1, 2} : FreeSlot(ht, hash[p][k]) = 0
       ELSE \E b \in {hash[p][1], hash[p][2]}, s \in 1..NDN_NUM_SLOTS :
              /\ Held(p) = {<<b, s>>}
              /\ ht[b][s].dst_port = PortOf(p)
              /\ ht[b][s].is_terminal = ~Extended(p)
  /\ nb_fail > 0 <=> \E p \in Known : Held(p) = {}

Returned == pc = "caller" /\ names[0] # <<>>

\* The prefixes of a name that the lookup tries.
Tried(name) == {Pre(name, n) : n \in 2..Len(name)}

\* The reference: the port of the longest of them that is in the table.
LongestPrefix(name) ==
  LET ps == {p \in Tried(name) : Held(p) # {}}
  IN  IF ps = {} THEN -1
      ELSE PortOf(CHOOSE p \in ps : \A q \in ps : Len(q) <= Len(p))

(* NDN_algorithm: "Packets that match an inserted prefix should be         *)
(* forwarded to the correct port": each name of a batch gets the port of   *)
(* its longest prefix in the table.                                        *)
LookupIsLongestPrefix ==
  Returned => \A i \in Slot : dst_ports[i] = LongestPrefix(names[i])

(* What the code guarantees: the same for names none of whose prefixes had *)
(* to go to their second bucket; after a first match process_batch looks   *)
(* at first buckets only.                                                  *)
LookupUnlessSpilled ==
  Returned =>
    \A i \in Slot :
      (\A p \in Tried(names[i]) : \A l \in Held(p) : l[1] = hash[p][1])
        => dst_ports[i] = LongestPrefix(names[i])

(* The interleaved lookup of goto.c writes for every name of the batch the *)
(* port that nogoto.c finds for it.                                        *)
VersionsAgree ==
  Returned => \A i \in Slot : dst_ports[i] = process_name_nogoto(names[i])
=============================================================================
