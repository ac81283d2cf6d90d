----------------------------- MODULE Ndn_proofs -----------------------------
(***************************************************************************)
(* Proofs about Ndn for any file of URLs, any hash function, any size of   *)
(* the table, any names and any batch size: goto.c finds what nogoto.c     *)
(* finds, ndn_init builds the table it should, and a lookup returns the    *)
(* longest prefix unless one is in its second bucket.                      *)
(***************************************************************************)
EXTENDS Ndn, TLAPS, WellFoundedInduction

LEMMA LeastNumber ==
  ASSUME NEW T, T \subseteq Nat, T # {}
  PROVE  \E x \in T : \A y \in T : x <= y
<1> DEFINE R == OpToRel(<, Nat)
<1>1. IsWellFoundedOn(R, Nat)
  BY NatLessThanWellFounded
<1> HIDE DEF R
<1>2. PICK x \in T : \A y \in T : ~(<<y, x>> \in R)
  BY <1>1, WFMin
<1>3. \A y \in T : ~(y < x)
  BY <1>2 DEF R, OpToRel
<1> QED
  BY <1>3

-----------------------------------------------------------------------------
(* nogoto.c: what the recursive function of Matched is.                    *)

Start == [dst_port |-> -1, terminate |-> FALSE, prefix_match_found |-> FALSE]

\* One value of the function, by the one before.
Def(name, f, n) == IF n = 1 THEN Start ELSE MatchPrefix(f[n-1], Pre(name, n))

LEMMA DefExists ==
  ASSUME NEW name, NEW k \in Nat
  PROVE  \E f : f = [n \in 1..k |-> Def(name, f, n)]
<1> DEFINE T == {m \in Nat : ~\E f : f = [n \in 1..m |-> Def(name, f, n)]}
<1> SUFFICES ASSUME T # {} PROVE FALSE
  OBVIOUS
<1>1. PICK m \in T : \A y \in T : m <= y
  BY LeastNumber
<1>2. m \in Nat /\ ~\E f : f = [n \in 1..m |-> Def(name, f, n)]
  BY <1>1
<1>3. CASE m = 0
  <2> DEFINE e == [n \in {} |-> 0]
  <2>1. 1..m = {}
    BY <1>3
  <2>2. e = [n \in 1..m |-> Def(name, e, n)]
    BY <2>1
  <2> QED
    BY <1>2, <2>2
<1>4. CASE m # 0
  <2>1. m - 1 \in Nat /\ m - 1 \notin T
    BY <1>1, <1>2, <1>4
  <2>2. PICK f : f = [n \in 1 .. m-1 |-> Def(name, f, n)]
    BY <2>1
  <2> DEFINE g == [n \in 1..m |-> IF n = m THEN Def(name, f, n) ELSE f[n]]
  <2>3. ASSUME NEW n \in 1..m
        PROVE  g[n] = Def(name, g, n)
    <3>1. n = 1 \/ (n-1 \in 1 .. m-1 /\ n-1 \in 1..m /\ n-1 # m)
      BY <1>2, <1>4
    <3>2. n # 1 => g[n-1] = f[n-1]
      BY <3>1
    <3>3. Def(name, g, n) = Def(name, f, n)
      BY <3>2 DEF Def
    <3>4. CASE n = m
      BY <3>3, <3>4
    <3>5. CASE n # m
      <4>1. n \in 1 .. m-1
        BY <1>2, <3>5
      <4>2. f[n] = Def(name, f, n)
        BY <2>2, <4>1
      <4> QED
        BY <3>3, <3>5, <4>2
    <3> QED
      BY <3>4, <3>5
  <2>4. g = [n \in 1..m |-> Def(name, g, n)]
    BY <2>3
  <2> QED
    BY <1>2, <2>4
<1> QED
  BY <1>3, <1>4

LEMMA MatchedDef ==
  ASSUME NEW name, Len(name) \in Nat
  PROVE  Matched(name) = [n \in 1..Len(name) |-> Def(name, Matched(name), n)]
<1> DEFINE D(f) == [n \in 1..Len(name) |-> Def(name, f, n)]
<1>1. Matched(name) = CHOOSE f : f = D(f)
  BY DEF Matched, Def, Start
<1>2. \E f : f = D(f)
  BY DefExists
<1> HIDE DEF D
<1>3. Matched(name) = D(Matched(name))
  BY <1>1, <1>2
<1> QED
  BY <1>3 DEF D

LEMMA MatchedStep ==
  ASSUME NEW name, Len(name) \in Nat \ {0}
  PROVE  /\ Matched(name)[1] = Start
         /\ \A n \in 2..Len(name) :
              Matched(name)[n] = MatchPrefix(Matched(name)[n-1], Pre(name, n))
  BY MatchedDef DEF Def

\* Once a terminal prefix is met, nothing changes any more.
LEMMA MatchedStops ==
  ASSUME NEW name, Len(name) \in Nat \ {0}, NEW n \in 1..Len(name), Matched(name)[n].terminate
  PROVE  Matched(name)[Len(name)] = Matched(name)[n]
<1> DEFINE M == Matched(name)
           T == {m \in Nat : m \in n..Len(name) /\ M[m] # M[n]}
<1> SUFFICES ASSUME T # {} PROVE FALSE
  OBVIOUS
<1>1. PICK m \in T : \A y \in T : m <= y
  BY LeastNumber
<1>2. m \in n..Len(name) /\ M[m] # M[n] /\ m # n
  BY <1>1
<1>3. m-1 \in n..Len(name) /\ m-1 \notin T /\ m \in 2..Len(name) /\ m-1 \in Nat
  BY <1>1, <1>2
<1>4. M[m-1] = M[n]
  BY <1>3
<1>5. M[m] = MatchPrefix(M[m-1], Pre(name, m))
  BY <1>3, MatchedStep
<1>6. MatchPrefix(M[n], Pre(name, m)) = M[n]
  BY DEF MatchPrefix
<1> QED
  BY <1>2, <1>4, <1>5, <1>6

-----------------------------------------------------------------------------
(* goto.c: the locals of each name are those of nogoto.c.                  *)

\* Name i is at its end: finished, or on its way to fpp_end.
Ended(i) == i \in iMask \/ (pc = "fpp_end" /\ I = i)

NamesInv ==
  /\ pc \in {"caller", "goto", "fpp_end"} /\ I \in Slot
  /\ batch_rips \in [Slot -> {fpp_start, 1, 2, 3, fpp_end}]
  /\ iMask \subseteq Slot
  /\ \A i \in Slot : batch_rips[i] = fpp_end <=> i \in iMask
  /\ DOMAIN dst_ports = Slot /\ DOMAIN c_i = Slot
  /\ DOMAIN terminate = Slot /\ DOMAIN prefix_match_found = Slot
  /\ names[0] = <<>> => pc = "caller"
  /\ names[0] # <<>> => names \in [Slot -> Names]
  /\ Returned => iMask = Slot

\* The locals of name i are a.
Agrees(i, a) ==
  /\ dst_ports[i] = a.dst_port
  /\ terminate[i] = a.terminate
  /\ prefix_match_found[i] = a.prefix_match_found

\* A name that waits for a bucket of its prefix c_i has the locals of the
\* prefix before; one that waits for the second has missed in the first.
NameInv(i) ==
  LET p == Pre(names[i], c_i[i])
  IN  IF Ended(i) THEN dst_ports[i] = process_name_nogoto(names[i])
      ELSE batch_rips[i] \in {2, 3} =>
             /\ c_i[i] \in 2..Len(names[i])
             /\ Agrees(i, Matched(names[i])[c_i[i] - 1])
             /\ ~terminate[i]
             /\ batch_rips[i] = 3 => /\ ~prefix_match_found[i]
                                     /\ Find(ht, hash[p][1], p) = 0

LookupInv == NamesInv /\ (names[0] # <<>> => \A i \in Slot : NameInv(i))

LEMMA NamesFacts ==
  ASSUME NamesInv, names[0] # <<>>
  PROVE  \A i \in Slot : names[i] \in Names /\ names[i] # <<>> /\ Len(names[i]) \in Nat \ {0}
<1>1. \A u \in Names : u # <<>> /\ Len(u) \in Nat \ {0}
  BY NdnAssumption
<1> QED
  BY <1>1 DEF NamesInv

LEMMA NextInSlot ==
  ASSUME I \in Slot
  PROVE  NextSlot(PssWrap) \in Slot /\ NextSlot(EndWrap) \in Slot
<1>1. (I + 1) % BATCH_SIZE \in 0 .. BATCH_SIZE-1
  BY FppAssumption DEF Slot
<1> QED
  BY <1>1, NdnAssumption DEF NextSlot, NextMasked, Slot

\* The table is as it was.
LEMMA MatchedStill ==
  ASSUME UNCHANGED <<ht, hash>>
  PROVE  \A name : Matched(name)' = Matched(name)
<1>1. \A b, p : Find(ht, b, p)' = Find(ht, b, p)
  OBVIOUS
<1>2. \A a, b, p : Match(a, b, p)' = Match(a, b, p)
  BY <1>1 DEF Match
<1>3. \A a, p : MatchPrefix(a, p)' = MatchPrefix(a, p)
  BY <1>2 DEF MatchPrefix
<1> QED
  BY <1>3 DEF Matched

\* A step that leaves the locals and the place of name i alone.
LEMMA NameStill ==
  ASSUME UNCHANGED <<ht, hash, names>>, NEW i, NameInv(i),
         dst_ports'[i] = dst_ports[i], c_i'[i] = c_i[i], terminate'[i] = terminate[i],
         prefix_match_found'[i] = prefix_match_found[i],
         batch_rips'[i] = batch_rips[i] \/ Ended(i), Ended(i)' <=> Ended(i)
  PROVE  NameInv(i)'
<1> DEFINE M == Matched(names[i])
<1>1. M' = M
  BY MatchedStill
<1>2. process_name_nogoto(names[i])' = process_name_nogoto(names[i])
  BY <1>1 DEF process_name_nogoto
<1>3. Agrees(i, M[c_i[i] - 1])' = Agrees(i, M[c_i[i] - 1])
  BY <1>1 DEF Agrees
<1>4. Pre(names[i], c_i[i])' = Pre(names[i], c_i[i])
  OBVIOUS
<1> HIDE DEF M
<1>5. CASE Ended(i)
  BY <1>2, <1>5 DEF NameInv
<1>6. CASE ~Ended(i)
  BY <1>3, <1>4, <1>6 DEF NameInv, M
<1> QED
  BY <1>5, <1>6

\* FPP_PSS parks the current name k at a label.
LEMMA Parks ==
  ASSUME NamesInv, NEW l \in {1, 2, 3}, NEW k, k = I, pc = "goto", batch_rips[k] # fpp_end,
         FPP_PSS(l), UNCHANGED names, DOMAIN dst_ports' = Slot, DOMAIN c_i' = Slot,
         DOMAIN terminate' = Slot, DOMAIN prefix_match_found' = Slot
  PROVE  /\ NamesInv' /\ batch_rips'[k] = l /\ ~Ended(k)'
         /\ \A i \in Slot \ {k} : batch_rips'[i] = batch_rips[i] /\ (Ended(i)' <=> Ended(i))
<1>1. /\ batch_rips' = [batch_rips EXCEPT ![k] = l] /\ I' \in Slot /\ pc' = "goto"
      /\ iMask' = iMask /\ k \in Slot /\ l # fpp_end
  BY NextInSlot DEF FPP_PSS, NamesInv, fpp_end
<1>2. /\ batch_rips' \in [Slot -> {fpp_start, 1, 2, 3, fpp_end}] /\ batch_rips'[k] = l
      /\ \A i \in Slot \ {k} : batch_rips'[i] = batch_rips[i]
  BY <1>1 DEF NamesInv
<1>3. k \notin iMask
  BY <1>1 DEF NamesInv
<1>4. NamesInv'
  BY <1>1, <1>2, <1>3 DEF NamesInv, Returned, Slot, fpp_start, fpp_end
<1> QED
  BY <1>1, <1>2, <1>3, <1>4 DEF Ended

\* The current name goes on to fpp_end.
LEMMA Falls ==
  ASSUME NamesInv, NEW k, k = I, pc = "goto", FallThrough,
         UNCHANGED names, DOMAIN dst_ports' = Slot, DOMAIN c_i' = Slot,
         DOMAIN terminate' = Slot, DOMAIN prefix_match_found' = Slot
  PROVE  /\ NamesInv' /\ Ended(k)'
         /\ \A i \in Slot \ {k} : batch_rips'[i] = batch_rips[i] /\ (Ended(i)' <=> Ended(i))
<1>1. pc' = "fpp_end" /\ UNCHANGED <<I, batch_rips, iMask>>
  BY DEF FallThrough
<1>2. NamesInv'
  BY <1>1 DEF NamesInv, Returned, Slot, fpp_start, fpp_end
<1> QED
  BY <1>1, <1>2 DEF Ended

\* A name that has got to its end with the locals of a prefix that is its
\* last one or terminal.
LEMMA EndsWell ==
  ASSUME NamesInv, names[0] # <<>>, UNCHANGED <<ht, hash, names>>, NEW k \in Slot, Ended(k)',
         NEW n \in 1..Len(names[k]), dst_ports'[k] = Matched(names[k])[n].dst_port,
         n = Len(names[k]) \/ Matched(names[k])[n].terminate
  PROVE  NameInv(k)'
<1>1. Len(names[k]) \in Nat \ {0}
  BY NamesFacts
<1>2. Matched(names[k])[Len(names[k])].dst_port = Matched(names[k])[n].dst_port
  BY <1>1, MatchedStops
<1>3. process_name_nogoto(names[k])' = process_name_nogoto(names[k])
  BY MatchedStill DEF process_name_nogoto
<1> QED
  BY <1>2, <1>3 DEF NameInv, process_name_nogoto

\* The loop over the characters comes to the next prefix, or to the end.
LEMMA GoesOn ==
  ASSUME NamesInv, names[0] # <<>>, NEW k, k = I, pc = "goto", batch_rips[k] # fpp_end,
         UNCHANGED <<fibVars, names>>, NEW n \in 1..Len(names[k]), NextPrefix(n),
         DOMAIN dst_ports' = Slot, DOMAIN terminate' = Slot, DOMAIN prefix_match_found' = Slot,
         Agrees(k, Matched(names[k])[n])', ~terminate'[k]
  PROVE  /\ NamesInv' /\ NameInv(k)'
         /\ \A i \in Slot \ {k} : /\ c_i'[i] = c_i[i]
                                  /\ batch_rips'[i] = batch_rips[i] /\ (Ended(i)' <=> Ended(i))
<1>1. /\ k \in Slot /\ Len(names[k]) \in Nat \ {0} /\ UNCHANGED <<ht, hash, names>>
      /\ Matched(names[k])' = Matched(names[k])
  BY NamesFacts, MatchedStill DEF NamesInv, fibVars
<1>2. /\ c_i' = [c_i EXCEPT ![k] = n + 1] /\ c_i'[k] = n + 1 /\ DOMAIN c_i' = Slot
      /\ \A i \in Slot \ {k} : c_i'[i] = c_i[i]
  BY <1>1 DEF NextPrefix, NamesInv
<1>3. CASE n < Len(names[k])
  <2>1. FPP_PSS(2)
    BY <1>3 DEF NextPrefix
  <2>2. /\ NamesInv' /\ batch_rips'[k] = 2 /\ ~Ended(k)'
        /\ \A i \in Slot \ {k} : batch_rips'[i] = batch_rips[i] /\ (Ended(i)' <=> Ended(i))
    BY <1>1, <1>2, <2>1, Parks
  <2>3. c_i'[k] \in 2..Len(names'[k]) /\ c_i'[k] - 1 = n
    BY <1>1, <1>2, <1>3
  <2>4. NameInv(k)'
    BY <1>1, <2>2, <2>3 DEF NameInv
  <2> QED
    BY <1>2, <2>2, <2>4
<1>4. CASE ~(n < Len(names[k]))
  <2>1. FallThrough /\ n = Len(names[k])
    BY <1>1, <1>4 DEF NextPrefix
  <2>2. /\ NamesInv' /\ Ended(k)'
        /\ \A i \in Slot \ {k} : batch_rips'[i] = batch_rips[i] /\ (Ended(i)' <=> Ended(i))
    BY <1>1, <1>2, <2>1, Falls
  <2>3. dst_ports'[k] = Matched(names[k])[n].dst_port
    BY <1>1 DEF Agrees
  <2>4. NameInv(k)'
    BY <1>1, <2>1, <2>2, <2>3, EndsWell
  <2> QED
    BY <1>2, <2>2, <2>4
<1> QED
  BY <1>3, <1>4

\* The loop over the slots of a bucket does what it does in nogoto.c.
LEMMA ProbeMatches ==
  ASSUME NamesInv, NEW k, k = I, NEW p, p = Pre(names[k], c_i[k]), NEW b, NEW a, Agrees(k, a),
         Probe(b)
  PROVE  /\ dst_ports'[k] = Match(a, b, p).dst_port
         /\ terminate'[k] = Match(a, b, p).terminate
         /\ prefix_match_found'[k] = Match(a, b, p).prefix_match_found
         /\ Find(ht, b, p) = 0 => Match(a, b, p) = a
         /\ Find(ht, b, p) # 0 => Match(a, b, p).prefix_match_found
         /\ DOMAIN dst_ports' = Slot /\ DOMAIN terminate' = Slot
         /\ DOMAIN prefix_match_found' = Slot
         /\ \A i \in Slot \ {k} : /\ dst_ports'[i] = dst_ports[i]
                                  /\ terminate'[i] = terminate[i]
                                  /\ prefix_match_found'[i] = prefix_match_found[i]
<1> DEFINE s == Find(ht, b, p)
<1>1. k \in Slot
  BY DEF NamesInv
<1>2. CASE s = 0
  <2>1. UNCHANGED <<dst_ports, terminate, prefix_match_found>>
    BY <1>2 DEF Probe
  <2>2. Match(a, b, p) = a
    BY <1>2 DEF Match
  <2> QED
    BY <1>2, <2>1, <2>2 DEF Agrees, NamesInv
<1>3. CASE s # 0
  <2>1. /\ dst_ports' = [dst_ports EXCEPT ![k] = ht[b][s].dst_port]
        /\ terminate' = [terminate EXCEPT ![k] = @ \/ ht[b][s].is_terminal]
        /\ prefix_match_found' = [prefix_match_found EXCEPT ![k] = TRUE]
    BY <1>3 DEF Probe
  <2>2. Match(a, b, p) = [dst_port |-> ht[b][s].dst_port,
                          terminate |-> a.terminate \/ ht[b][s].is_terminal,
                          prefix_match_found |-> TRUE]
    BY <1>3 DEF Match
  <2> HIDE DEF s
  <2>3. terminate'[k] = (terminate[k] \/ ht[b][s].is_terminal) /\ terminate[k] = a.terminate
    BY <1>1, <2>1 DEF Agrees, NamesInv
  <2>4. Match(a, b, p).terminate = (a.terminate \/ ht[b][s].is_terminal)
    BY <2>2
  <2>5. terminate'[k] = Match(a, b, p).terminate
    BY <2>3, <2>4
  <2> QED
    BY <1>1, <1>3, <2>1, <2>2, <2>5 DEF NamesInv, s
<1> QED
  BY <1>2, <1>3

\* After the buckets of prefix n, with the locals nogoto.c has there.
LEMMA PrefixDone ==
  ASSUME NamesInv, names[0] # <<>>, NEW k, k = I, pc = "goto", batch_rips[k] # fpp_end,
         UNCHANGED <<fibVars, names>>, NEW n \in 2..Len(names[k]), n = c_i[k], AfterBuckets,
         DOMAIN dst_ports' = Slot, DOMAIN terminate' = Slot, DOMAIN prefix_match_found' = Slot,
         NEW a, a = Matched(names[k])[n],
         dst_ports'[k] = a.dst_port, terminate'[k] = a.terminate,
         prefix_match_found'[k] = a.prefix_match_found
  PROVE  /\ NamesInv' /\ NameInv(k)'
         /\ \A i \in Slot \ {k} : /\ c_i'[i] = c_i[i]
                                  /\ batch_rips'[i] = batch_rips[i] /\ (Ended(i)' <=> Ended(i))
<1>1. /\ k \in Slot /\ Len(names[k]) \in Nat \ {0} /\ UNCHANGED <<ht, hash, names>>
      /\ Matched(names[k])' = Matched(names[k])
  BY NamesFacts, MatchedStill DEF NamesInv, fibVars
<1>2. n \in 1..Len(names[k])
  OBVIOUS
<1>3. CASE a.terminate
  <2>1. FallThrough /\ UNCHANGED c_i
    BY <1>3 DEF AfterBuckets
  <2>2. /\ NamesInv' /\ Ended(k)'
        /\ \A i \in Slot \ {k} : batch_rips'[i] = batch_rips[i] /\ (Ended(i)' <=> Ended(i))
    BY <2>1, Falls DEF NamesInv
  <2>3. NameInv(k)'
    BY <1>1, <1>2, <1>3, <2>2, EndsWell
  <2> QED
    BY <2>1, <2>2, <2>3
<1>4. CASE ~a.terminate
  <2>1. NextPrefix(n) /\ ~terminate'[k]
    BY <1>4 DEF AfterBuckets
  <2>2. Agrees(k, Matched(names[k])[n])'
    BY <1>1 DEF Agrees
  <2> QED
    BY <1>1, <1>2, <2>1, <2>2, GoesOn
<1> QED
  BY <1>3, <1>4

\* What a step of a name at a bucket starts from.
LEMMA AtBucket ==
  ASSUME LookupInv, NEW l \in {2, 3}, At(l), NEW k, k = I, NEW n, n = c_i[k], NEW b, Probe(b),
         NEW p, p = Pre(names[k], n), NEW a, a = Matched(names[k])[n-1]
  PROVE  /\ pc = "goto" /\ names[0] # <<>> /\ k \in Slot /\ n \in 2..Len(names[k])
         /\ batch_rips[k] # fpp_end
         /\ Agrees(k, a) /\ ~a.terminate
         /\ l = 3 => ~a.prefix_match_found /\ Find(ht, hash[p][1], p) = 0
         /\ Matched(names[k])[n] = MatchPrefix(a, p)
<1>1. /\ NamesInv /\ pc = "goto" /\ names[0] # <<>> /\ k \in Slot /\ batch_rips[k] = l
      /\ l # fpp_end /\ ~Ended(k) /\ NameInv(k)
  BY DEF LookupInv, NamesInv, At, Ended, fpp_end
<1>2. /\ n \in 2..Len(names[k]) /\ Agrees(k, a) /\ ~terminate[k]
      /\ l = 3 => ~prefix_match_found[k] /\ Find(ht, hash[p][1], p) = 0
  BY <1>1 DEF NameInv
<1>3. /\ ~a.terminate
      /\ l = 3 => ~a.prefix_match_found
  BY <1>2 DEF Agrees
<1>4. Matched(names[k])[n] = MatchPrefix(a, p)
  BY <1>1, <1>2, NamesFacts, MatchedStep
<1> QED
  BY <1>1, <1>2, <1>3, <1>4

LEMMA FirstBucketStep ==
  ASSUME LookupInv, FirstBucket
  PROVE  LookupInv'
<1> PICK k : k = I
  OBVIOUS
<1> PICK n : n = c_i[k]
  OBVIOUS
<1> PICK p : p = Pre(names[k], n)
  OBVIOUS
<1> PICK b : b = hash[p][1]
  OBVIOUS
<1> PICK a : a = Matched(names[k])[n-1]
  OBVIOUS
<1> PICK f : f = Match(a, b, p)
  OBVIOUS
<1>1. /\ At(2) /\ Probe(b) /\ UNCHANGED <<fibVars, names>>
      /\ IF prefix_match_found'[k] THEN AfterBuckets ELSE FPP_PSS(3) /\ UNCHANGED c_i
  BY DEF FirstBucket
<1>2. /\ pc = "goto" /\ names[0] # <<>> /\ k \in Slot /\ n \in 2..Len(names[k])
      /\ batch_rips[k] # fpp_end
      /\ Agrees(k, a) /\ ~a.terminate
      /\ Matched(names[k])[n] = MatchPrefix(a, p)
  BY <1>1, AtBucket
<1>3. NamesInv /\ \A i \in Slot : NameInv(i)
  BY <1>2 DEF LookupInv
<1>4. /\ dst_ports'[k] = f.dst_port
      /\ terminate'[k] = f.terminate
      /\ prefix_match_found'[k] = f.prefix_match_found
      /\ Find(ht, b, p) = 0 => f = a
      /\ Find(ht, b, p) # 0 => f.prefix_match_found
      /\ DOMAIN dst_ports' = Slot /\ DOMAIN terminate' = Slot
      /\ DOMAIN prefix_match_found' = Slot
      /\ \A i \in Slot \ {k} : /\ dst_ports'[i] = dst_ports[i]
                               /\ terminate'[i] = terminate[i]
                               /\ prefix_match_found'[i] = prefix_match_found[i]
  BY <1>1, <1>2, <1>3, ProbeMatches
<1>5. UNCHANGED <<ht, hash, names>>
  BY <1>1 DEF fibVars
<1>6. /\ NamesInv' /\ NameInv(k)'
      /\ \A i \in Slot \ {k} : /\ c_i'[i] = c_i[i]
                               /\ batch_rips'[i] = batch_rips[i] /\ (Ended(i)' <=> Ended(i))
  <2>1. CASE f.prefix_match_found
    <3>1. Matched(names[k])[n] = f
      BY <1>2, <2>1 DEF MatchPrefix
    <3>2. AfterBuckets
      BY <1>1, <1>4, <2>1
    <3> QED
      BY <1>1, <1>2, <1>3, <1>4, <3>1, <3>2, PrefixDone
  <2>2. CASE ~f.prefix_match_found
    <3>1. FPP_PSS(3) /\ UNCHANGED c_i
      BY <1>1, <1>4, <2>2
    <3>2. Find(ht, b, p) = 0 /\ f = a
      BY <1>4, <2>2
    <3>3. DOMAIN c_i' = Slot
      BY <1>3, <3>1 DEF NamesInv
    <3>4. /\ NamesInv' /\ batch_rips'[k] = 3 /\ ~Ended(k)'
          /\ \A i \in Slot \ {k} : batch_rips'[i] = batch_rips[i] /\ (Ended(i)' <=> Ended(i))
      BY <1>1, <1>2, <1>3, <1>4, <3>1, <3>3, Parks
    <3>5. Agrees(k, Matched(names[k])[c_i[k] - 1])'
      BY <1>4, <1>5, <3>1, <3>2, MatchedStill DEF Agrees
    <3>6. /\ c_i'[k] \in 2..Len(names'[k]) /\ ~terminate'[k] /\ ~prefix_match_found'[k]
          /\ Find(ht', hash'[p][1], p) = 0 /\ p = Pre(names'[k], c_i'[k])
      BY <1>2, <1>4, <1>5, <2>2, <3>1, <3>2
    <3>7. NameInv(k)'
      BY <3>4, <3>5, <3>6 DEF NameInv
    <3> QED
      BY <3>1, <3>4, <3>7
  <2> QED
    BY <2>1, <2>2
<1>7. ASSUME NEW i \in Slot \ {k}
      PROVE  NameInv(i)'
  BY <1>3, <1>4, <1>5, <1>6, NameStill
<1> QED
  BY <1>6, <1>7 DEF LookupInv

LEMMA SecondBucketStep ==
  ASSUME LookupInv, SecondBucket
  PROVE  LookupInv'
<1> PICK k : k = I
  OBVIOUS
<1> PICK n : n = c_i[k]
  OBVIOUS
<1> PICK p : p = Pre(names[k], n)
  OBVIOUS
<1> PICK b : b = hash[p][2]
  OBVIOUS
<1> PICK a : a = Matched(names[k])[n-1]
  OBVIOUS
<1> PICK f : f = Match(a, b, p)
  OBVIOUS
<1>1. At(3) /\ Probe(b) /\ UNCHANGED <<fibVars, names>> /\ AfterBuckets
  BY DEF SecondBucket
<1>2. /\ pc = "goto" /\ names[0] # <<>> /\ k \in Slot /\ n \in 2..Len(names[k])
      /\ batch_rips[k] # fpp_end
      /\ Agrees(k, a) /\ ~a.terminate
      /\ ~a.prefix_match_found /\ Find(ht, hash[p][1], p) = 0
      /\ Matched(names[k])[n] = MatchPrefix(a, p)
  BY <1>1, AtBucket
<1>3. NamesInv /\ \A i \in Slot : NameInv(i)
  BY <1>2 DEF LookupInv
<1>4. /\ dst_ports'[k] = f.dst_port
      /\ terminate'[k] = f.terminate
      /\ prefix_match_found'[k] = f.prefix_match_found
      /\ DOMAIN dst_ports' = Slot /\ DOMAIN terminate' = Slot
      /\ DOMAIN prefix_match_found' = Slot
      /\ \A i \in Slot \ {k} : /\ dst_ports'[i] = dst_ports[i]
                               /\ terminate'[i] = terminate[i]
                               /\ prefix_match_found'[i] = prefix_match_found[i]
  BY <1>1, <1>2, <1>3, ProbeMatches
<1>5. Matched(names[k])[n] = f
  <2>1. Match(a, hash[p][1], p) = a
    BY <1>2 DEF Match
  <2> QED
    BY <1>2, <2>1 DEF MatchPrefix
<1>6. /\ NamesInv' /\ NameInv(k)'
      /\ \A i \in Slot \ {k} : /\ c_i'[i] = c_i[i]
                               /\ batch_rips'[i] = batch_rips[i] /\ (Ended(i)' <=> Ended(i))
  BY <1>1, <1>2, <1>3, <1>4, <1>5, PrefixDone
<1>7. UNCHANGED <<ht, hash, names>>
  BY <1>1 DEF fibVars
<1>8. ASSUME NEW i \in Slot \ {k}
      PROVE  NameInv(i)'
  BY <1>3, <1>4, <1>6, <1>7, NameStill
<1> QED
  BY <1>6, <1>8 DEF LookupInv

LEMMA StartNameStep ==
  ASSUME LookupInv, StartName
  PROVE  LookupInv'
<1> PICK k : k = I
  OBVIOUS
<1>1. /\ At(1) /\ UNCHANGED <<fibVars, names>> /\ NextPrefix(1)
      /\ terminate' = [terminate EXCEPT ![k] = FALSE]
      /\ prefix_match_found' = [prefix_match_found EXCEPT ![k] = FALSE]
      /\ dst_ports' = [dst_ports EXCEPT ![k] = -1]
  BY DEF StartName
<1>2. /\ pc = "goto" /\ names[0] # <<>> /\ k \in Slot /\ batch_rips[k] # fpp_end
      /\ NamesInv /\ \A i \in Slot : NameInv(i)
  BY <1>1 DEF LookupInv, NamesInv, At, fpp_end
<1>3. Len(names[k]) \in Nat \ {0}
  BY <1>2, NamesFacts
<1>4. /\ DOMAIN dst_ports' = Slot /\ DOMAIN terminate' = Slot /\ DOMAIN prefix_match_found' = Slot
      /\ dst_ports'[k] = -1 /\ terminate'[k] = FALSE /\ prefix_match_found'[k] = FALSE
      /\ \A i \in Slot \ {k} : /\ dst_ports'[i] = dst_ports[i]
                               /\ terminate'[i] = terminate[i]
                               /\ prefix_match_found'[i] = prefix_match_found[i]
  BY <1>1, <1>2 DEF NamesInv
<1>5. UNCHANGED <<ht, hash, names>>
  BY <1>1 DEF fibVars
<1>6. Agrees(k, Matched(names[k])[1])'
  <2>1. (Matched(names[k])[1])' = Start
    BY <1>3, <1>5, MatchedStill, MatchedStep
  <2>2. Start.dst_port = -1 /\ Start.terminate = FALSE /\ Start.prefix_match_found = FALSE
    BY DEF Start
  <2>3. /\ dst_ports'[k] = Start.dst_port /\ terminate'[k] = Start.terminate
        /\ prefix_match_found'[k] = Start.prefix_match_found
    BY <1>4, <2>2, Zenon
  <2> QED
    BY <2>1, <2>3, Zenon DEF Agrees
<1>7. /\ NamesInv' /\ NameInv(k)'
      /\ \A i \in Slot \ {k} : /\ c_i'[i] = c_i[i]
                               /\ batch_rips'[i] = batch_rips[i] /\ (Ended(i)' <=> Ended(i))
  <2>1. 1 \in 1..Len(names[k]) /\ ~terminate'[k]
    BY <1>3, <1>4
  <2> QED
    BY <1>1, <1>2, <1>4, <1>6, <2>1, GoesOn
<1>8. ASSUME NEW i \in Slot \ {k}
      PROVE  NameInv(i)'
  BY <1>2, <1>4, <1>5, <1>7, NameStill
<1> QED
  BY <1>7, <1>8 DEF LookupInv

LEMMA FetchNameStep ==
  ASSUME LookupInv, FetchName
  PROVE  LookupInv'
<1> PICK k : k = I
  OBVIOUS
<1>1. /\ At(fpp_start) /\ FPP_PSS(1) /\ UNCHANGED <<ht, hash, names>>
      /\ UNCHANGED <<dst_ports, c_i, terminate, prefix_match_found>>
  BY DEF FetchName, fibVars, nameVars
<1>2. /\ pc = "goto" /\ names[0] # <<>> /\ k \in Slot /\ batch_rips[k] # fpp_end
      /\ NamesInv /\ \A i \in Slot : NameInv(i)
  BY <1>1 DEF LookupInv, NamesInv, At, fpp_start, fpp_end
<1>3. /\ NamesInv' /\ batch_rips'[k] = 1 /\ ~Ended(k)'
      /\ \A i \in Slot \ {k} : batch_rips'[i] = batch_rips[i] /\ (Ended(i)' <=> Ended(i))
  BY <1>1, <1>2, Parks DEF NamesInv
<1>4. NameInv(k)'
  BY <1>3 DEF NameInv
<1>5. ASSUME NEW i \in Slot \ {k}
      PROVE  NameInv(i)'
  BY <1>1, <1>2, <1>3, NameStill
<1> QED
  BY <1>3, <1>4, <1>5 DEF LookupInv

LEMMA SkipStep ==
  ASSUME LookupInv, Skip
  PROVE  LookupInv'
<1> PICK k : k = I
  OBVIOUS
<1>1. /\ Revisit /\ UNCHANGED <<ht, hash, names>>
      /\ UNCHANGED <<dst_ports, c_i, terminate, prefix_match_found>>
  BY DEF Skip, fibVars, nameVars
<1>2. /\ pc = "goto" /\ names[0] # <<>> /\ k \in Slot /\ batch_rips[k] = fpp_end /\ FallThrough
      /\ NamesInv /\ \A i \in Slot : NameInv(i)
  BY <1>1 DEF LookupInv, NamesInv, Revisit
<1>3. /\ NamesInv' /\ Ended(k)' /\ UNCHANGED batch_rips
      /\ \A i \in Slot \ {k} : (Ended(i)' <=> Ended(i))
  BY <1>1, <1>2, Falls DEF NamesInv, FallThrough
<1>4. Ended(k)
  BY <1>2 DEF Ended, NamesInv
<1>5. ASSUME NEW i \in Slot
      PROVE  NameInv(i)'
  BY <1>1, <1>2, <1>3, <1>4, NameStill
<1> QED
  BY <1>3, <1>5 DEF LookupInv

LEMMA FinishStep ==
  ASSUME LookupInv, Finish
  PROVE  LookupInv'
<1> PICK k : k = I
  OBVIOUS
<1>1. /\ FppEnd /\ UNCHANGED <<ht, hash, names>>
      /\ UNCHANGED <<dst_ports, c_i, terminate, prefix_match_found>>
  BY DEF Finish, fibVars, nameVars
<1>2. /\ pc = "fpp_end" /\ names[0] # <<>> /\ k \in Slot
      /\ NamesInv /\ \A i \in Slot : NameInv(i)
  BY <1>1 DEF LookupInv, NamesInv, FppEnd
<1>3. /\ batch_rips' = [batch_rips EXCEPT ![k] = fpp_end] /\ iMask' = iMask \union {k}
      /\ I' \in Slot /\ pc' \in {"caller", "goto"}
      /\ pc' = "caller" => iMask' = Slot
  BY <1>1, <1>2, NextInSlot, NdnAssumption DEF FppEnd, FullMask, Slot, NamesInv
<1>4. /\ batch_rips' \in [Slot -> {fpp_start, 1, 2, 3, fpp_end}] /\ batch_rips'[k] = fpp_end
      /\ \A i \in Slot \ {k} : batch_rips'[i] = batch_rips[i]
  BY <1>2, <1>3 DEF NamesInv
<1>5. NamesInv'
  BY <1>1, <1>2, <1>3, <1>4 DEF NamesInv, Returned, Slot, fpp_start, fpp_end
<1>6. \A i \in Slot : Ended(i)' <=> Ended(i)
  BY <1>2, <1>3 DEF Ended
<1>7. Ended(k)
  BY <1>2 DEF Ended
<1>8. ASSUME NEW i \in Slot
      PROVE  NameInv(i)'
  BY <1>1, <1>2, <1>4, <1>6, <1>7, NameStill
<1> QED
  BY <1>5, <1>8 DEF LookupInv

LEMMA CallStep ==
  ASSUME LookupInv, NEW batch \in [Slot -> Names], Call(batch)
  PROVE  LookupInv'
<1>1. /\ names' = batch /\ dst_ports' = [i \in Slot |-> -1] /\ pc' = "goto" /\ I' = 0
      /\ batch_rips' = [i \in Slot |-> fpp_start] /\ iMask' = {}
      /\ UNCHANGED <<c_i, terminate, prefix_match_found>>
  BY DEF Call, FppEnter
<1>2. 0 \in Slot /\ batch[0] \in Names /\ batch[0] # <<>>
  <2>1. 0 \in Slot
    BY FppAssumption DEF Slot
  <2> QED
    BY <2>1, NdnAssumption
<1>3. NamesInv'
  BY <1>1, <1>2 DEF LookupInv, NamesInv, Returned, Slot, fpp_start, fpp_end
<1>4. ASSUME NEW i \in Slot
      PROVE  NameInv(i)'
  BY <1>1 DEF NameInv, Ended, Slot, fpp_start
<1> QED
  BY <1>3, <1>4 DEF LookupInv

LEMMA InsertLookup ==
  ASSUME LookupInv, NEW u, NEW d, InsertUrl(u, d)
  PROVE  LookupInv'
<1>1. /\ names[0] = <<>> /\ UNCHANGED <<pc, I, batch_rips, iMask>>
      /\ UNCHANGED <<names, dst_ports, c_i, terminate, prefix_match_found>>
  BY DEF InsertUrl, fppVars, nameVars
<1> QED
  BY <1>1 DEF LookupInv, NamesInv, Returned, Slot, fpp_start, fpp_end

LEMMA LookupStep == LookupInv /\ [Next]_vars => LookupInv'
<1> SUFFICES ASSUME LookupInv, [Next]_vars PROVE LookupInv'
  OBVIOUS
<1>1. CASE Next
  BY <1>1, InsertLookup, CallStep, FetchNameStep, StartNameStep, FirstBucketStep,
     SecondBucketStep, FinishStep, SkipStep DEF Next
<1>2. CASE UNCHANGED vars
  <2>1. /\ UNCHANGED <<pc, I, batch_rips, iMask, ht, hash>>
        /\ UNCHANGED <<names, dst_ports, c_i, terminate, prefix_match_found>>
    BY <1>2 DEF vars, fppVars, fibVars, nameVars
  <2>2. NamesInv'
    BY <2>1 DEF LookupInv, NamesInv, Returned, Slot, fpp_start, fpp_end
  <2>3. ASSUME NEW i \in Slot, NameInv(i)
        PROVE  NameInv(i)'
    <3>1. Ended(i)' <=> Ended(i)
      BY <2>1 DEF Ended
    <3> QED
      BY <2>1, <2>3, <3>1, NameStill
  <2> QED
    BY <2>1, <2>2, <2>3 DEF LookupInv, Slot
<1> QED
  BY <1>1, <1>2

LEMMA LookupInit == Init => LookupInv
<1> SUFFICES ASSUME Init PROVE LookupInv
  OBVIOUS
<1>1. 0 \in Slot
  BY FppAssumption DEF Slot
<1>2. names[0] = <<>>
  BY <1>1 DEF Init
<1> QED
  BY <1>1, <1>2 DEF Init, LookupInv, NamesInv, Returned, fpp_start, fpp_end

(* The interleaved lookup of goto.c finds for every name what nogoto.c     *)
(* finds, for any batch size, any names, any table and any hash function.  *)
THEOREM LookupsAgree == Spec => []VersionsAgree
<1>1. LookupInv => VersionsAgree
  <2> SUFFICES ASSUME LookupInv, Returned, NEW i \in Slot
               PROVE  dst_ports[i] = process_name_nogoto(names[i])
    BY DEF VersionsAgree
  <2>1. Ended(i) /\ NameInv(i)
    BY DEF LookupInv, NamesInv, Returned, Ended
  <2> QED
    BY <2>1 DEF NameInv
<1> QED
  BY <1>1, LookupInit, LookupStep, PTL DEF Spec

-----------------------------------------------------------------------------
(* ndn.c: the table that ndn_init builds.                                  *)

LEMMA MinOf ==
  ASSUME NEW T, T \subseteq Nat, T # {}
  PROVE  Min(T) \in T /\ \A y \in T : Min(T) <= y
<1>1. \E x \in T : \A y \in T : x <= y
  BY LeastNumber
<1> QED
  BY <1>1 DEF Min

LEMMA MaxOf ==
  ASSUME NEW n \in Nat, NEW T, T \subseteq 1..n, T # {}
  PROVE  Max(T) \in T /\ \A y \in T : Max(T) >= y
<1> DEFINE R == {x \in Nat : n - x \in T}
<1>1. PICK t \in T : TRUE
  OBVIOUS
<1>2. n - t \in R /\ R \subseteq Nat
  BY <1>1
<1>3. PICK x \in R : \A y \in R : x <= y
  BY <1>2, LeastNumber
<1>4. n - x \in T
  BY <1>3
<1>5. ASSUME NEW y \in T
      PROVE  n - x >= y
  <2>1. n - y \in Nat /\ n - (n - y) = y
    BY <1>5
  <2>2. n - y \in R
    BY <2>1
  <2>3. x <= n - y /\ x \in Nat /\ y \in Nat
    BY <1>3, <2>2
  <2> QED
    BY <2>3
<1> QED
  BY <1>4, <1>5 DEF Max

Slots  == [dst_port : Ports \union {-1}, is_terminal : BOOLEAN, cityhash : Prefix \union {<<>>}]
Tables == [Bkt -> [1..NDN_NUM_SLOTS -> Slots]]

\* Slot s of bucket b holds p.
Holds(t, b, s, p) == t[b][s].dst_port >= 0 /\ t[b][s].cityhash = p
Full(t, b) == \A s \in 1..NDN_NUM_SLOTS : t[b][s].dst_port # -1

LEMMA FindIs ==
  ASSUME NEW t \in Tables, NEW b \in Bkt, NEW p
  PROVE  /\ Find(t, b, p) = 0 => \A s \in 1..NDN_NUM_SLOTS : ~Holds(t, b, s, p)
         /\ Find(t, b, p) # 0 => /\ Find(t, b, p) \in 1..NDN_NUM_SLOTS
                                 /\ Holds(t, b, Find(t, b, p), p)
<1> DEFINE T == {s \in 1..Len(t[b]) : Holds(t, b, s, p)}
<1>1. Len(t[b]) = NDN_NUM_SLOTS
  BY NdnAssumption DEF Tables
<1>2. Find(t, b, p) = IF T # {} THEN Min(T) ELSE 0
  BY DEF Find, SelectInSeq, Holds
<1>3. T # {} => Min(T) \in T
  <2>1. T \subseteq Nat
    BY <1>1, NdnAssumption
  <2> QED
    BY <2>1, MinOf
<1> QED
  BY <1>1, <1>2, <1>3, NdnAssumption

LEMMA FreeSlotIs ==
  ASSUME NEW t \in Tables, NEW b \in Bkt
  PROVE  /\ FreeSlot(t, b) = 0 <=> Full(t, b)
         /\ FreeSlot(t, b) # 0 => /\ FreeSlot(t, b) \in 1..NDN_NUM_SLOTS
                                  /\ t[b][FreeSlot(t, b)].dst_port = -1
<1> DEFINE T == {s \in 1..Len(t[b]) : t[b][s].dst_port = -1}
<1>1. Len(t[b]) = NDN_NUM_SLOTS
  BY NdnAssumption DEF Tables
<1>2. FreeSlot(t, b) = IF T # {} THEN Min(T) ELSE 0
  BY DEF FreeSlot, SelectInSeq
<1>3. T # {} => Min(T) \in T
  <2>1. T \subseteq Nat
    BY <1>1, NdnAssumption
  <2> QED
    BY <2>1, MinOf
<1> QED
  BY <1>1, <1>2, <1>3, NdnAssumption DEF Full

\* p has a slot in one of its buckets, and no other.
Kept(t, p, port, X) ==
  \E b \in {hash[p][1], hash[p][2]}, s \in 1..NDN_NUM_SLOTS :
    /\ Holds(t, b, s, p) /\ t[b][s].dst_port = port /\ (t[b][s].is_terminal <=> p \notin X)
    /\ \A c \in Bkt, r \in 1..NDN_NUM_SLOTS : Holds(t, c, r, p) => c = b /\ r = s

\* p was inserted and found its buckets full.
Missed(t, p) ==
  /\ \A b \in Bkt, s \in 1..NDN_NUM_SLOTS : ~Holds(t, b, s, p)
  /\ Full(t, hash[p][1]) /\ Full(t, hash[p][2])

\* The table t holds the prefixes K with the ports of P, those of X not
\* terminal, except for some that were missed, and nf tells whether any was.
Built(t, nf, K, P, X) ==
  /\ t \in Tables /\ nf \in Nat
  /\ X \subseteq K /\ K \subseteq Prefix
  /\ \A b \in Bkt, s \in 1..NDN_NUM_SLOTS : t[b][s].dst_port >= 0 => t[b][s].cityhash \in K
  /\ \A p \in K : Missed(t, p) \/ Kept(t, p, P[p], X)
  /\ nf > 0 <=> \E p \in K : Missed(t, p)

HashOk == hash \in [Prefix -> Bkt \X Bkt]

LEMMA LocatedIs ==
  ASSUME HashOk, NEW t \in Tables, NEW p \in Prefix
  PROVE  /\ Located(t, p)[2] = 0 =>
              \A b \in {hash[p][1], hash[p][2]}, s \in 1..NDN_NUM_SLOTS : ~Holds(t, b, s, p)
         /\ Located(t, p)[2] # 0 =>
              /\ Located(t, p)[1] \in {hash[p][1], hash[p][2]}
              /\ Located(t, p)[2] \in 1..NDN_NUM_SLOTS
              /\ Holds(t, Located(t, p)[1], Located(t, p)[2], p)
<1>1. hash[p][1] \in Bkt /\ hash[p][2] \in Bkt
  BY DEF HashOk
<1> DEFINE b == IF Find(t, hash[p][1], p) # 0 THEN hash[p][1] ELSE hash[p][2]
<1>2. Located(t, p)[1] = b /\ Located(t, p)[2] = Find(t, b, p)
  BY DEF Located
<1> QED
  BY <1>1, <1>2, FindIs

\* Slot s of bucket b of p changes from t to u, and nothing else.
Differ(t, u, b, s) ==
  \A c \in Bkt, r \in 1..NDN_NUM_SLOTS : <<c, r>> # <<b, s>> => u[c][r] = t[c][r]

\* A change of a slot that holds p, or is free and then holds p, leaves the
\* other prefixes alone.
LEMMA OthersKept ==
  ASSUME HashOk, NEW t \in Tables, NEW u \in Tables, NEW b \in Bkt, NEW s \in 1..NDN_NUM_SLOTS,
         NEW p \in Prefix, Differ(t, u, b, s), Holds(u, b, s, p),
         t[b][s].dst_port = -1 \/ Holds(t, b, s, p),
         NEW q \in Prefix \ {p}
  PROVE  /\ \A c \in Bkt, r \in 1..NDN_NUM_SLOTS : Holds(u, c, r, q) <=> Holds(t, c, r, q)
         /\ Missed(t, q) => Missed(u, q)
         /\ \A port, X, Y : (q \in X <=> q \in Y) /\ Kept(t, q, port, X) => Kept(u, q, port, Y)
         /\ \A port, X : Missed(u, q) => ~Kept(t, q, port, X)
<1>1. hash[q][1] \in Bkt /\ hash[q][2] \in Bkt
  BY DEF HashOk
<1>2. ASSUME NEW c \in Bkt, NEW r \in 1..NDN_NUM_SLOTS
      PROVE  /\ Holds(u, c, r, q) <=> Holds(t, c, r, q)
             /\ Holds(t, c, r, q) => u[c][r] = t[c][r]
             /\ t[c][r].dst_port # -1 => u[c][r].dst_port # -1
  <2>1. CASE c = b /\ r = s
    BY <2>1 DEF Holds
  <2>2. CASE ~(c = b /\ r = s)
    <3>1. u[c][r] = t[c][r]
      BY <2>2 DEF Differ
    <3> QED
      BY <3>1 DEF Holds
  <2> QED
    BY <2>1, <2>2
<1>3. Missed(t, q) => Missed(u, q)
  BY <1>1, <1>2 DEF Missed, Full
<1>4. ASSUME NEW port, NEW X, NEW Y, q \in X <=> q \in Y, Kept(t, q, port, X)
      PROVE  Kept(u, q, port, Y)
  <2>1. PICK c \in {hash[q][1], hash[q][2]}, r \in 1..NDN_NUM_SLOTS :
          /\ Holds(t, c, r, q) /\ t[c][r].dst_port = port /\ (t[c][r].is_terminal <=> q \notin X)
          /\ \A c2 \in Bkt, r2 \in 1..NDN_NUM_SLOTS : Holds(t, c2, r2, q) => c2 = c /\ r2 = r
    BY <1>4 DEF Kept
  <2>2. u[c][r] = t[c][r] /\ Holds(u, c, r, q)
    BY <1>1, <1>2, <2>1
  <2>3. \A c2 \in Bkt, r2 \in 1..NDN_NUM_SLOTS : Holds(u, c2, r2, q) => c2 = c /\ r2 = r
    BY <1>2, <2>1
  <2> QED
    BY <1>4, <2>1, <2>2, <2>3 DEF Kept
<1>5. ASSUME NEW port, NEW X, Missed(u, q), Kept(t, q, port, X)
      PROVE  FALSE
  <2>1. PICK c \in {hash[q][1], hash[q][2]}, r \in 1..NDN_NUM_SLOTS : Holds(t, c, r, q)
    BY <1>5 DEF Kept
  <2> QED
    BY <1>1, <1>2, <1>5, <2>1 DEF Missed
<1> QED
  BY <1>2, <1>3, <1>4, <1>5

\* From K, P, X to K with p, Q, Y only p has changed.
Only(p, K, P, X, Q, Y) ==
  Y \subseteq K \union {p} /\ \A q \in K \ {p} : Q[q] = P[q] /\ (q \in X <=> q \in Y)

\* Slot s of bucket b, which held p or was free, holds p with port and mark.
Sets(t, u, b, s, p, port, Y) ==
  /\ b \in {hash[p][1], hash[p][2]} /\ s \in 1..NDN_NUM_SLOTS
  /\ u \in Tables /\ Differ(t, u, b, s) /\ Holds(u, b, s, p)
  /\ t[b][s].dst_port = -1 \/ Holds(t, b, s, p)
  /\ \A c \in Bkt, r \in 1..NDN_NUM_SLOTS : Holds(t, c, r, p) => c = b /\ r = s
  /\ port = u[b][s].dst_port /\ (u[b][s].is_terminal <=> p \notin Y)

LEMMA SlotSet ==
  ASSUME HashOk, NEW t, NEW nf, NEW K, NEW P, NEW X, Built(t, nf, K, P, X), NEW p \in Prefix,
         Missed(t, p) => p \notin K, NEW Q, NEW Y, Only(p, K, P, X, Q, Y),
         NEW u, NEW b, NEW s, Sets(t, u, b, s, p, Q[p], Y)
  PROVE  Built(u, nf, K \union {p}, Q, Y)
<1> DEFINE KK == K \union {p}
<1>1. t \in Tables /\ b \in Bkt /\ KK \subseteq Prefix /\ nf \in Nat /\ Y \subseteq KK
  BY DEF Built, HashOk, Sets, Only
<1>2. /\ b \in {hash[p][1], hash[p][2]} /\ s \in 1..NDN_NUM_SLOTS
      /\ u \in Tables /\ Differ(t, u, b, s) /\ Holds(u, b, s, p)
      /\ t[b][s].dst_port = -1 \/ Holds(t, b, s, p)
      /\ \A c \in Bkt, r \in 1..NDN_NUM_SLOTS : Holds(t, c, r, p) => c = b /\ r = s
      /\ Q[p] = u[b][s].dst_port /\ (u[b][s].is_terminal <=> p \notin Y)
  BY DEF Sets
<1>3. Kept(u, p, Q[p], Y) /\ ~Missed(u, p)
  <2>1. \A c \in Bkt, r \in 1..NDN_NUM_SLOTS : Holds(u, c, r, p) => c = b /\ r = s
    BY <1>2 DEF Differ, Holds
  <2>2. Kept(u, p, Q[p], Y)
    BY <1>2, <2>1 DEF Kept
  <2> QED
    BY <1>1, <1>2, <2>2 DEF Missed
<1>4. ASSUME NEW q \in K \ {p}
      PROVE  /\ Missed(t, q) <=> Missed(u, q)
             /\ Missed(u, q) \/ Kept(u, q, Q[q], Y)
  <2>1. q \in Prefix \ {p} /\ Q[q] = P[q] /\ (q \in X <=> q \in Y)
    BY DEF Built, Only
  <2>2. /\ Missed(t, q) => Missed(u, q)
        /\ Kept(t, q, P[q], X) => Kept(u, q, P[q], Y)
        /\ Missed(u, q) => ~Kept(t, q, P[q], X)
    BY <1>1, <1>2, <2>1, OthersKept
  <2> QED
    BY <2>1, <2>2 DEF Built
<1>5. \A c \in Bkt, r \in 1..NDN_NUM_SLOTS : u[c][r].dst_port >= 0 => u[c][r].cityhash \in KK
  BY <1>2 DEF Differ, Built, Holds
<1>6. nf > 0 <=> \E q \in KK : Missed(u, q)
  BY <1>3, <1>4 DEF Built
<1>7. \A q \in KK : Missed(u, q) \/ Kept(u, q, Q[q], Y)
  BY <1>3, <1>4
<1> QED
  BY <1>1, <1>2, <1>5, <1>6, <1>7 DEF Built

\* Both buckets of p are full.
LEMMA SlotMissed ==
  ASSUME HashOk, NEW t, NEW nf, NEW K, NEW P, NEW X, Built(t, nf, K, P, X), NEW p \in Prefix,
         Located(t, p)[2] = 0, Full(t, hash[p][1]), Full(t, hash[p][2]),
         NEW Q, NEW Y, Only(p, K, P, X, Q, Y)
  PROVE  Built(t, nf + 1, K \union {p}, Q, Y)
<1> DEFINE KK == K \union {p}
<1>1. t \in Tables /\ nf + 1 \in Nat /\ nf + 1 > 0 /\ KK \subseteq Prefix /\ Y \subseteq KK
  BY DEF Built, Only
<1>2. \A c \in {hash[p][1], hash[p][2]}, r \in 1..NDN_NUM_SLOTS : ~Holds(t, c, r, p)
  BY <1>1, LocatedIs
<1>3. Missed(t, p)
  <2>1. CASE p \in K
    <3>1. ~Kept(t, p, P[p], X)
      BY <1>2 DEF Kept
    <3> QED
      BY <2>1, <3>1 DEF Built
  <2>2. CASE p \notin K
    <3>1. \A c \in Bkt, r \in 1..NDN_NUM_SLOTS : ~Holds(t, c, r, p)
      BY <2>2 DEF Built, Holds
    <3> QED
      BY <3>1 DEF Missed
  <2> QED
    BY <2>1, <2>2
<1>4. ASSUME NEW q \in KK
      PROVE  Missed(t, q) \/ Kept(t, q, Q[q], Y)
  <2> SUFFICES ASSUME q # p
               PROVE  Missed(t, q) \/ Kept(t, q, Q[q], Y)
    BY <1>3
  <2>1. Missed(t, q) \/ Kept(t, q, P[q], X)
    BY DEF Built
  <2>2. Q[q] = P[q] /\ (q \in X <=> q \in Y)
    BY DEF Only
  <2>3. Kept(t, q, P[q], X) => Kept(t, q, P[q], Y)
    BY <2>2 DEF Kept
  <2> QED
    BY <2>1, <2>2, <2>3
<1>5. \A c \in Bkt, r \in 1..NDN_NUM_SLOTS : t[c][r].dst_port >= 0 => t[c][r].cityhash \in KK
  BY DEF Built
<1> QED
  BY <1>1, <1>3, <1>4, <1>5 DEF Built

\* The bucket of p that ndn_ht_insert puts it in.
Into(t, p) == IF FreeSlot(t, hash[p][1]) # 0 THEN hash[p][1] ELSE hash[p][2]

\* What ndn_contains and ndn_ht_insert go by.
LEMMA HeldAt ==
  ASSUME HashOk, NEW t, NEW nf, NEW K, NEW P, NEW X, Built(t, nf, K, P, X), NEW p \in Prefix,
         NEW b, b = Located(t, p)[1], NEW s, s = Located(t, p)[2], s # 0
  PROVE  /\ b \in {hash[p][1], hash[p][2]} /\ b \in Bkt /\ s \in 1..NDN_NUM_SLOTS
         /\ Holds(t, b, s, p) /\ p \in K /\ ~Missed(t, p)
         /\ t[b][s].dst_port = P[p] /\ (t[b][s].is_terminal <=> p \notin X)
         /\ \A e \in Bkt, r \in 1..NDN_NUM_SLOTS : Holds(t, e, r, p) => e = b /\ r = s
<1>1. t \in Tables /\ hash[p][1] \in Bkt /\ hash[p][2] \in Bkt
  BY DEF Built, HashOk
<1>2. b \in {hash[p][1], hash[p][2]} /\ s \in 1..NDN_NUM_SLOTS /\ Holds(t, b, s, p)
  BY <1>1, LocatedIs
<1>3. b \in Bkt /\ p \in K /\ ~Missed(t, p)
  BY <1>1, <1>2 DEF Built, Holds, Missed
<1>4. Kept(t, p, P[p], X)
  BY <1>3 DEF Built
<1> QED
  BY <1>1, <1>2, <1>3, <1>4 DEF Kept

LEMMA FreeAt ==
  ASSUME HashOk, NEW t, NEW nf, NEW K, NEW P, NEW X, Built(t, nf, K, P, X), NEW p \in Prefix,
         Located(t, p)[2] = 0, NEW b, b = Into(t, p), NEW s, s = FreeSlot(t, b)
  PROVE  /\ s = 0 => Full(t, hash[p][1]) /\ Full(t, hash[p][2])
         /\ s # 0 => /\ b \in {hash[p][1], hash[p][2]} /\ b \in Bkt /\ s \in 1..NDN_NUM_SLOTS
                     /\ t[b][s].dst_port = -1 /\ p \notin K
                     /\ \A e \in Bkt, r \in 1..NDN_NUM_SLOTS : ~Holds(t, e, r, p)
<1>1. t \in Tables /\ hash[p][1] \in Bkt /\ hash[p][2] \in Bkt
  BY DEF Built, HashOk
<1>2. \A e \in {hash[p][1], hash[p][2]}, r \in 1..NDN_NUM_SLOTS : ~Holds(t, e, r, p)
  BY <1>1, LocatedIs
<1>3. /\ b \in {hash[p][1], hash[p][2]} /\ b \in Bkt
      /\ s = 0 => Full(t, hash[p][1]) /\ Full(t, hash[p][2])
      /\ s # 0 => s \in 1..NDN_NUM_SLOTS /\ t[b][s].dst_port = -1
  BY <1>1, FreeSlotIs DEF Into
<1>4. ASSUME s # 0
      PROVE  p \notin K /\ \A e \in Bkt, r \in 1..NDN_NUM_SLOTS : ~Holds(t, e, r, p)
  <2>1. ~Missed(t, p)
    BY <1>3, <1>4 DEF Missed, Full
  <2>2. ~Kept(t, p, P[p], X)
    BY <1>2 DEF Kept
  <2>3. p \notin K
    BY <2>1, <2>2 DEF Built
  <2> QED
    BY <2>3 DEF Built, Holds
<1> QED
  BY <1>3, <1>4

\* A slot of a table is replaced by e.
Put(t, b, s, e) == [t EXCEPT ![b][s] = e]

LEMMA Replaced ==
  ASSUME NEW t \in Tables, NEW b \in Bkt, NEW s \in 1..NDN_NUM_SLOTS, NEW e \in Slots
  PROVE  /\ Put(t, b, s, e) \in Tables /\ Differ(t, Put(t, b, s, e), b, s)
         /\ Put(t, b, s, e)[b][s] = e
<1>1. t[b] \in [1..NDN_NUM_SLOTS -> Slots]
  BY DEF Tables
<1>2. [t[b] EXCEPT ![s] = e] \in [1..NDN_NUM_SLOTS -> Slots]
  BY <1>1
<1>3. Put(t, b, s, e) \in Tables
  BY <1>2 DEF Tables, Put
<1> QED
  BY <1>3 DEF Tables, Differ, Put

LEMMA PutSets ==
  ASSUME HashOk, NEW t \in Tables, NEW p \in Prefix,
         NEW b \in {hash[p][1], hash[p][2]}, NEW s \in 1..NDN_NUM_SLOTS, NEW port, NEW Y,
         NEW e \in Slots, e.cityhash = p, e.dst_port = port, e.dst_port >= 0,
         e.is_terminal <=> p \notin Y,
         t[b][s].dst_port = -1 \/ Holds(t, b, s, p),
         \A c \in Bkt, r \in 1..NDN_NUM_SLOTS : Holds(t, c, r, p) => c = b /\ r = s
  PROVE  Sets(t, Put(t, b, s, e), b, s, p, port, Y)
<1>1. b \in Bkt
  BY DEF HashOk
<1> PICK u : u = Put(t, b, s, e)
  OBVIOUS
<1>2. u \in Tables /\ Differ(t, u, b, s) /\ u[b][s] = e
  BY <1>1, Replaced
<1>3. Holds(u, b, s, p) /\ port = u[b][s].dst_port /\ (u[b][s].is_terminal <=> p \notin Y)
  BY <1>2 DEF Holds
<1> QED
  BY <1>2, <1>3 DEF Sets

\* The accumulator of ndn_init.
Acc(t, nf) == [ht |-> t, nb_fail |-> nf]

\* ndn_ht_insert of the last prefix of a URL, which is terminal, and of one
\* before it, which is not.
InsLast(a, p, d)  == ndn_ht_insert(a, p, TRUE, d)
InsInner(a, p, d) == ndn_ht_insert(a, p, FALSE, d)

LEMMA InsertLast ==
  ASSUME HashOk, NEW t, NEW nf, NEW K, NEW P, NEW X, Built(t, nf, K, P, X), NEW p \in Prefix,
         NEW d \in Ports, NEW Y, Y = X, NEW Q, Q[p] = d, Only(p, K, P, X, Q, Y),
         NEW KK, KK = K \union {p}
  PROVE  \E u, m : /\ InsLast(Acc(t, nf), p, d) = Acc(u, m)
                   /\ Built(u, m, KK, Q, Y)
<1> PICK a : a = [ht |-> t, nb_fail |-> nf]
  OBVIOUS
<1>0. InsLast(Acc(t, nf), p, d) = ndn_ht_insert(a, p, TRUE, d)
  BY DEF InsLast, Acc
<1>1. a.ht = t /\ a.nb_fail = nf /\ t \in Tables /\ X \subseteq K /\ d \in Nat
  BY NdnAssumption DEF Built
<1>2. PICK b, s : b = Located(t, p)[1] /\ s = Located(t, p)[2]
  OBVIOUS
<1>3. PICK c : c = Into(t, p)
  OBVIOUS
<1>4. PICK f : f = FreeSlot(t, c)
  OBVIOUS
<1>5. CASE s # 0
  <2>1. /\ b \in {hash[p][1], hash[p][2]} /\ b \in Bkt /\ s \in 1..NDN_NUM_SLOTS
        /\ Holds(t, b, s, p) /\ p \in K /\ ~Missed(t, p)
        /\ t[b][s].dst_port = P[p] /\ (t[b][s].is_terminal <=> p \notin X)
        /\ \A g \in Bkt, h \in 1..NDN_NUM_SLOTS : Holds(t, g, h, p) => g = b /\ h = s
    BY <1>2, <1>5, HeldAt
  <2>2. PICK e : e = [t[b][s] EXCEPT !.dst_port = d]
    OBVIOUS
  <2>3. PICK u : u = Put(t, b, s, e)
    OBVIOUS
  <2>4. ndn_ht_insert(a, p, TRUE, d) = [ht |-> u, nb_fail |-> nf]
    <3>1. ndn_contains(t, p, TRUE, d) = u
      BY <1>2, <2>2, <2>3 DEF ndn_contains, Put
    <3>2. ndn_ht_insert(a, p, TRUE, d) = [a EXCEPT !.ht = ndn_contains(t, p, TRUE, d)]
      BY <1>1, <1>2, <1>5 DEF ndn_ht_insert
    <3> QED
      BY <3>1, <3>2
  <2>5. t[b][s] \in Slots
    BY <1>1, <2>1 DEF Tables
  <2>6. /\ e \in Slots /\ e.cityhash = p /\ e.dst_port = Q[p] /\ e.dst_port >= 0
        /\ e.is_terminal <=> p \notin Y
    BY <1>1, <2>1, <2>2, <2>5 DEF Slots, Holds
  <2>7. Sets(t, u, b, s, p, Q[p], Y)
    BY <1>1, <2>1, <2>3, <2>6, PutSets
  <2>8. Built(u, nf, K \union {p}, Q, Y)
    BY <2>1, <2>7, SlotSet
  <2> QED
    BY <1>0, <2>4, <2>8 DEF Acc
<1>6. CASE s = 0 /\ f # 0
  <2>0. Located(t, p)[2] = 0
    BY <1>2, <1>6
  <2>1. /\ c \in {hash[p][1], hash[p][2]} /\ c \in Bkt /\ f \in 1..NDN_NUM_SLOTS
        /\ t[c][f].dst_port = -1 /\ p \notin K
        /\ \A g \in Bkt, h \in 1..NDN_NUM_SLOTS : ~Holds(t, g, h, p)
    BY <1>3, <1>4, <1>6, <2>0, FreeAt
  <2>2. PICK e : e = [dst_port |-> d, is_terminal |-> TRUE, cityhash |-> p]
    OBVIOUS
  <2>3. PICK u : u = Put(t, c, f, e)
    OBVIOUS
  <2>4. ndn_ht_insert(a, p, TRUE, d) = [ht |-> u, nb_fail |-> nf]
    <3>1. ndn_ht_insert(a, p, TRUE, d) = [a EXCEPT !.ht[c][f] = e]
      BY <1>1, <1>2, <1>3, <1>4, <1>6, <2>2 DEF ndn_ht_insert, Into
    <3> QED
      BY <1>1, <2>3, <3>1 DEF Put
  <2>5. /\ e \in Slots /\ e.cityhash = p /\ e.dst_port = Q[p] /\ e.dst_port >= 0
        /\ e.is_terminal <=> p \notin Y
    BY <1>1, <2>1, <2>2 DEF Slots
  <2>6. Sets(t, u, c, f, p, Q[p], Y)
    BY <1>1, <2>1, <2>3, <2>5, PutSets
  <2>7. Built(u, nf, K \union {p}, Q, Y)
    BY <2>1, <2>6, SlotSet
  <2> QED
    BY <1>0, <2>4, <2>7 DEF Acc
<1>7. CASE s = 0 /\ f = 0
  <2>1. ndn_ht_insert(a, p, TRUE, d) = [a EXCEPT !.nb_fail = @ + 1]
    BY <1>1, <1>2, <1>3, <1>4, <1>7 DEF ndn_ht_insert, Into
  <2>2. ndn_ht_insert(a, p, TRUE, d) = [ht |-> t, nb_fail |-> nf + 1]
    BY <2>1
  <2>3. Full(t, hash[p][1]) /\ Full(t, hash[p][2]) /\ Located(t, p)[2] = 0
    <3>1. Located(t, p)[2] = 0
      BY <1>2, <1>7
    <3> QED
      BY <1>1, <1>3, <1>4, <1>7, <3>1, FreeSlotIs DEF Into, HashOk
  <2>4. Built(t, nf + 1, K \union {p}, Q, Y)
    BY <2>3, SlotMissed
  <2> QED
    BY <1>0, <2>2, <2>4 DEF Acc
<1> QED
  BY <1>5, <1>6, <1>7

LEMMA InsertInner ==
  ASSUME HashOk, NEW t, NEW nf, NEW K, NEW P, NEW X, Built(t, nf, K, P, X), NEW p \in Prefix,
         NEW d \in Ports, NEW Y, Y = X \union {p}, NEW Q,
         p \in K => Q[p] = P[p], p \notin K => Q[p] = d, Only(p, K, P, X, Q, Y),
         NEW KK, KK = K \union {p}
  PROVE  \E u, m : /\ InsInner(Acc(t, nf), p, d) = Acc(u, m)
                   /\ Built(u, m, KK, Q, Y)
<1> PICK a : a = [ht |-> t, nb_fail |-> nf]
  OBVIOUS
<1>0. InsInner(Acc(t, nf), p, d) = ndn_ht_insert(a, p, FALSE, d)
  BY DEF InsInner, Acc
<1>1. a.ht = t /\ a.nb_fail = nf /\ t \in Tables /\ X \subseteq K /\ d \in Nat
  BY NdnAssumption DEF Built
<1>2. PICK b, s : b = Located(t, p)[1] /\ s = Located(t, p)[2]
  OBVIOUS
<1>3. PICK c : c = Into(t, p)
  OBVIOUS
<1>4. PICK f : f = FreeSlot(t, c)
  OBVIOUS
<1>5. CASE s # 0
  <2>1. /\ b \in {hash[p][1], hash[p][2]} /\ b \in Bkt /\ s \in 1..NDN_NUM_SLOTS
        /\ Holds(t, b, s, p) /\ p \in K /\ ~Missed(t, p)
        /\ t[b][s].dst_port = P[p] /\ (t[b][s].is_terminal <=> p \notin X)
        /\ \A g \in Bkt, h \in 1..NDN_NUM_SLOTS : Holds(t, g, h, p) => g = b /\ h = s
    BY <1>2, <1>5, HeldAt
  <2>2. PICK e : e = [t[b][s] EXCEPT !.is_terminal = FALSE]
    OBVIOUS
  <2>3. PICK u : u = Put(t, b, s, e)
    OBVIOUS
  <2>4. ndn_ht_insert(a, p, FALSE, d) = [ht |-> u, nb_fail |-> nf]
    <3>1. ndn_contains(t, p, FALSE, d) = u
      BY <1>2, <2>2, <2>3 DEF ndn_contains, Put
    <3>2. ndn_ht_insert(a, p, FALSE, d) = [a EXCEPT !.ht = ndn_contains(t, p, FALSE, d)]
      BY <1>1, <1>2, <1>5 DEF ndn_ht_insert
    <3> QED
      BY <3>1, <3>2
  <2>5. t[b][s] \in Slots
    BY <1>1, <2>1 DEF Tables
  <2>6. /\ e \in Slots /\ e.cityhash = p /\ e.dst_port = Q[p] /\ e.dst_port >= 0
        /\ e.is_terminal <=> p \notin Y
    BY <1>1, <2>1, <2>2, <2>5 DEF Slots, Holds
  <2>7. Sets(t, u, b, s, p, Q[p], Y)
    BY <1>1, <2>1, <2>3, <2>6, PutSets
  <2>8. Built(u, nf, K \union {p}, Q, Y)
    BY <2>1, <2>7, SlotSet
  <2> QED
    BY <1>0, <2>4, <2>8 DEF Acc
<1>6. CASE s = 0 /\ f # 0
  <2>0. Located(t, p)[2] = 0
    BY <1>2, <1>6
  <2>1. /\ c \in {hash[p][1], hash[p][2]} /\ c \in Bkt /\ f \in 1..NDN_NUM_SLOTS
        /\ t[c][f].dst_port = -1 /\ p \notin K
        /\ \A g \in Bkt, h \in 1..NDN_NUM_SLOTS : ~Holds(t, g, h, p)
    BY <1>3, <1>4, <1>6, <2>0, FreeAt
  <2>2. PICK e : e = [dst_port |-> d, is_terminal |-> FALSE, cityhash |-> p]
    OBVIOUS
  <2>3. PICK u : u = Put(t, c, f, e)
    OBVIOUS
  <2>4. ndn_ht_insert(a, p, FALSE, d) = [ht |-> u, nb_fail |-> nf]
    <3>1. ndn_ht_insert(a, p, FALSE, d) = [a EXCEPT !.ht[c][f] = e]
      BY <1>1, <1>2, <1>3, <1>4, <1>6, <2>2 DEF ndn_ht_insert, Into
    <3> QED
      BY <1>1, <2>3, <3>1 DEF Put
  <2>5. /\ e \in Slots /\ e.cityhash = p /\ e.dst_port = Q[p] /\ e.dst_port >= 0
        /\ e.is_terminal <=> p \notin Y
    BY <1>1, <2>1, <2>2 DEF Slots
  <2>6. Sets(t, u, c, f, p, Q[p], Y)
    BY <1>1, <2>1, <2>3, <2>5, PutSets
  <2>7. Built(u, nf, K \union {p}, Q, Y)
    BY <2>1, <2>6, SlotSet
  <2> QED
    BY <1>0, <2>4, <2>7 DEF Acc
<1>7. CASE s = 0 /\ f = 0
  <2>1. ndn_ht_insert(a, p, FALSE, d) = [a EXCEPT !.nb_fail = @ + 1]
    BY <1>1, <1>2, <1>3, <1>4, <1>7 DEF ndn_ht_insert, Into
  <2>2. ndn_ht_insert(a, p, FALSE, d) = [ht |-> t, nb_fail |-> nf + 1]
    BY <2>1
  <2>3. Full(t, hash[p][1]) /\ Full(t, hash[p][2]) /\ Located(t, p)[2] = 0
    <3>1. Located(t, p)[2] = 0
      BY <1>2, <1>7
    <3> QED
      BY <1>1, <1>3, <1>4, <1>7, <3>1, FreeSlotIs DEF Into, HashOk
  <2>4. Built(t, nf + 1, K \union {p}, Q, Y)
    BY <2>3, SlotMissed
  <2> QED
    BY <1>0, <2>2, <2>4 DEF Acc
<1> QED
  BY <1>5, <1>6, <1>7

\* One value of the function of Inserted, by the one before.
Ins(u, d, f, n) ==
  IF n = 0 THEN [ht |-> ht, nb_fail |-> nb_fail]
  ELSE ndn_ht_insert(f[n-1], Pre(u, n), n = Len(u), d)

LEMMA InsExists ==
  ASSUME NEW u, NEW d, NEW k \in Nat
  PROVE  \E f : f = [n \in 0..k |-> Ins(u, d, f, n)]
<1> DEFINE T == {m \in Nat : ~\E f : f = [n \in 0..m |-> Ins(u, d, f, n)]}
<1> SUFFICES ASSUME T # {} PROVE FALSE
  OBVIOUS
<1>1. PICK m \in T : \A y \in T : m <= y
  BY LeastNumber
<1>2. m \in Nat /\ ~\E f : f = [n \in 0..m |-> Ins(u, d, f, n)]
  BY <1>1
<1>3. CASE m = 0
  <2> DEFINE e == [n \in 0..0 |-> [ht |-> ht, nb_fail |-> nb_fail]]
  <2>1. \A n \in 0..0 : e[n] = Ins(u, d, e, n)
    BY DEF Ins
  <2>2. e = [n \in 0..m |-> Ins(u, d, e, n)]
    BY <1>3, <2>1
  <2> QED
    BY <1>2, <2>2
<1>4. CASE m # 0
  <2>1. m - 1 \in Nat /\ m - 1 \notin T
    BY <1>1, <1>2, <1>4
  <2>2. PICK f : f = [n \in 0 .. m-1 |-> Ins(u, d, f, n)]
    BY <2>1
  <2> DEFINE g == [n \in 0..m |-> IF n = m THEN Ins(u, d, f, n) ELSE f[n]]
  <2>3. ASSUME NEW n \in 0..m
        PROVE  g[n] = Ins(u, d, g, n)
    <3>1. n = 0 \/ (n-1 \in 0 .. m-1 /\ n-1 \in 0..m /\ n-1 # m)
      BY <1>2, <1>4
    <3>2. n # 0 => g[n-1] = f[n-1]
      BY <3>1
    <3>3. Ins(u, d, g, n) = Ins(u, d, f, n)
      BY <3>2 DEF Ins
    <3>4. CASE n = m
      BY <3>3, <3>4
    <3>5. CASE n # m
      <4>1. n \in 0 .. m-1
        BY <1>2, <3>5
      <4>2. f[n] = Ins(u, d, f, n)
        BY <2>2, <4>1
      <4> QED
        BY <3>3, <3>5, <4>2
    <3> QED
      BY <3>4, <3>5
  <2>4. g = [n \in 0..m |-> Ins(u, d, g, n)]
    BY <2>3
  <2> QED
    BY <1>2, <2>4
<1> QED
  BY <1>3, <1>4

LEMMA InsertedStep ==
  ASSUME NEW u, NEW d, Len(u) \in Nat
  PROVE  /\ Inserted(u, d)[0] = [ht |-> ht, nb_fail |-> nb_fail]
         /\ \A n \in 1..Len(u) :
              Inserted(u, d)[n] = ndn_ht_insert(Inserted(u, d)[n-1], Pre(u, n), n = Len(u), d)
<1> DEFINE D(f) == [n \in 0..Len(u) |-> Ins(u, d, f, n)]
<1>1. Inserted(u, d) = CHOOSE f : f = D(f)
  BY DEF Inserted, Ins
<1>2. \E f : f = D(f)
  BY InsExists
<1> HIDE DEF D
<1>3. Inserted(u, d) = D(Inserted(u, d))
  BY <1>1, <1>2
<1>4. \A n \in 0..Len(u) : Inserted(u, d)[n] = Ins(u, d, Inserted(u, d), n)
  BY <1>3 DEF D
<1> QED
  BY <1>4 DEF Ins

\* The prefixes of a name, by their lengths.
LEMMA PreFacts ==
  ASSUME NEW u \in Urls \union Names
  PROVE  /\ Len(u) \in Nat \ {0} /\ Pre(u, Len(u)) = u
         /\ \A n \in 1..Len(u) : Pre(u, n) \in Prefix /\ Len(Pre(u, n)) = n
         /\ \A n \in 1..Len(u) : \A i \in 1..n : Pre(u, n)[i] = u[i]
         /\ \A n \in 1..Len(u) : Pre(u, n) \in Seq(Range(u))
<1>1. u \in Seq(Range(u)) /\ u # <<>>
  BY NdnAssumption
<1>2. Len(u) \in Nat \ {0}
  BY <1>1
<1>3. Pre(u, Len(u)) = u
  BY <1>1, <1>2 DEF Pre
<1>4. ASSUME NEW n \in 1..Len(u)
      PROVE  /\ Len(Pre(u, n)) = n /\ \A i \in 1..n : Pre(u, n)[i] = u[i]
             /\ Pre(u, n) \in Seq(Range(u))
  BY <1>1, <1>2 DEF Pre
<1>5. ASSUME NEW n \in 1..Len(u)
      PROVE  Pre(u, n) \in Prefix
  BY DEF Prefix
<1> QED
  BY <1>2, <1>3, <1>4, <1>5

LEMMA PrefixFacts ==
  ASSUME NEW p \in Prefix
  PROVE  /\ Len(p) \in Nat \ {0} /\ SubSeq(p, 1, Len(p)) = p /\ p # <<>>
         /\ \A u \in Urls \union Names :
              IsPrefix(p, u) <=> Len(p) \in 1..Len(u) /\ p = Pre(u, Len(p))
<1>1. PICK v \in Urls \union Names : \E n \in 1..Len(v) : p = Pre(v, n)
  BY DEF Prefix
<1>2. Len(p) \in Nat \ {0} /\ p \in Seq(Range(v))
  BY <1>1, PreFacts
<1>3. SubSeq(p, 1, Len(p)) = p /\ p # <<>>
  BY <1>2
<1>4. ASSUME NEW u \in Urls \union Names
      PROVE  IsPrefix(p, u) <=> Len(p) \in 1..Len(u) /\ p = Pre(u, Len(p))
  <2>1. Len(u) \in Nat
    BY PreFacts
  <2> QED
    BY <1>2, <1>3, <2>1 DEF IsPrefix, Pre
<1> QED
  BY <1>2, <1>3, <1>4

\* The prefixes, their ports and the non-terminal ones after the first n
\* prefixes of u.
KnownAt(K, u, n)  == K \union {Pre(u, m) : m \in 1..n}
PortsAt(K, P, u, d, n) ==
  [q \in KnownAt(K, u, n) |-> IF q \notin K \/ (q = u /\ n = Len(u)) THEN d ELSE P[q]]
LongerAt(X, u, n) == X \union {Pre(u, m) : m \in (1..n) \ {Len(u)}}

\* Built reads its ports at the known prefixes only.
LEMMA SamePorts ==
  ASSUME NEW t, NEW nf, NEW K, NEW P, NEW X, NEW Q, Built(t, nf, K, P, X),
         \A q \in K : Q[q] = P[q]
  PROVE  Built(t, nf, K, Q, X)
  BY DEF Built

\* One turn of the loop of ndn_init, before the last prefix and at it.
LEMMA KnownNext ==
  ASSUME NEW u \in Urls, NEW K, NEW n \in 1..Len(u)
  PROVE  KnownAt(K, u, n) = KnownAt(K, u, n-1) \union {Pre(u, n)}
<1>1. Len(u) \in Nat \ {0}
  BY PreFacts
<1>2. 1..n = (1 .. n-1) \union {n}
  BY <1>1
<1> QED
  BY <1>2 DEF KnownAt

LEMMA LongerNext ==
  ASSUME NEW u \in Urls, NEW X, NEW n \in 1..Len(u)
  PROVE  /\ n # Len(u) => LongerAt(X, u, n) = LongerAt(X, u, n-1) \union {Pre(u, n)}
         /\ n = Len(u) => LongerAt(X, u, n) = LongerAt(X, u, n-1)
<1>1. Len(u) \in Nat \ {0}
  BY PreFacts
<1>2. n = Len(u) => (1..n) \ {Len(u)} = (1 .. n-1) \ {Len(u)}
  BY <1>1
<1>3. n # Len(u) => (1..n) \ {Len(u)} = ((1 .. n-1) \ {Len(u)}) \union {n}
  BY <1>1
<1> QED
  BY <1>2, <1>3 DEF LongerAt

LEMMA PortsNext ==
  ASSUME NEW u \in Urls, NEW d, NEW K, NEW P, NEW n \in 1..Len(u),
         NEW p, p = Pre(u, n), NEW KK, KK = KnownAt(K, u, n-1),
         NEW PP, PP = PortsAt(K, P, u, d, n-1), NEW Q, Q = PortsAt(K, P, u, d, n)
  PROVE  /\ n = Len(u) \/ p \notin KK => Q[p] = d
         /\ n # Len(u) /\ p \in KK => Q[p] = PP[p]
         /\ \A q \in KK \ {p} : Q[q] = PP[q]
<1>1. Len(u) \in Nat \ {0} /\ Pre(u, Len(u)) = u
  BY PreFacts
<1>2. n-1 # Len(u)
  BY <1>1
<1>3. KnownAt(K, u, n) = KK \union {p}
  BY KnownNext
<1>4. \A q \in KK \union {p} : Q[q] = IF q \notin K \/ (q = u /\ n = Len(u)) THEN d ELSE P[q]
  BY <1>3 DEF PortsAt
<1>5. \A q \in KK : PP[q] = IF q \notin K THEN d ELSE P[q]
  BY <1>2 DEF PortsAt
<1>6. p \notin KK => p \notin K
  BY DEF KnownAt
<1>7. \A q \in KK \ {p} : n = Len(u) => q # u
  BY <1>1
<1> QED
  BY <1>1, <1>4, <1>5, <1>6, <1>7

\* The ports Q are P, but for p, which takes port d or keeps the one it has.
LastPorts(Q, P, K, p, d) == Q[p] = d /\ \A q \in K \ {p} : Q[q] = P[q]
InnerPorts(Q, P, K, p, d) ==
  /\ p \in K => Q[p] = P[p]
  /\ p \notin K => Q[p] = d
  /\ \A q \in K \ {p} : Q[q] = P[q]

With(S, p) == S \union {p}

LEMMA LastTurn ==
  ASSUME HashOk, NEW t, NEW nf, NEW K, NEW P, NEW X, Built(t, nf, K, P, X),
         NEW p \in Prefix, NEW d \in Ports, NEW Q, LastPorts(Q, P, K, p, d),
         NEW KK, KK = With(K, p)
  PROVE  \E v, m : /\ InsLast(Acc(t, nf), p, d) = Acc(v, m)
                   /\ Built(v, m, KK, Q, X)
<1>1. Only(p, K, P, X, Q, X) /\ Q[p] = d
  BY DEF Only, Built, LastPorts
<1> QED
  BY <1>1, InsertLast DEF With

LEMMA InnerTurn ==
  ASSUME HashOk, NEW t, NEW nf, NEW K, NEW P, NEW X, Built(t, nf, K, P, X),
         NEW p \in Prefix, NEW d \in Ports, NEW Q, InnerPorts(Q, P, K, p, d),
         NEW KK, KK = With(K, p), NEW Y, Y = With(X, p)
  PROVE  \E v, m : /\ InsInner(Acc(t, nf), p, d) = Acc(v, m)
                   /\ Built(v, m, KK, Q, Y)
<1>1. Only(p, K, P, X, Q, Y) /\ (p \in K => Q[p] = P[p]) /\ (p \notin K => Q[p] = d)
  BY DEF Only, Built, InnerPorts, With
<1> QED
  BY <1>1, InsertInner DEF With

\* The table after the first n prefixes of u.
BuiltAt(t, nf, u, d, K, P, X, n) ==
  Built(t, nf, KnownAt(K, u, n), PortsAt(K, P, u, d, n), LongerAt(X, u, n))

LEMMA UrlStep ==
  ASSUME HashOk, NEW u \in Urls, NEW d \in Ports, NEW K, NEW P, NEW X, NEW n \in 1..Len(u),
         NEW t, NEW nf, BuiltAt(t, nf, u, d, K, P, X, n-1),
         NEW p, p = Pre(u, n)
  PROVE  /\ n = Len(u) => \E v, m : /\ InsLast(Acc(t, nf), p, d) = Acc(v, m)
                                    /\ BuiltAt(v, m, u, d, K, P, X, n)
         /\ n # Len(u) => \E v, m : /\ InsInner(Acc(t, nf), p, d) = Acc(v, m)
                                    /\ BuiltAt(v, m, u, d, K, P, X, n)
<1>1. PICK K0, P0, X0, K1, P1, X1 :
        /\ K0 = KnownAt(K, u, n-1) /\ P0 = PortsAt(K, P, u, d, n-1) /\ X0 = LongerAt(X, u, n-1)
        /\ K1 = KnownAt(K, u, n) /\ P1 = PortsAt(K, P, u, d, n) /\ X1 = LongerAt(X, u, n)
  OBVIOUS
<1>2. p \in Prefix /\ Built(t, nf, K0, P0, X0)
  BY <1>1, PreFacts DEF BuiltAt
<1>3. \A v, m : BuiltAt(v, m, u, d, K, P, X, n) <=> Built(v, m, K1, P1, X1)
  BY <1>1 DEF BuiltAt
<1>4. K1 = K0 \union {p}
  BY <1>1, KnownNext
<1>5. /\ n # Len(u) => X1 = X0 \union {p}
      /\ n = Len(u) => X1 = X0
  BY <1>1, LongerNext
<1>6. /\ n = Len(u) \/ p \notin K0 => P1[p] = d
      /\ n # Len(u) /\ p \in K0 => P1[p] = P0[p]
      /\ \A q \in K0 \ {p} : P1[q] = P0[q]
  BY <1>1, PortsNext
<1>7. CASE n = Len(u)
  <2>1. LastPorts(P1, P0, K0, p, d)
    BY <1>6, <1>7 DEF LastPorts
  <2>2. K1 = With(K0, p) /\ X1 = X0
    BY <1>4, <1>5, <1>7 DEF With
  <2>3. \E v, m : InsLast(Acc(t, nf), p, d) = Acc(v, m) /\ Built(v, m, K1, P1, X1)
    BY <1>2, <2>1, <2>2, LastTurn
  <2> QED
    BY <1>3, <1>7, <2>3
<1>8. CASE n # Len(u)
  <2>1. InnerPorts(P1, P0, K0, p, d)
    BY <1>6, <1>8 DEF InnerPorts
  <2>2. K1 = With(K0, p) /\ X1 = With(X0, p)
    BY <1>4, <1>5, <1>8 DEF With
  <2>3. \E v, m : InsInner(Acc(t, nf), p, d) = Acc(v, m) /\ Built(v, m, K1, P1, X1)
    BY <1>2, <2>1, <2>2, InnerTurn
  <2> QED
    BY <1>3, <1>8, <2>3
<1> QED
  BY <1>7, <1>8

LEMMA UrlBuilt ==
  ASSUME HashOk, NEW u \in Urls, NEW d \in Ports, NEW K, NEW P, NEW X,
         Built(ht, nb_fail, K, P, X)
  PROVE  LET acc == Inserted(u, d)[Len(u)]
         IN  Built(acc.ht, acc.nb_fail, KnownAt(K, u, Len(u)), PortsAt(K, P, u, d, Len(u)),
                   LongerAt(X, u, Len(u)))
<1> DEFINE Ok(n) == \E v, m :
             /\ Inserted(u, d)[n] = Acc(v, m)
             /\ BuiltAt(v, m, u, d, K, P, X, n)
           T == {m \in Nat : m \in 0..Len(u) /\ ~Ok(m)}
<1>1. Len(u) \in Nat \ {0}
  BY PreFacts
<1>2. Ok(0)
  <2>1. Inserted(u, d)[0] = Acc(ht, nb_fail)
    BY <1>1, InsertedStep DEF Acc
  <2>2. KnownAt(K, u, 0) = K /\ LongerAt(X, u, 0) = X
    BY DEF KnownAt, LongerAt
  <2>3. \A q \in K : PortsAt(K, P, u, d, 0)[q] = P[q]
    BY <1>1, <2>2 DEF PortsAt
  <2>4. Built(ht, nb_fail, K, PortsAt(K, P, u, d, 0), X)
    BY <2>3, SamePorts
  <2> QED
    BY <2>1, <2>2, <2>4 DEF BuiltAt
<1>3. ASSUME NEW n \in 1..Len(u), Ok(n-1)
      PROVE  Ok(n)
  <2>1. PICK t, nf :
          /\ Inserted(u, d)[n-1] = Acc(t, nf)
          /\ BuiltAt(t, nf, u, d, K, P, X, n-1)
    BY <1>3
  <2>3. PICK r : r = Inserted(u, d)[n]
    OBVIOUS
  <2>4. /\ n = Len(u) => r = InsLast(Acc(t, nf), Pre(u, n), d)
        /\ n # Len(u) => r = InsInner(Acc(t, nf), Pre(u, n), d)
    <3>1. r = ndn_ht_insert(Acc(t, nf), Pre(u, n), n = Len(u), d)
      BY <1>1, <2>1, <2>3, InsertedStep
    <3> QED
      BY <3>1 DEF InsLast, InsInner
  <2>5. \E v, m : /\ r = Acc(v, m)
                  /\ BuiltAt(v, m, u, d, K, P, X, n)
    BY <2>1, <2>4, UrlStep
  <2> QED
    BY <2>3, <2>5
<1> HIDE DEF Ok
<1>4. ASSUME T # {}
      PROVE  FALSE
  <2>1. PICK n \in T : \A y \in T : n <= y
    BY <1>4, LeastNumber
  <2>2. n \in 1..Len(u) /\ n-1 \in 0..Len(u) /\ n-1 \in Nat /\ n-1 \notin T /\ ~Ok(n)
    BY <1>1, <1>2, <2>1
  <2> QED
    BY <1>3, <2>2
<1>5. Ok(Len(u))
  BY <1>1, <1>4
<1> QED
  BY <1>5 DEF Ok, Acc, BuiltAt

-----------------------------------------------------------------------------
(* What a line of the FIB's file changes in PortOf, Known and Extended.    *)

Lines == [url : Urls, port : Ports]

PortIn(F, p) ==
  LET exact  == SelectLastInSeq(F, LAMBDA f : f.url = p)
      having == SelectInSeq(F, LAMBDA f : IsPrefix(p, f.url))
  IN  F[IF exact # 0 THEN exact ELSE having].port

\* The lines of a file that are p, and those that have it.
Exact(F, p)  == {k \in 1..Len(F) : F[k].url = p}
Having(F, p) == {k \in 1..Len(F) : IsPrefix(p, F[k].url)}

LEMMA PortInIs ==
  ASSUME NEW F \in Seq(Lines), NEW p
  PROVE  /\ \A k \in Exact(F, p) :
              (\A j \in Exact(F, p) : j <= k) => PortIn(F, p) = F[k].port
         /\ Exact(F, p) = {} =>
              \A k \in Having(F, p) :
                (\A j \in Having(F, p) : k <= j) => PortIn(F, p) = F[k].port
<1> DEFINE E == Exact(F, p)
           H == Having(F, p)
           e == IF E # {} THEN Max(E) ELSE 0
           h == IF H # {} THEN Min(H) ELSE 0
<1>1. Len(F) \in Nat
  OBVIOUS
<1>2. PortIn(F, p) = F[IF e # 0 THEN e ELSE h].port
  BY DEF PortIn, SelectLastInSeq, SelectInSeq, Exact, Having
<1>3. E \subseteq 1..Len(F) /\ H \subseteq 1..Len(F) /\ H \subseteq Nat
  BY <1>1 DEF Exact, Having
<1>4. E # {} => Max(E) \in E /\ \A y \in E : Max(E) >= y
  BY <1>1, <1>3, MaxOf
<1>5. H # {} => Min(H) \in H /\ \A y \in H : Min(H) <= y
  BY <1>3, MinOf
<1> HIDE DEF E, H
<1>6. ASSUME NEW k \in E, \A j \in E : j <= k
      PROVE  PortIn(F, p) = F[k].port
  <2>0. Max(E) \in 1..Len(F) /\ k \in 1..Len(F) /\ Max(E) >= k /\ Max(E) <= k
    BY <1>3, <1>4, <1>6
  <2>1. Max(E) = k /\ k # 0
    BY <1>1, <2>0
  <2> QED
    BY <1>2, <2>1
<1>7. ASSUME E = {}, NEW k \in H, \A j \in H : k <= j
      PROVE  PortIn(F, p) = F[k].port
  <2>0. Min(H) \in Nat /\ k \in Nat /\ Min(H) <= k /\ k <= Min(H)
    BY <1>3, <1>5, <1>7
  <2>1. Min(H) = k
    BY <2>0
  <2> QED
    BY <1>2, <1>7, <2>1
<1> QED
  BY <1>6, <1>7 DEF E, H

\* One more line of the file.
Line(u, d) == [url |-> u, port |-> d]
Added(F, u, d) == Append(F, Line(u, d))

LEMMA PortAppended ==
  ASSUME NEW F \in Seq(Lines), NEW u \in Urls, NEW d \in Ports, NEW p,
         NEW G, G = Added(F, u, d)
  PROVE  /\ G \in Seq(Lines)
         /\ \A k \in 1..Len(G) : k = Len(F) + 1 \/ (k \in 1..Len(F) /\ G[k] = F[k])
         /\ \A k \in 1..Len(F) : k \in 1..Len(G) /\ G[k] = F[k]
         /\ Len(F) + 1 \in 1..Len(G) /\ G[Len(F) + 1] = Line(u, d)
         /\ p = u => PortIn(G, p) = d
         /\ p # u /\ Having(F, p) # {} => PortIn(G, p) = PortIn(F, p)
         /\ p # u /\ Having(F, p) = {} /\ IsPrefix(p, u) => PortIn(G, p) = d
<1> DEFINE n == Len(F) + 1
           new == [url |-> u, port |-> d]
<1>1. G \in Seq(Lines) /\ Len(F) \in Nat /\ Len(G) = n /\ G[n] = new /\ new = Line(u, d)
  BY DEF Lines, Line, Added
<1>2. /\ \A k \in 1..Len(G) : k = n \/ (k \in 1..Len(F) /\ G[k] = F[k])
      /\ \A k \in 1..Len(F) : k \in 1..Len(G) /\ G[k] = F[k]
      /\ n \in 1..Len(G)
  BY <1>1 DEF Added
<1>3. /\ \A k \in Exact(F, p) : k \in Exact(G, p)
      /\ \A k \in Exact(G, p) : k \in Exact(F, p) \/ (k = n /\ p = u)
      /\ p = u => n \in Exact(G, p)
  BY <1>1, <1>2 DEF Exact
<1>4. /\ \A k \in Having(F, p) : k \in Having(G, p)
      /\ \A k \in Having(G, p) : k \in Having(F, p) \/ (k = n /\ IsPrefix(p, u))
      /\ IsPrefix(p, u) => n \in Having(G, p)
  BY <1>1, <1>2 DEF Having
<1>5. /\ \A k \in Exact(F, p) \union Having(F, p) : k \in 1..Len(F) /\ k \in Nat /\ k < n
      /\ Exact(F, p) \subseteq 1..Len(F) /\ Having(F, p) \subseteq Nat
  BY <1>1 DEF Exact, Having
<1>6. ASSUME p = u
      PROVE  PortIn(G, p) = d
  <2>1. n \in Exact(G, p) /\ \A j \in Exact(G, p) : j <= n
    BY <1>1, <1>3, <1>5, <1>6
  <2>2. PortIn(G, p) = G[n].port
    BY <1>1, <2>1, PortInIs
  <2> QED
    BY <1>1, <2>2
<1>7. ASSUME p # u, Exact(F, p) # {}
      PROVE  PortIn(G, p) = PortIn(F, p)
  <2>1. PICK k : k \in Exact(F, p) /\ \A j \in Exact(F, p) : k >= j
    BY <1>1, <1>5, <1>7, MaxOf
  <2>2. \A j \in Exact(F, p) : j <= k
    BY <1>5, <2>1
  <2>3. PortIn(F, p) = F[k].port
    BY <2>1, <2>2, PortInIs
  <2>4. k \in Exact(G, p) /\ \A j \in Exact(G, p) : j <= k
    BY <1>3, <1>7, <2>1, <2>2
  <2>5. PortIn(G, p) = G[k].port
    BY <1>1, <2>4, PortInIs
  <2> QED
    BY <1>2, <1>5, <2>1, <2>3, <2>5
<1>8. ASSUME p # u, Exact(F, p) = {}, Having(F, p) # {}
      PROVE  PortIn(G, p) = PortIn(F, p)
  <2>1. PICK k : k \in Having(F, p) /\ \A j \in Having(F, p) : k <= j
    BY <1>5, <1>8, MinOf
  <2>2. PortIn(F, p) = F[k].port
    BY <1>8, <2>1, PortInIs
  <2>3. k \in Having(G, p) /\ \A j \in Having(G, p) : k <= j
    BY <1>1, <1>4, <1>5, <2>1
  <2>4. Exact(G, p) = {}
    BY <1>3, <1>8
  <2>5. PortIn(G, p) = G[k].port
    BY <1>1, <2>3, <2>4, PortInIs
  <2> QED
    BY <1>2, <1>5, <2>1, <2>2, <2>5
<1>9. ASSUME p # u, Having(F, p) = {}, IsPrefix(p, u), Exact(F, p) = {}
      PROVE  PortIn(G, p) = d
  <2>1. Exact(G, p) = {} /\ n \in Having(G, p) /\ \A j \in Having(G, p) : n <= j
    BY <1>1, <1>3, <1>4, <1>9
  <2>2. PortIn(G, p) = G[n].port
    BY <1>1, <2>1, PortInIs
  <2> QED
    BY <1>1, <2>2
<1>10. Having(F, p) = {} => Exact(F, p) = {}
  <2> SUFFICES ASSUME NEW k \in Exact(F, p) PROVE k \in Having(F, p)
    OBVIOUS
  <2>0. F[k].url = p /\ k \in 1..Len(F)
    BY DEF Exact
  <2>1. F[k].url = p /\ k \in 1..Len(F) /\ F[k].url \in Urls
    <3>1. F[k] \in Lines
      BY <2>0
    <3> QED
      BY <2>0, <3>1 DEF Lines
  <2>2. Len(p) \in Nat
    BY <2>1, PreFacts
  <2>3. IsPrefix(p, p)
    BY <2>2 DEF IsPrefix
  <2> QED
    BY <2>1, <2>3 DEF Having
<1> QED
  BY <1>1, <1>2, <1>6, <1>7, <1>8, <1>9, <1>10

KnownIn(F)  == {p \in Prefix : Having(F, p) # {}}
PortsIn(F)  == [p \in KnownIn(F) |-> PortIn(F, p)]
LongerIn(F) == {p \in KnownIn(F) : \E k \in 1..Len(F) : IsStrictPrefix(p, F[k].url)}

LEMMA PrefixOfUrl ==
  ASSUME NEW u \in Urls, NEW p \in Prefix
  PROVE  /\ IsPrefix(p, u) <=> \E m \in 1..Len(u) : p = Pre(u, m)
         /\ IsStrictPrefix(p, u) <=> \E m \in (1..Len(u)) \ {Len(u)} : p = Pre(u, m)
<1>1. /\ IsPrefix(p, u) <=> Len(p) \in 1..Len(u) /\ p = Pre(u, Len(p))
      /\ Pre(u, Len(u)) = u /\ Len(u) \in Nat \ {0}
      /\ \A m \in 1..Len(u) : Len(Pre(u, m)) = m
  BY PrefixFacts, PreFacts
<1>2. IsPrefix(p, u) <=> \E m \in 1..Len(u) : p = Pre(u, m)
  BY <1>1
<1>3. \A m \in 1..Len(u) : Pre(u, m) = u <=> m = Len(u)
  BY <1>1
<1>4. IsStrictPrefix(p, u) <=> \E m \in 1..Len(u) : p = Pre(u, m) /\ p # u
  BY <1>2 DEF IsStrictPrefix
<1> QED
  BY <1>2, <1>3, <1>4

LEMMA FileAppended ==
  ASSUME NEW F \in Seq(Lines), NEW u \in Urls, NEW d \in Ports,
         NEW G, G = Added(F, u, d),
         NEW K, K = KnownIn(F), NEW P, P = PortsIn(F), NEW X, X = LongerIn(F)
  PROVE  /\ G \in Seq(Lines)
         /\ KnownIn(G) = KnownAt(K, u, Len(u))
         /\ LongerIn(G) = LongerAt(X, u, Len(u))
         /\ \A q \in KnownIn(G) : PortsIn(G)[q] = PortsAt(K, P, u, d, Len(u))[q]
<1>1. /\ G \in Seq(Lines)
      /\ \A k \in 1..Len(G) : k = Len(F) + 1 \/ (k \in 1..Len(F) /\ G[k] = F[k])
      /\ \A k \in 1..Len(F) : k \in 1..Len(G) /\ G[k] = F[k]
      /\ Len(F) + 1 \in 1..Len(G) /\ G[Len(F) + 1] = Line(u, d)
  BY PortAppended
<1>2. G[Len(F) + 1].url = u
  BY <1>1 DEF Line
<1>3. \A p : Having(G, p) # {} <=> Having(F, p) # {} \/ IsPrefix(p, u)
  <2> SUFFICES ASSUME NEW p
               PROVE  Having(G, p) # {} <=> Having(F, p) # {} \/ IsPrefix(p, u)
    OBVIOUS
  <2>1. ASSUME NEW k \in Having(G, p)
        PROVE  Having(F, p) # {} \/ IsPrefix(p, u)
    BY <1>1, <1>2 DEF Having
  <2>2. ASSUME NEW k \in Having(F, p)
        PROVE  k \in Having(G, p)
    BY <1>1 DEF Having
  <2>3. IsPrefix(p, u) => Len(F) + 1 \in Having(G, p)
    BY <1>1, <1>2 DEF Having
  <2> QED
    BY <2>1, <2>2, <2>3
<1>4. \A p \in Prefix : IsPrefix(p, u) <=> \E m \in 1..Len(u) : p = Pre(u, m)
  BY PrefixOfUrl
<1>5. \A m \in 1..Len(u) : Pre(u, m) \in Prefix
  BY PreFacts
<1>6. KnownIn(G) = KnownAt(K, u, Len(u))
  <2>1. \A p \in Prefix : p \in KnownIn(G) <=> p \in K \/ \E m \in 1..Len(u) : p = Pre(u, m)
    BY <1>3, <1>4 DEF KnownIn
  <2>2. K \subseteq Prefix /\ KnownIn(G) \subseteq Prefix
    BY DEF KnownIn
  <2> QED
    BY <1>5, <2>1, <2>2 DEF KnownAt
<1>7. ASSUME NEW p \in Prefix
      PROVE  p \in LongerIn(G) <=> p \in LongerAt(X, u, Len(u))
  <2>1. (\E k \in 1..Len(G) : IsStrictPrefix(p, G[k].url))
          <=> (\E k \in 1..Len(F) : IsStrictPrefix(p, F[k].url)) \/ IsStrictPrefix(p, u)
    <3>1. ASSUME NEW k \in 1..Len(G), IsStrictPrefix(p, G[k].url)
          PROVE  (\E j \in 1..Len(F) : IsStrictPrefix(p, F[j].url)) \/ IsStrictPrefix(p, u)
      BY <1>1, <1>2, <3>1
    <3>2. ASSUME NEW k \in 1..Len(F), IsStrictPrefix(p, F[k].url)
          PROVE  k \in 1..Len(G) /\ IsStrictPrefix(p, G[k].url)
      BY <1>1, <3>2
    <3>3. IsStrictPrefix(p, u) => IsStrictPrefix(p, G[Len(F) + 1].url)
      BY <1>2
    <3> QED
      BY <1>1, <3>1, <3>2, <3>3
  <2>2. IsStrictPrefix(p, u) <=> p \in {Pre(u, m) : m \in (1..Len(u)) \ {Len(u)}}
    BY PrefixOfUrl
  <2>3. ASSUME NEW k \in 1..Len(F), IsStrictPrefix(p, F[k].url)
        PROVE  p \in KnownIn(F)
    <3>1. k \in Having(F, p)
      BY <2>3 DEF Having, IsStrictPrefix
    <3> QED
      BY <3>1 DEF KnownIn
  <2>4. p \in X <=> \E k \in 1..Len(F) : IsStrictPrefix(p, F[k].url)
    BY <2>3 DEF LongerIn
  <2>5. p \in LongerIn(G) <=> \E k \in 1..Len(G) : IsStrictPrefix(p, G[k].url)
    <3>1. ASSUME NEW k \in 1..Len(G), IsStrictPrefix(p, G[k].url)
          PROVE  p \in KnownIn(G)
      <4>1. k \in Having(G, p)
        BY <3>1 DEF Having, IsStrictPrefix
      <4> QED
        BY <4>1 DEF KnownIn
    <3> QED
      BY <3>1 DEF LongerIn
  <2> QED
    BY <2>1, <2>2, <2>4, <2>5 DEF LongerAt
<1>8. LongerIn(G) = LongerAt(X, u, Len(u))
  <2>1. LongerIn(G) \subseteq Prefix
    BY DEF LongerIn, KnownIn
  <2>2. LongerAt(X, u, Len(u)) \subseteq Prefix
    BY <1>5 DEF LongerAt, LongerIn, KnownIn
  <2> QED
    BY <1>7, <2>1, <2>2
<1>9. ASSUME NEW q \in KnownIn(G)
      PROVE  PortsIn(G)[q] = PortsAt(K, P, u, d, Len(u))[q]
  <2>1. PortsIn(G)[q] = PortIn(G, q)
    BY DEF PortsIn
  <2>2. q \in K => P[q] = PortIn(F, q)
    BY DEF PortsIn
  <2>3. PortsAt(K, P, u, d, Len(u))[q] = IF q \notin K \/ q = u THEN d ELSE P[q]
    BY <1>6 DEF PortsAt
  <2>4. /\ q \in Prefix /\ (q \in K <=> Having(F, q) # {})
        /\ Having(F, q) # {} \/ IsPrefix(q, u)
    BY <1>3 DEF KnownIn
  <2>5. /\ q = u => PortIn(G, q) = d
        /\ q # u /\ Having(F, q) # {} => PortIn(G, q) = PortIn(F, q)
        /\ q # u /\ Having(F, q) = {} /\ IsPrefix(q, u) => PortIn(G, q) = d
    BY PortAppended
  <2> QED
    BY <2>1, <2>2, <2>3, <2>4, <2>5
<1> QED
  BY <1>1, <1>6, <1>8, <1>9

\* ndn_init has put every prefix of the lines read into the table.
FibInv ==
  /\ HashOk /\ fib \in Seq(Lines)
  /\ Built(ht, nb_fail, KnownIn(fib), PortsIn(fib), LongerIn(fib))

LEMMA InsertFib ==
  ASSUME FibInv, NEW u \in Urls, NEW d \in Ports, InsertUrl(u, d)
  PROVE  FibInv'
<1> PICK K, P, X : K = KnownIn(fib) /\ P = PortsIn(fib) /\ X = LongerIn(fib)
  OBVIOUS
<1> PICK G : G = Added(fib, u, d)
  OBVIOUS
<1> PICK t, nf : t = Inserted(u, d)[Len(u)].ht /\ nf = Inserted(u, d)[Len(u)].nb_fail
  OBVIOUS
<1>1. fib' = G /\ ht' = t /\ nb_fail' = nf /\ hash' = hash
  BY DEF InsertUrl, Added, Line
<1>2. Built(t, nf, KnownAt(K, u, Len(u)), PortsAt(K, P, u, d, Len(u)), LongerAt(X, u, Len(u)))
  BY UrlBuilt DEF FibInv
<1>3. /\ G \in Seq(Lines)
      /\ KnownIn(G) = KnownAt(K, u, Len(u)) /\ LongerIn(G) = LongerAt(X, u, Len(u))
      /\ \A q \in KnownIn(G) : PortsIn(G)[q] = PortsAt(K, P, u, d, Len(u))[q]
  BY FileAppended DEF FibInv
<1>4. Built(t, nf, KnownIn(G), PortsIn(G), LongerIn(G))
  BY <1>2, <1>3, SamePorts
<1>5. Built(ht', nb_fail', KnownIn(fib'), PortsIn(fib'), LongerIn(fib')) /\ fib' \in Seq(Lines)
  BY <1>1, <1>3, <1>4
<1>6. HashOk'
  BY <1>1 DEF FibInv, HashOk
<1> QED
  BY <1>1, <1>5, <1>6 DEF FibInv, Built, Missed, Kept

LEMMA FibStep == FibInv /\ [Next]_vars => FibInv'
<1> SUFFICES ASSUME FibInv, [Next]_vars PROVE FibInv'
  OBVIOUS
<1>1. ASSUME UNCHANGED fibVars PROVE FibInv'
  BY <1>1 DEF fibVars, FibInv, HashOk, Built, Missed, Kept
<1>2. ASSUME NEW u \in Urls, NEW d \in Ports, InsertUrl(u, d) PROVE FibInv'
  BY <1>2, InsertFib
<1> QED
  BY <1>1, <1>2 DEF Next, Call, FetchName, StartName, FirstBucket, SecondBucket, Finish, Skip, vars

LEMMA FibInit == Init => FibInv
<1> SUFFICES ASSUME Init PROVE FibInv
  OBVIOUS
<1>1. fib = <<>> /\ nb_fail = 0 /\ ht = [b \in Bkt |-> [s \in 1..NDN_NUM_SLOTS |-> Free]] /\ HashOk
  BY DEF Init, HashOk
<1>2. Free \in Slots /\ Free.dst_port = -1
  BY DEF Free, Slots
<1>3. ht \in Tables /\ \A b \in Bkt, s \in 1..NDN_NUM_SLOTS : ht[b][s].dst_port = -1
  BY <1>1, <1>2 DEF Tables
<1>4. \A p : Having(fib, p) = {}
  BY <1>1 DEF Having
<1>5. KnownIn(fib) = {} /\ LongerIn(fib) = {}
  BY <1>4 DEF KnownIn, LongerIn
<1> QED
  BY <1>1, <1>3, <1>5 DEF FibInv, Built

-----------------------------------------------------------------------------
\* What FibInv says in the words of the properties.
LEMMA HeldIs ==
  ASSUME NEW p
  PROVE  /\ \A b \in Bkt, s \in 1..NDN_NUM_SLOTS : <<b, s>> \in Held(p) <=> Holds(ht, b, s, p)
         /\ \A l \in Held(p) : l[1] \in Bkt /\ l[2] \in 1..NDN_NUM_SLOTS /\ l = <<l[1], l[2]>>
                              /\ Holds(ht, l[1], l[2], p)
  BY DEF Held, Holds

LEMMA FibFacts ==
  ASSUME FibInv
  PROVE  /\ Known = KnownIn(fib)
         /\ \A p \in Known : PortsIn(fib)[p] = PortOf(p)
         /\ \A p \in Known : p \in LongerIn(fib) <=> Extended(p)
<1>1. DOMAIN fib = 1..Len(fib)
  BY DEF FibInv
<1>2. Known = KnownIn(fib)
  BY <1>1 DEF Known, KnownIn, Having
<1>3. \A p : PortOf(p) = PortIn(fib, p)
  BY DEF PortOf, PortIn
<1>4. \A p \in Known : PortsIn(fib)[p] = PortOf(p)
  BY <1>2, <1>3 DEF PortsIn
<1>5. \A p \in Known : p \in LongerIn(fib) <=> Extended(p)
  BY <1>1, <1>2 DEF LongerIn, Extended
<1> QED
  BY <1>2, <1>4, <1>5

\* A prefix of the file is nowhere in the table, or in one slot.
LEMMA HeldOnce ==
  ASSUME FibInv, NEW p \in Known
  PROVE  /\ Held(p) = {} <=> Missed(ht, p)
         /\ Held(p) = {} => \A k \in {1, 2} : FreeSlot(ht, hash[p][k]) = 0
         /\ Held(p) # {} =>
              \E b \in {hash[p][1], hash[p][2]}, s \in 1..NDN_NUM_SLOTS :
                /\ Held(p) = {<<b, s>>} /\ Holds(ht, b, s, p)
                /\ ht[b][s].dst_port = PortOf(p)
                /\ ht[b][s].is_terminal = ~Extended(p)
<1>1. p \in Prefix /\ HashOk /\ ht \in Tables
  BY DEF Known, FibInv, Built
<1>2. hash[p][1] \in Bkt /\ hash[p][2] \in Bkt
  BY <1>1 DEF HashOk
<1>3. Missed(ht, p) \/ Kept(ht, p, PortOf(p), LongerIn(fib))
  BY FibFacts DEF FibInv, Built
<1>4. ASSUME Missed(ht, p)
      PROVE  Held(p) = {} /\ \A k \in {1, 2} : FreeSlot(ht, hash[p][k]) = 0
  <2>1. Held(p) = {}
    BY <1>4, HeldIs DEF Missed
  <2>2. FreeSlot(ht, hash[p][1]) = 0 /\ FreeSlot(ht, hash[p][2]) = 0
    BY <1>1, <1>2, <1>4, FreeSlotIs DEF Missed
  <2> QED
    BY <2>1, <2>2
<1>5. ASSUME Kept(ht, p, PortOf(p), LongerIn(fib))
      PROVE  \E b \in {hash[p][1], hash[p][2]}, s \in 1..NDN_NUM_SLOTS :
               /\ Held(p) = {<<b, s>>} /\ Holds(ht, b, s, p)
               /\ ht[b][s].dst_port = PortOf(p)
               /\ ht[b][s].is_terminal = ~Extended(p)
  <2>1. PICK b \in {hash[p][1], hash[p][2]}, s \in 1..NDN_NUM_SLOTS :
          /\ Holds(ht, b, s, p) /\ ht[b][s].dst_port = PortOf(p)
          /\ ht[b][s].is_terminal <=> p \notin LongerIn(fib)
          /\ \A c \in Bkt, r \in 1..NDN_NUM_SLOTS : Holds(ht, c, r, p) => c = b /\ r = s
    BY <1>5 DEF Kept
  <2>2. b \in Bkt
    BY <1>2, <2>1
  <2>3. <<b, s>> \in Held(p)
    BY <2>1, <2>2, HeldIs
  <2>4. \A l \in Held(p) : l = <<b, s>>
    BY <2>1, HeldIs
  <2>5. Held(p) = {<<b, s>>}
    BY <2>3, <2>4
  <2>6. ht[b][s].is_terminal \in BOOLEAN
    BY <1>1, <2>2 DEF Tables, Slots
  <2>7. ht[b][s].is_terminal <=> ~Extended(p)
    BY <2>1, FibFacts
  <2>8. ht[b][s].is_terminal = ~Extended(p)
    BY <2>6, <2>7
  <2> QED
    BY <2>1, <2>5, <2>8
<1> QED
  BY <1>3, <1>4, <1>5

(* The table that ndn_init builds from any file of URLs, with any hash     *)
(* function: every prefix of a URL is in one slot of one of its buckets    *)
(* with its port and its terminal flag, or both buckets are full and       *)
(* nb_fail tells.                                                          *)
THEOREM TableBuilt == Spec => []FibIsBuilt
<1>1. ASSUME FibInv PROVE FibIsBuilt
  <2>1. \A b \in Bkt, s \in 1..NDN_NUM_SLOTS :
          ht[b][s].dst_port >= 0 => ht[b][s].cityhash \in Known
    BY <1>1, FibFacts DEF FibInv, Built
  <2>2. nb_fail > 0 <=> \E p \in Known : Missed(ht, p)
    BY <1>1, FibFacts DEF FibInv, Built
  <2>3. nb_fail > 0 <=> \E p \in Known : Held(p) = {}
    BY <1>1, <2>2, HeldOnce
  <2>4. ASSUME NEW p \in Known
        PROVE  IF Held(p) = {} THEN \A k \in {1, 2} : FreeSlot(ht, hash[p][k]) = 0
               ELSE \E b \in {hash[p][1], hash[p][2]}, s \in 1..NDN_NUM_SLOTS :
                      /\ Held(p) = {<<b, s>>}
                      /\ ht[b][s].dst_port = PortOf(p)
                      /\ ht[b][s].is_terminal = ~Extended(p)
    BY <1>1, HeldOnce
  <2> QED
    BY <2>1, <2>3, <2>4 DEF FibIsBuilt
<1> QED
  BY <1>1, FibInit, FibStep, PTL DEF Spec

-----------------------------------------------------------------------------
(* What nogoto.c finds in the table.                                       *)

LEMMA HeldKnown ==
  ASSUME FibInv, NEW p, Held(p) # {}
  PROVE  p \in Known
<1>1. PICK l \in Held(p) : TRUE
  OBVIOUS
<1>2. l[1] \in Bkt /\ l[2] \in 1..NDN_NUM_SLOTS /\ Holds(ht, l[1], l[2], p)
  BY HeldIs
<1>3. p \in KnownIn(fib)
  BY <1>2 DEF FibInv, Built, Holds
<1> QED
  BY <1>3, FibFacts

\* A prefix that no URL goes on from has no longer prefix of the name in the
\* table.
LEMMA TerminalIsLongest ==
  ASSUME FibInv, NEW name \in Names, NEW k \in 1..Len(name), NEW m \in 1..Len(name), m > k,
         Held(Pre(name, m)) # {}
  PROVE  Extended(Pre(name, k))
<1> PICK p, q : p = Pre(name, k) /\ q = Pre(name, m)
  OBVIOUS
<1>1. q \in Known /\ fib \in Seq(Lines)
  BY HeldKnown DEF FibInv
<1>2. PICK j \in DOMAIN fib : IsPrefix(q, fib[j].url)
  BY <1>1 DEF Known
<1>3. fib[j] \in Lines
  BY <1>1, <1>2
<1> PICK u : u = fib[j].url
  OBVIOUS
<1>4. u \in Urls
  BY <1>3 DEF Lines
<1>5. /\ Len(name) \in Nat /\ p \in Prefix /\ q \in Prefix /\ Len(p) = k /\ Len(q) = m
      /\ p \in Seq(Range(name)) /\ \A i \in 1..k : p[i] = name[i]
      /\ \A i \in 1..m : q[i] = name[i]
  BY PreFacts
<1>6. Len(u) \in Nat /\ m \in 1..Len(u) /\ q = Pre(u, m)
  BY <1>2, <1>4, <1>5, PrefixFacts, PreFacts
<1>7. k \in 1..Len(u) /\ k # Len(u) /\ k \in 1..m /\ \A i \in 1..k : i \in 1..m
  BY <1>5, <1>6
<1>8. /\ Pre(u, k) \in Seq(Range(u)) /\ Len(Pre(u, k)) = k
      /\ \A i \in 1..k : Pre(u, k)[i] = u[i]
      /\ \A i \in 1..m : q[i] = u[i]
  BY <1>4, <1>6, <1>7, PreFacts
<1>9. p = Pre(u, k)
  <2>1. p = [i \in 1..k |-> p[i]] /\ Pre(u, k) = [i \in 1..k |-> Pre(u, k)[i]]
    BY <1>5, <1>8
  <2>2. \A i \in 1..k : p[i] = Pre(u, k)[i]
    BY <1>5, <1>7, <1>8
  <2> QED
    BY <2>1, <2>2
<1>10. IsPrefix(p, u) /\ p # u
  BY <1>4, <1>5, <1>7, <1>9, PrefixFacts
<1> QED
  BY <1>2, <1>10 DEF Extended, IsStrictPrefix

\* No prefix that the lookup of the name tries is in its second bucket.
Unspilled(name) == \A p \in Tried(name) : \A l \in Held(p) : l[1] = hash[p][1]

LEMMA FindHeld ==
  ASSUME FibInv, NEW p \in Prefix, \A l \in Held(p) : l[1] = hash[p][1]
  PROVE  /\ Held(p) = {} => Find(ht, hash[p][1], p) = 0 /\ Find(ht, hash[p][2], p) = 0
         /\ Held(p) # {} =>
              LET s == Find(ht, hash[p][1], p)
              IN  /\ s # 0 /\ ht[hash[p][1]][s].dst_port = PortOf(p)
                  /\ ht[hash[p][1]][s].is_terminal => ~Extended(p)
<1>1. ht \in Tables /\ HashOk
  BY DEF FibInv, Built
<1>2. hash[p][1] \in Bkt /\ hash[p][2] \in Bkt
  BY <1>1 DEF HashOk
<1>3. ASSUME NEW b \in Bkt, Find(ht, b, p) # 0
      PROVE  Find(ht, b, p) \in 1..NDN_NUM_SLOTS /\ <<b, Find(ht, b, p)>> \in Held(p)
  BY <1>1, <1>3, FindIs, HeldIs
<1>4. Held(p) = {} => Find(ht, hash[p][1], p) = 0 /\ Find(ht, hash[p][2], p) = 0
  BY <1>2, <1>3
<1>5. ASSUME Held(p) # {}
      PROVE  LET s == Find(ht, hash[p][1], p)
             IN  /\ s # 0 /\ ht[hash[p][1]][s].dst_port = PortOf(p)
                 /\ ht[hash[p][1]][s].is_terminal => ~Extended(p)
  <2>1. p \in Known
    BY <1>5, HeldKnown
  <2>2. PICK c, r : /\ Held(p) = {<<c, r>>} /\ Holds(ht, c, r, p)
                    /\ c \in Bkt /\ r \in 1..NDN_NUM_SLOTS
                    /\ ht[c][r].dst_port = PortOf(p)
                    /\ ht[c][r].is_terminal = ~Extended(p)
    BY <1>2, <1>5, <2>1, HeldOnce
  <2>3. c = hash[p][1]
    BY <2>2
  <2>4. Find(ht, c, p) # 0
    BY <1>1, <2>2, FindIs
  <2>5. <<c, Find(ht, c, p)>> \in Held(p)
    BY <1>3, <2>2, <2>4
  <2>6. Find(ht, c, p) = r
    BY <2>2, <2>5
  <2> QED
    BY <2>2, <2>3, <2>4, <2>6
<1> QED
  BY <1>4, <1>5

\* The turn of one prefix.
LEMMA MatchHeld ==
  ASSUME FibInv, NEW p \in Prefix, \A l \in Held(p) : l[1] = hash[p][1], NEW a
  PROVE  /\ a.terminate \/ Held(p) = {} => MatchPrefix(a, p) = a
         /\ ~a.terminate /\ Held(p) # {} =>
              /\ MatchPrefix(a, p).dst_port = PortOf(p)
              /\ MatchPrefix(a, p).prefix_match_found
              /\ MatchPrefix(a, p).terminate => ~Extended(p)
<1>1. a.terminate => MatchPrefix(a, p) = a
  BY DEF MatchPrefix
<1>2. ASSUME Held(p) = {} PROVE MatchPrefix(a, p) = a
  <2>1. Match(a, hash[p][1], p) = a /\ Match(a, hash[p][2], p) = a
    BY <1>2, FindHeld DEF Match
  <2> QED
    BY <2>1 DEF MatchPrefix
<1>3. ASSUME ~a.terminate, Held(p) # {}
      PROVE  /\ MatchPrefix(a, p).dst_port = PortOf(p)
             /\ MatchPrefix(a, p).prefix_match_found
             /\ MatchPrefix(a, p).terminate => ~Extended(p)
  <2> PICK b, s : b = hash[p][1] /\ s = Find(ht, b, p)
    OBVIOUS
  <2>1. s # 0 /\ ht[b][s].dst_port = PortOf(p) /\ (ht[b][s].is_terminal => ~Extended(p))
    BY <1>3, FindHeld
  <2>2. /\ Match(a, b, p).dst_port = ht[b][s].dst_port
        /\ Match(a, b, p).terminate = (a.terminate \/ ht[b][s].is_terminal)
        /\ Match(a, b, p).prefix_match_found
    BY <2>1 DEF Match
  <2>3. MatchPrefix(a, p) = Match(a, b, p)
    BY <1>3, <2>2 DEF MatchPrefix
  <2> QED
    BY <1>3, <2>1, <2>2, <2>3
<1> QED
  BY <1>1, <1>2, <1>3

\* Among the first n prefixes of the name none but the first alone is in the
\* table, and a says so.
NoneYet(name, n, a) ==
  /\ \A m \in 2..n : Held(Pre(name, m)) = {}
  /\ a.dst_port = -1 /\ ~a.terminate

\* Of the first n, the longest in the table has k components, and a has its
\* port; a says to stop only if there is no longer one.
LongestYet(name, n, a, k) ==
  /\ k \in 2..n /\ Held(Pre(name, k)) # {}
  /\ \A m \in 2..n : m > k => Held(Pre(name, m)) = {}
  /\ a.dst_port = PortOf(Pre(name, k))
  /\ a.terminate => \A m \in 2..Len(name) : m > k => Held(Pre(name, m)) = {}

SoFar(name, n, a) == NoneYet(name, n, a) \/ \E k \in 2..n : LongestYet(name, n, a, k)

LEMMA OneMore ==
  ASSUME FibInv, NEW name \in Names, Unspilled(name), NEW n \in 2..Len(name), NEW j, j = n-1,
         NEW a, SoFar(name, j, a), NEW c, c = MatchPrefix(a, Pre(name, n))
  PROVE  SoFar(name, n, c)
<1> PICK p : p = Pre(name, n)
  OBVIOUS
<1>1. Len(name) \in Nat /\ n \in Nat /\ j \in Nat /\ 2..j \subseteq 2..n
  BY PreFacts
<1>2. p \in Prefix
  BY <1>1, PreFacts
<1>3. \A l \in Held(p) : l[1] = hash[p][1]
  BY DEF Unspilled, Tried
<1>4. \A m \in 2..n : m \in 2..j \/ m = n
  BY <1>1
<1>5. \A k \in 2..j : n > k
  BY <1>1
<1>6. CASE a.terminate \/ Held(p) = {}
  <2>1. c = a
    BY <1>2, <1>3, <1>6, MatchHeld
  <2>2. CASE NoneYet(name, j, a)
    BY <1>4, <1>6, <2>1, <2>2 DEF NoneYet, SoFar
  <2>3. ASSUME NEW k \in 2..j, LongestYet(name, j, a, k)
        PROVE  LongestYet(name, n, a, k)
    BY <1>1, <1>4, <1>5, <1>6, <2>3 DEF LongestYet
  <2> QED
    BY <1>1, <2>1, <2>2, <2>3 DEF SoFar
<1>7. CASE ~a.terminate /\ Held(p) # {}
  <2>1. c.dst_port = PortOf(p) /\ (c.terminate => ~Extended(p))
    BY <1>2, <1>3, <1>7, MatchHeld
  <2>2. ASSUME c.terminate, NEW m \in 2..Len(name), m > n
        PROVE  Held(Pre(name, m)) = {}
    <3>1. m \in 1..Len(name) /\ n \in 1..Len(name)
      BY <1>1
    <3> QED
      BY <2>1, <2>2, <3>1, TerminalIsLongest
  <2>3. n \in 2..n /\ \A m \in 2..n : ~(m > n)
    BY <1>1
  <2>4. LongestYet(name, n, c, n)
    BY <1>7, <2>1, <2>2, <2>3 DEF LongestYet
  <2> QED
    BY <2>3, <2>4 DEF SoFar
<1> QED
  BY <1>6, <1>7

LEMMA AllPrefixes ==
  ASSUME FibInv, NEW name \in Names, Unspilled(name)
  PROVE  SoFar(name, Len(name), Matched(name)[Len(name)])
<1> DEFINE T == {n \in Nat : n \in 1..Len(name) /\ ~SoFar(name, n, Matched(name)[n])}
<1>0. Len(name) \in Nat \ {0}
  BY PreFacts
<1>1. /\ Matched(name)[1] = Start
      /\ \A n \in 2..Len(name) :
           Matched(name)[n] = MatchPrefix(Matched(name)[n-1], Pre(name, n))
  BY <1>0, MatchedStep
<1>2. T = {}
  <2> SUFFICES ASSUME T # {} PROVE FALSE
    OBVIOUS
  <2>1. PICK n \in T : \A y \in T : n <= y
    BY LeastNumber
  <2>2. n \in 1..Len(name) /\ ~SoFar(name, n, Matched(name)[n])
    BY <2>1
  <2>3. CASE n = 1
    <3>1. NoneYet(name, 1, Start)
      BY DEF NoneYet, Start
    <3> QED
      BY <1>1, <2>2, <2>3, <3>1 DEF SoFar
  <2>4. CASE n # 1
    <3> PICK j, a, c : j = n-1 /\ a = Matched(name)[j] /\ c = Matched(name)[n]
      OBVIOUS
    <3>1. n \in 2..Len(name) /\ j \in 1..Len(name) /\ j \in Nat /\ ~(n <= j)
      BY <1>0, <2>2, <2>4
    <3>2. SoFar(name, j, a)
      BY <2>1, <3>1
    <3>3. c = MatchPrefix(a, Pre(name, n))
      BY <1>1, <3>1
    <3>4. SoFar(name, n, c)
      BY <3>1, <3>2, <3>3, OneMore
    <3> QED
      BY <2>2, <3>4
  <2> QED
    BY <2>3, <2>4
<1> QED
  BY <1>0, <1>2

\* The reference by the length of the longest prefix.
LEMMA LongestIs ==
  ASSUME NEW name \in Names
  PROVE  /\ (\A m \in 2..Len(name) : Held(Pre(name, m)) = {}) => LongestPrefix(name) = -1
         /\ \A k \in 2..Len(name) :
              /\ Held(Pre(name, k)) # {}
              /\ \A m \in 2..Len(name) : m > k => Held(Pre(name, m)) = {}
              => LongestPrefix(name) = PortOf(Pre(name, k))
<1> DEFINE ps == {p \in Tried(name) : Held(p) # {}}
           longest(p) == \A q \in ps : Len(q) <= Len(p)
<1>1. Len(name) \in Nat /\ \A m \in 2..Len(name) : Len(Pre(name, m)) = m
  BY PreFacts
<1>2. LongestPrefix(name) = IF ps = {} THEN -1 ELSE PortOf(CHOOSE p \in ps : longest(p))
  BY DEF LongestPrefix
<1>3. \A q \in ps : \E m \in 2..Len(name) : q = Pre(name, m) /\ Held(Pre(name, m)) # {}
  BY DEF Tried
<1>4. ASSUME NEW k \in 2..Len(name), Held(Pre(name, k)) # {},
             \A m \in 2..Len(name) : m > k => Held(Pre(name, m)) = {}
      PROVE  LongestPrefix(name) = PortOf(Pre(name, k))
  <2>1. Pre(name, k) \in ps /\ Len(Pre(name, k)) = k
    BY <1>1, <1>4 DEF Tried
  <2>2. \A q \in ps : \E m \in 2..Len(name) : q = Pre(name, m) /\ Len(q) = m /\ m <= k
    BY <1>1, <1>3, <1>4
  <2>3. longest(Pre(name, k))
    BY <2>1, <2>2
  <2>4. ASSUME NEW p \in ps, longest(p)
        PROVE  p = Pre(name, k)
    <3>1. PICK m \in 2..Len(name) : p = Pre(name, m) /\ Len(p) = m /\ m <= k
      BY <2>2, <2>4
    <3>2. k <= m
      BY <2>1, <2>4, <3>1
    <3> QED
      BY <1>1, <3>1, <3>2
  <2> HIDE DEF ps, longest
  <2>5. (CHOOSE p \in ps : longest(p)) = Pre(name, k)
    BY <2>1, <2>3, <2>4
  <2> QED
    BY <1>2, <2>1, <2>5
<1>5. (\A m \in 2..Len(name) : Held(Pre(name, m)) = {}) => LongestPrefix(name) = -1
  BY <1>2, <1>3
<1> QED
  BY <1>4, <1>5

LEMMA NogotoLongest ==
  ASSUME FibInv, NEW name \in Names, Unspilled(name)
  PROVE  process_name_nogoto(name) = LongestPrefix(name)
<1> PICK a : a = Matched(name)[Len(name)]
  OBVIOUS
<1>1. SoFar(name, Len(name), a) /\ process_name_nogoto(name) = a.dst_port
  BY AllPrefixes DEF process_name_nogoto
<1>2. CASE NoneYet(name, Len(name), a)
  BY <1>1, <1>2, LongestIs DEF NoneYet
<1>3. ASSUME NEW k \in 2..Len(name), LongestYet(name, Len(name), a, k)
      PROVE  process_name_nogoto(name) = LongestPrefix(name)
  BY <1>1, <1>3, LongestIs DEF LongestYet
<1> QED
  BY <1>1, <1>2, <1>3 DEF SoFar

(* For any file of URLs, any hash function, any batch size and any names,  *)
(* goto.c forwards a name by its longest prefix in the table unless one of *)
(* the prefixes is in its second bucket.                                   *)
THEOREM LookupsLongest == Spec => []LookupUnlessSpilled
<1>1. ASSUME LookupInv, FibInv PROVE LookupUnlessSpilled
  <2> SUFFICES ASSUME Returned, NEW i \in Slot, Unspilled(names[i])
               PROVE  dst_ports[i] = LongestPrefix(names[i])
    BY DEF LookupUnlessSpilled, Unspilled
  <2>1. Ended(i) /\ NameInv(i) /\ names[i] \in Names
    BY <1>1 DEF LookupInv, NamesInv, Returned, Ended
  <2>2. dst_ports[i] = process_name_nogoto(names[i])
    BY <2>1 DEF NameInv
  <2>3. process_name_nogoto(names[i]) = LongestPrefix(names[i])
    BY <1>1, <2>1, NogotoLongest
  <2> QED
    BY <2>2, <2>3
<1> QED
  BY <1>1, LookupInit, LookupStep, FibInit, FibStep, PTL DEF Spec
=============================================================================
