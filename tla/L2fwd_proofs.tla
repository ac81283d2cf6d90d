--------------------------- MODULE L2fwd_proofs ---------------------------
(***************************************************************************)
(* Proofs about the forwarding server for any number of ports, any size of *)
(* the bursts and any pool; about the traffic generator for any number of  *)
(* lcores and any size of bursts, descriptor rings, caches and pools that  *)
(* satisfy the assumptions of L2fwdClient; and about the benchmark as main *)
(* runs it, as one or the other.  A step of the one leaves the state of    *)
(* the other alone, so the two inductive invariants add up.                *)
(*                                                                         *)
(* A packet passes through four stages of the server (Pipeline), and every *)
(* step of the server or the NIC is, on the stages, one of three: a prefix *)
(* of one queue moves to the end of another one stage further, a prefix    *)
(* leaves, or a packet enters the last queue.  The first lemmas say what   *)
(* these three do to ownership and order, whatever the queues hold.        *)
(***************************************************************************)
EXTENDS L2fwd, SequenceTheorems, FiniteSetTheorems, TLAPS

-----------------------------------------------------------------------------
(* The forwarding server.                                                  *)

Lines == [Stage -> [Port -> Seq(Packet)]]

(* Packets wait at the port they came from, then at the one they go to.    *)
Routed(L) ==
  \A a \in Stage, p \in Port : \A i \in DOMAIN L[a][p] :
    IF a <= 2 THEN L[a][p][i].dst = p ELSE L[a][p][i].src = p

\* The first k packets of queue (a, p) are now the last ones of (b, q).
Moved(L, M, a, p, b, q, k) ==
  /\ k \in 0..Len(L[a][p])
  /\ Len(M[a][p]) = Len(L[a][p]) - k
  /\ \A i \in 1..Len(M[a][p]) : M[a][p][i] = L[a][p][i + k]
  /\ Len(M[b][q]) = Len(L[b][q]) + k
  /\ \A i \in 1..Len(M[b][q]) :
       M[b][q][i] = IF i <= Len(L[b][q]) THEN L[b][q][i] ELSE L[a][p][i - Len(L[b][q])]
  /\ \A c \in Stage, r \in Port : ~(c = a /\ r = p) /\ ~(c = b /\ r = q) => M[c][r] = L[c][r]

\* The first k packets of queue (a, p) are gone.
Gone(L, M, a, p, k) ==
  /\ k \in 0..Len(L[a][p])
  /\ Len(M[a][p]) = Len(L[a][p]) - k
  /\ \A i \in 1..Len(M[a][p]) : M[a][p][i] = L[a][p][i + k]
  /\ \A c \in Stage, r \in Port : ~(c = a /\ r = p) => M[c][r] = L[c][r]

\* Packet x is the last of queue (a, p).
Entered(L, M, a, p, x) ==
  /\ Len(M[a][p]) = Len(L[a][p]) + 1
  /\ \A i \in 1..Len(M[a][p]) : M[a][p][i] = IF i <= Len(L[a][p]) THEN L[a][p][i] ELSE x
  /\ \A c \in Stage, r \in Port : ~(c = a /\ r = p) => M[c][r] = L[c][r]

LEMMA LineFacts ==
  ASSUME NEW L \in Lines, NEW a \in Stage, NEW p \in Port
  PROVE  /\ L[a][p] \in Seq(Packet)
         /\ Len(L[a][p]) \in Nat /\ DOMAIN L[a][p] = 1..Len(L[a][p])
         /\ \A i \in 1..Len(L[a][p]) : L[a][p][i] \in Packet
<1>1. L[a][p] \in Seq(Packet)
  BY DEF Lines
<1> QED
  BY <1>1, LenProperties, ElementOfSeq

LEMMA InUseFacts ==
  ASSUME NEW L \in Lines, NEW m
  PROVE  m \in InUse(L) <=>
           \E a \in Stage, p \in Port : \E i \in DOMAIN L[a][p] : L[a][p][i].mbuf = m
<1>1. \A a \in Stage, p \in Port : \A i \in DOMAIN L[a][p] : L[a][p][i].mbuf \in Mbufs
  BY LineFacts DEF Packet
<1> QED
  BY <1>1, Zenon DEF InUse

-----------------------------------------------------------------------------
\* Packet i of queue (c, r) of M was packet j of queue (d, s) of L.
From(L, M, a, p, b, q, k, c, r, i, d, s, j) ==
  /\ d \in Stage /\ s \in Port /\ j \in DOMAIN L[d][s]
  /\ M[c][r][i] = L[d][s][j]
  /\ \/ c = b /\ r = q /\ i > Len(L[b][q]) /\ d = a /\ s = p /\ j = i - Len(L[b][q]) /\ j <= k
     \/ c = a /\ r = p /\ d = a /\ s = p /\ j = i + k
     \/ ~(c = a /\ r = p) /\ ~(c = b /\ r = q /\ i > Len(L[b][q])) /\ d = c /\ s = r /\ j = i

LEMMA MovedFrom ==
  ASSUME NEW L \in Lines, NEW M \in Lines,
         NEW a \in Stage, NEW p \in Port, NEW b \in Stage, NEW q \in Port, a # b,
         NEW k, Moved(L, M, a, p, b, q, k),
         NEW c \in Stage, NEW r \in Port, NEW i \in DOMAIN M[c][r]
  PROVE  /\ \E d, s, j : From(L, M, a, p, b, q, k, c, r, i, d, s, j)
         /\ Len(L[b][q]) \in Nat /\ k \in Nat /\ i \in Nat \ {0}
<1>1. /\ Len(L[a][p]) \in Nat /\ DOMAIN L[a][p] = 1..Len(L[a][p])
      /\ Len(L[b][q]) \in Nat /\ DOMAIN L[b][q] = 1..Len(L[b][q])
      /\ Len(M[c][r]) \in Nat /\ DOMAIN M[c][r] = 1..Len(M[c][r])
  BY LineFacts
<1>2. CASE c = a /\ r = p
  <2>1. M[a][p][i] = L[a][p][i + k] /\ i \in 1 .. Len(L[a][p]) - k /\ k \in 0..Len(L[a][p])
    BY <1>1, <1>2 DEF Moved
  <2>2. i + k \in 1..Len(L[a][p])
    BY <1>1, <2>1
  <2>3. From(L, M, a, p, b, q, k, c, r, i, a, p, i + k)
    BY <1>1, <1>2, <2>1, <2>2 DEF From
  <2> QED
    BY <1>1, <2>1, <2>3
<1>3. CASE c = b /\ r = q
  <2>1. /\ M[b][q][i] = IF i <= Len(L[b][q]) THEN L[b][q][i] ELSE L[a][p][i - Len(L[b][q])]
        /\ i \in 1 .. Len(L[b][q]) + k /\ k \in 0..Len(L[a][p])
    BY <1>1, <1>3 DEF Moved
  <2>2. CASE i <= Len(L[b][q])
    <3>1. From(L, M, a, p, b, q, k, c, r, i, b, q, i)
      BY <1>1, <1>3, <2>1, <2>2 DEF From
    <3> QED
      BY <1>1, <2>1, <3>1
  <2>3. CASE i > Len(L[b][q])
    <3>1. i - Len(L[b][q]) \in 1..Len(L[a][p]) /\ i - Len(L[b][q]) <= k /\ ~(i <= Len(L[b][q]))
      BY <1>1, <2>1, <2>3, SMTT(30)
    <3>2. From(L, M, a, p, b, q, k, c, r, i, a, p, i - Len(L[b][q]))
      BY <1>1, <1>3, <2>1, <2>3, <3>1 DEF From
    <3> QED
      BY <1>1, <2>1, <3>2
  <2> QED
    BY <1>1, <2>1, <2>2, <2>3
<1>4. CASE ~(c = a /\ r = p) /\ ~(c = b /\ r = q)
  <2>1. From(L, M, a, p, b, q, k, c, r, i, c, r, i)
    BY <1>4 DEF Moved, From
  <2> QED
    BY <1>1, <2>1 DEF Moved
<1> QED
  BY <1>2, <1>3, <1>4

(* Where each packet of L is in M.                                         *)
LEMMA MovedTo ==
  ASSUME NEW L \in Lines, NEW M \in Lines,
         NEW a \in Stage, NEW p \in Port, NEW b \in Stage, NEW q \in Port, a # b,
         NEW k, Moved(L, M, a, p, b, q, k),
         NEW c \in Stage, NEW r \in Port, NEW i \in DOMAIN L[c][r]
  PROVE  \E d \in Stage, s \in Port : \E j \in DOMAIN M[d][s] : M[d][s][j] = L[c][r][i]
<1>1. /\ Len(L[a][p]) \in Nat /\ DOMAIN L[a][p] = 1..Len(L[a][p])
      /\ Len(L[b][q]) \in Nat /\ DOMAIN L[b][q] = 1..Len(L[b][q])
      /\ DOMAIN M[a][p] = 1..Len(M[a][p]) /\ DOMAIN M[b][q] = 1..Len(M[b][q])
  BY LineFacts
<1>2. k \in 0..Len(L[a][p])
  BY DEF Moved
<1>3. CASE c = a /\ r = p /\ i > k
  <2>1. i - k \in DOMAIN M[a][p] /\ M[a][p][i - k] = L[a][p][i]
    <3>1. i - k \in 1..Len(M[a][p]) /\ (i - k) + k = i
      BY <1>1, <1>2, <1>3 DEF Moved
    <3> QED
      BY <1>1, <3>1 DEF Moved
  <2> QED
    BY <1>3, <2>1
<1>4. CASE c = a /\ r = p /\ i <= k
  <2>1. i + Len(L[b][q]) \in DOMAIN M[b][q] /\ M[b][q][i + Len(L[b][q])] = L[a][p][i]
    <3> DEFINE n == Len(L[b][q])
    <3>1. i + n \in 1..Len(M[b][q]) /\ (i + n) - n = i /\ ~(i + n <= n)
      <4>1. i \in 1..k /\ Len(M[b][q]) = n + k /\ n \in Nat /\ k \in Nat
        BY <1>1, <1>2, <1>4 DEF Moved
      <4> HIDE DEF n
      <4> QED
        BY <4>1
    <3>2. M[b][q][i + n] = IF i + n <= n THEN L[b][q][i + n] ELSE L[a][p][(i + n) - n]
      BY <3>1 DEF Moved
    <3> QED
      BY <1>1, <3>1, <3>2
  <2> QED
    BY <1>4, <2>1
<1>5. CASE c = b /\ r = q
  <2>1. i \in DOMAIN M[b][q] /\ M[b][q][i] = L[b][q][i]
    BY <1>1, <1>2, <1>5, SMTT(30) DEF Moved
  <2> QED
    BY <1>5, <2>1
<1>6. CASE ~(c = a /\ r = p) /\ ~(c = b /\ r = q)
  BY <1>6 DEF Moved
<1> QED
  BY <1>1, <1>2, <1>3, <1>4, <1>5, <1>6

LEMMA MovedKeepsInUse ==
  ASSUME NEW L \in Lines, NEW M \in Lines,
         NEW a \in Stage, NEW p \in Port, NEW b \in Stage, NEW q \in Port, a # b,
         NEW k, Moved(L, M, a, p, b, q, k)
  PROVE  InUse(M) = InUse(L)
<1>1. ASSUME NEW c \in Stage, NEW r \in Port, NEW i \in DOMAIN M[c][r]
      PROVE  \E d \in Stage, s \in Port : \E j \in DOMAIN L[d][s] : L[d][s][j] = M[c][r][i]
  <2>1. PICK d, s, j : From(L, M, a, p, b, q, k, c, r, i, d, s, j)
    BY MovedFrom
  <2> QED
    BY <2>1 DEF From
<1>2. ASSUME NEW c \in Stage, NEW r \in Port, NEW i \in DOMAIN L[c][r]
      PROVE  \E d \in Stage, s \in Port : \E j \in DOMAIN M[d][s] : M[d][s][j] = L[c][r][i]
  BY MovedTo
<1>3. \A m \in InUse(M) : m \in InUse(L)
  BY <1>1 DEF InUse
<1>4. \A m \in InUse(L) : m \in InUse(M)
  BY <1>2 DEF InUse
<1> QED
  BY <1>3, <1>4

LEMMA MovedKeepsOwner ==
  ASSUME NEW L \in Lines, NEW M \in Lines,
         NEW a \in Stage, NEW p \in Port, NEW b \in Stage, NEW q \in Port, a # b,
         NEW k, Moved(L, M, a, p, b, q, k), OwnedOnce(L)
  PROVE  OwnedOnce(M)
<1> SUFFICES ASSUME NEW c \in Stage, NEW d \in Stage, NEW r \in Port, NEW s \in Port,
                    NEW i \in DOMAIN M[c][r], NEW j \in DOMAIN M[d][s],
                    M[c][r][i].mbuf = M[d][s][j].mbuf
             PROVE  c = d /\ r = s /\ i = j
  BY DEF OwnedOnce
<1> DEFINE n == Len(L[b][q])
<1>1. n \in Nat /\ k \in Nat /\ i \in Nat \ {0} /\ j \in Nat \ {0}
  BY MovedFrom
<1>2. PICK c0, r0, i0 : From(L, M, a, p, b, q, k, c, r, i, c0, r0, i0)
  BY MovedFrom
<1>3. PICK d0, s0, j0 : From(L, M, a, p, b, q, k, d, s, j, d0, s0, j0)
  BY MovedFrom
<1>4. L[c0][r0][i0].mbuf = L[d0][s0][j0].mbuf
  BY <1>2, <1>3 DEF From
<1>5. c0 = d0 /\ r0 = s0 /\ i0 = j0
  BY <1>2, <1>3, <1>4 DEF OwnedOnce, From
<1> HIDE DEF n
<1> QED
  BY <1>1, <1>2, <1>3, <1>5 DEF From, n

LEMMA MovedKeepsOrder ==
  ASSUME NEW L \in Lines, NEW M \in Lines,
         NEW a \in Stage, NEW p \in Port, NEW b \in Stage, NEW q \in Port, a = b + 1,
         NEW k, Moved(L, M, a, p, b, q, k), InOrder(L), Routed(L), Routed(M)
  PROVE  InOrder(M)
<1> SUFFICES ASSUME NEW c \in Stage, NEW d \in Stage, NEW r \in Port, NEW s \in Port,
                    NEW i \in DOMAIN M[c][r], NEW j \in DOMAIN M[d][s],
                    M[c][r][i].src = M[d][s][j].src, M[c][r][i].dst = M[d][s][j].dst,
                    c < d \/ (c = d /\ r = s /\ i < j)
             PROVE  M[c][r][i].no < M[d][s][j].no
  BY DEF InOrder
<1> DEFINE n == Len(L[b][q])
<1>0. a # b
  BY DEF Stage
<1>1. n \in Nat /\ k \in Nat /\ i \in Nat \ {0} /\ j \in Nat \ {0}
  BY <1>0, MovedFrom
<1>2. PICK c0, r0, i0 : From(L, M, a, p, b, q, k, c, r, i, c0, r0, i0)
  BY <1>0, MovedFrom
<1>3. PICK d0, s0, j0 : From(L, M, a, p, b, q, k, d, s, j, d0, s0, j0)
  BY <1>0, MovedFrom
<1> HIDE DEF n
<1>4. c0 = d0 => r0 = s0
  <2>1. IF c0 <= 2 THEN L[c0][r0][i0].dst = r0 ELSE L[c0][r0][i0].src = r0
    BY <1>2 DEF Routed, From
  <2>2. IF d0 <= 2 THEN L[d0][s0][j0].dst = s0 ELSE L[d0][s0][j0].src = s0
    BY <1>3 DEF Routed, From
  <2> QED
    BY <1>2, <1>3, <2>1, <2>2 DEF From
<1>5. c0 < d0 \/ (c0 = d0 /\ r0 = s0 /\ i0 < j0)
  BY <1>1, <1>2, <1>3, <1>4, SMTT(30) DEF Stage, From, n
<1>6. L[c0][r0][i0].no < L[d0][s0][j0].no
  BY <1>2, <1>3, <1>5 DEF InOrder, From
<1> QED
  BY <1>2, <1>3, <1>6 DEF From

-----------------------------------------------------------------------------
(* What remains when the first k of (a, p) are gone.                       *)
LEMMA GoneFrom ==
  ASSUME NEW L \in Lines, NEW M \in Lines, NEW a \in Stage, NEW p \in Port,
         NEW k, Gone(L, M, a, p, k),
         NEW c \in Stage, NEW r \in Port, NEW i \in DOMAIN M[c][r]
  PROVE  /\ k \in Nat /\ i \in Nat \ {0}
         /\ \E j \in DOMAIN L[c][r] : /\ M[c][r][i] = L[c][r][j]
                                      /\ j = IF c = a /\ r = p THEN i + k ELSE i
<1>1. /\ Len(L[a][p]) \in Nat /\ DOMAIN L[a][p] = 1..Len(L[a][p])
      /\ Len(M[c][r]) \in Nat /\ DOMAIN M[c][r] = 1..Len(M[c][r])
  BY LineFacts
<1>2. CASE c = a /\ r = p
  <2>1. M[a][p][i] = L[a][p][i + k] /\ i \in 1 .. Len(L[a][p]) - k /\ k \in 0..Len(L[a][p])
    BY <1>1, <1>2 DEF Gone
  <2>2. i + k \in 1..Len(L[a][p])
    BY <1>1, <2>1
  <2> QED
    BY <1>1, <1>2, <2>1, <2>2
<1>3. CASE ~(c = a /\ r = p)
  BY <1>1, <1>3 DEF Gone
<1> QED
  BY <1>2, <1>3

LEMMA GoneKeeps ==
  ASSUME NEW L \in Lines, NEW M \in Lines, NEW a \in Stage, NEW p \in Port,
         NEW k, Gone(L, M, a, p, k)
  PROVE  /\ OwnedOnce(L) => OwnedOnce(M)
         /\ InOrder(L) => InOrder(M)
         /\ Routed(L) => Routed(M)
<1>1. ASSUME NEW c \in Stage, NEW d \in Stage, NEW r \in Port, NEW s \in Port,
             NEW i \in DOMAIN M[c][r], NEW j \in DOMAIN M[d][s]
      PROVE  \E i0 \in DOMAIN L[c][r], j0 \in DOMAIN L[d][s] :
               /\ M[c][r][i] = L[c][r][i0] /\ M[d][s][j] = L[d][s][j0]
               /\ c = d /\ r = s => (i0 = j0 => i = j) /\ (i < j => i0 < j0)
  <2>1. PICK i0 \in DOMAIN L[c][r] : /\ M[c][r][i] = L[c][r][i0]
                                     /\ i0 = IF c = a /\ r = p THEN i + k ELSE i
    BY GoneFrom
  <2>2. PICK j0 \in DOMAIN L[d][s] : /\ M[d][s][j] = L[d][s][j0]
                                     /\ j0 = IF d = a /\ s = p THEN j + k ELSE j
    BY GoneFrom
  <2>3. k \in Nat /\ i \in Nat /\ j \in Nat
    BY GoneFrom
  <2> QED
    BY <2>1, <2>2, <2>3
<1>2. OwnedOnce(L) => OwnedOnce(M)
  <2> SUFFICES ASSUME OwnedOnce(L),
                      NEW c \in Stage, NEW d \in Stage, NEW r \in Port, NEW s \in Port,
                      NEW i \in DOMAIN M[c][r], NEW j \in DOMAIN M[d][s],
                      M[c][r][i].mbuf = M[d][s][j].mbuf
               PROVE  c = d /\ r = s /\ i = j
    BY DEF OwnedOnce
  <2>1. PICK i0 \in DOMAIN L[c][r], j0 \in DOMAIN L[d][s] :
               /\ M[c][r][i] = L[c][r][i0] /\ M[d][s][j] = L[d][s][j0]
               /\ c = d /\ r = s => (i0 = j0 => i = j) /\ (i < j => i0 < j0)
    BY <1>1
  <2>2. c = d /\ r = s /\ i0 = j0
    BY <2>1 DEF OwnedOnce
  <2> QED
    BY <2>1, <2>2
<1>3. InOrder(L) => InOrder(M)
  <2> SUFFICES ASSUME InOrder(L),
                      NEW c \in Stage, NEW d \in Stage, NEW r \in Port, NEW s \in Port,
                      NEW i \in DOMAIN M[c][r], NEW j \in DOMAIN M[d][s],
                      M[c][r][i].src = M[d][s][j].src, M[c][r][i].dst = M[d][s][j].dst,
                      c < d \/ (c = d /\ r = s /\ i < j)
               PROVE  M[c][r][i].no < M[d][s][j].no
    BY DEF InOrder
  <2>1. PICK i0 \in DOMAIN L[c][r], j0 \in DOMAIN L[d][s] :
               /\ M[c][r][i] = L[c][r][i0] /\ M[d][s][j] = L[d][s][j0]
               /\ c = d /\ r = s => (i0 = j0 => i = j) /\ (i < j => i0 < j0)
    BY <1>1
  <2>2. c < d \/ (c = d /\ r = s /\ i0 < j0)
    BY <2>1
  <2>3. L[c][r][i0].no < L[d][s][j0].no
    BY <2>1, <2>2 DEF InOrder
  <2> QED
    BY <2>1, <2>3
<1>4. Routed(L) => Routed(M)
  BY GoneFrom DEF Routed
<1> QED
  BY <1>2, <1>3, <1>4

(* The mbufs of the packets that are gone are not in use any more.         *)
LEMMA GoneFrees ==
  ASSUME NEW L \in Lines, NEW M \in Lines, NEW a \in Stage, NEW p \in Port,
         NEW k, Gone(L, M, a, p, k), OwnedOnce(L)
  PROVE  InUse(M) = InUse(L) \ {L[a][p][i].mbuf : i \in 1..k}
<1>1. k \in 0..Len(L[a][p]) /\ Len(L[a][p]) \in Nat /\ DOMAIN L[a][p] = 1..Len(L[a][p])
  BY LineFacts DEF Gone
<1>2. \A i \in 1..k : i \in DOMAIN L[a][p]
  BY <1>1
<1>3. ASSUME NEW m \in InUse(M)
      PROVE  m \in InUse(L) /\ m \notin {L[a][p][i].mbuf : i \in 1..k}
  <2>1. PICK c \in Stage, r \in Port : \E i \in DOMAIN M[c][r] : M[c][r][i].mbuf = m
    BY <1>3 DEF InUse
  <2>2. PICK i \in DOMAIN M[c][r] : M[c][r][i].mbuf = m
    BY <2>1
  <2>3. PICK j \in DOMAIN L[c][r] : /\ M[c][r][i] = L[c][r][j]
                                    /\ j = IF c = a /\ r = p THEN i + k ELSE i
    BY GoneFrom
  <2>4. m \in InUse(L)
    BY <1>3, <2>2, <2>3 DEF InUse
  <2>5. ASSUME NEW h \in 1..k, L[a][p][h].mbuf = m PROVE FALSE
    <3>1. c = a /\ r = p /\ j = h
      BY <1>2, <2>2, <2>3, <2>5 DEF OwnedOnce
    <3>2. k \in Nat /\ i \in Nat \ {0}
      BY GoneFrom
    <3> QED
      BY <2>3, <3>1, <3>2
  <2> QED
    BY <2>4, <2>5
<1>4. ASSUME NEW m \in InUse(L), m \notin {L[a][p][i].mbuf : i \in 1..k}
      PROVE  m \in InUse(M)
  <2>1. PICK c \in Stage, r \in Port : \E i \in DOMAIN L[c][r] : L[c][r][i].mbuf = m
    BY <1>4 DEF InUse
  <2>2. PICK i \in DOMAIN L[c][r] : L[c][r][i].mbuf = m
    BY <2>1
  <2>3. CASE c = a /\ r = p
    <3>1. i \in 1..Len(L[a][p]) /\ ~(i \in 1..k)
      BY <1>1, <1>4, <2>2, <2>3
    <3>2. i - k \in 1..Len(M[a][p]) /\ (i - k) + k = i
      BY <1>1, <3>1 DEF Gone
    <3>3. M[a][p][i - k] = L[a][p][i] /\ i - k \in DOMAIN M[a][p]
      BY <3>2, LineFacts DEF Gone
    <3> QED
      BY <1>4, <2>2, <2>3, <3>3 DEF InUse
  <2>4. CASE ~(c = a /\ r = p)
    <3>1. M[c][r] = L[c][r]
      BY <2>4 DEF Gone
    <3> QED
      BY <1>4, <2>2, <3>1 DEF InUse
  <2> QED
    BY <2>3, <2>4
<1> QED
  BY <1>3, <1>4

-----------------------------------------------------------------------------
(* A packet that enters the last stage with a free mbuf and the highest    *)
(* number disturbs nothing.                                                *)
LEMMA EnteredKeeps ==
  ASSUME NEW L \in Lines, NEW M \in Lines, NEW p \in Port,
         NEW x \in Packet, Entered(L, M, 4, p, x), x.mbuf \notin InUse(L),
         \A a \in Stage, r \in Port : \A i \in DOMAIN L[a][r] : L[a][r][i].no < x.no
  PROVE  /\ OwnedOnce(L) => OwnedOnce(M)
         /\ InOrder(L) => InOrder(M)
         /\ InUse(M) = InUse(L) \union {x.mbuf}
<1>0. 4 \in Stage /\ \A c \in Stage : ~(4 < c)
  BY DEF Stage
<1> DEFINE n == Len(L[4][p])
<1>1. n \in Nat /\ DOMAIN L[4][p] = 1..n /\ DOMAIN M[4][p] = 1..(n + 1)
  BY <1>0, LineFacts DEF Entered
<1>2. \A i \in 1..(n + 1) : M[4][p][i] = IF i <= n THEN L[4][p][i] ELSE x
  <2>1. Len(M[4][p]) = n + 1
    BY DEF Entered
  <2> QED
    BY <2>1 DEF Entered
<1>3. ASSUME NEW c \in Stage, NEW r \in Port, NEW i \in DOMAIN M[c][r]
      PROVE  \/ c = 4 /\ r = p /\ i = n + 1 /\ M[c][r][i] = x
             \/ i \in DOMAIN L[c][r] /\ M[c][r][i] = L[c][r][i]
  <2>1. CASE c = 4 /\ r = p
    <3>1. i \in 1..(n + 1) /\ (i <= n \/ i = n + 1)
      BY <1>1, <2>1
    <3> HIDE DEF n
    <3>2. CASE i <= n
      BY <1>1, <1>2, <2>1, <3>1, <3>2
    <3>3. CASE i = n + 1
      BY <1>1, <1>2, <2>1, <3>1, <3>3
    <3> QED
      BY <3>1, <3>2, <3>3
  <2>2. CASE ~(c = 4 /\ r = p)
    BY <2>2 DEF Entered
  <2> QED
    BY <2>1, <2>2
<1>4. ASSUME NEW c \in Stage, NEW r \in Port, NEW i \in DOMAIN L[c][r]
      PROVE  i \in DOMAIN M[c][r] /\ M[c][r][i] = L[c][r][i] /\ (c = 4 /\ r = p => i < n + 1)
  <2>1. CASE c = 4 /\ r = p
    <3>1. i \in 1..n
      BY <1>1, <2>1
    <3> HIDE DEF n
    <3>2. i \in 1..(n + 1) /\ i <= n /\ i < n + 1
      BY <1>1, <3>1
    <3> QED
      BY <1>1, <1>2, <2>1, <3>2
  <2>2. CASE ~(c = 4 /\ r = p)
    BY <2>2 DEF Entered
  <2> QED
    BY <2>1, <2>2
<1>5. \A c \in Stage, r \in Port : \A i \in DOMAIN L[c][r] : L[c][r][i].mbuf # x.mbuf
  BY InUseFacts
<1>6. n + 1 \in DOMAIN M[4][p]
  BY <1>1
<1> HIDE DEF n
<1>7. OwnedOnce(L) => OwnedOnce(M)
  <2> SUFFICES ASSUME OwnedOnce(L),
                      NEW c \in Stage, NEW d \in Stage, NEW r \in Port, NEW s \in Port,
                      NEW i \in DOMAIN M[c][r], NEW j \in DOMAIN M[d][s],
                      M[c][r][i].mbuf = M[d][s][j].mbuf
               PROVE  c = d /\ r = s /\ i = j
    BY DEF OwnedOnce
  <2>1. CASE i \in DOMAIN L[c][r] /\ M[c][r][i] = L[c][r][i]
    <3>1. CASE j \in DOMAIN L[d][s] /\ M[d][s][j] = L[d][s][j]
      BY <2>1, <3>1 DEF OwnedOnce
    <3>2. CASE M[d][s][j] = x
      BY <1>5, <2>1, <3>2
    <3> QED
      BY <1>3, <3>1, <3>2
  <2>2. CASE c = 4 /\ r = p /\ i = n + 1 /\ M[c][r][i] = x
    <3>1. ~(j \in DOMAIN L[d][s] /\ M[d][s][j] = L[d][s][j])
      BY <1>5, <2>2
    <3>2. d = 4 /\ s = p /\ j = n + 1
      BY <1>3, <3>1
    <3> QED
      BY <2>2, <3>2
  <2> QED
    BY <1>3, <2>1, <2>2
<1>8. InOrder(L) => InOrder(M)
  <2> SUFFICES ASSUME InOrder(L),
                      NEW c \in Stage, NEW d \in Stage, NEW r \in Port, NEW s \in Port,
                      NEW i \in DOMAIN M[c][r], NEW j \in DOMAIN M[d][s],
                      M[c][r][i].src = M[d][s][j].src, M[c][r][i].dst = M[d][s][j].dst,
                      c < d \/ (c = d /\ r = s /\ i < j)
               PROVE  M[c][r][i].no < M[d][s][j].no
    BY DEF InOrder
  <2>1. CASE c = 4 /\ r = p /\ i = n + 1
    <3>1. d = 4 /\ s = p /\ j > n + 1
      BY <1>0, <2>1
    <3>2. j \in 1..(n + 1)
      BY <1>1, <3>1
    <3> QED
      BY <1>1, <3>1, <3>2
  <2>2. CASE ~(c = 4 /\ r = p /\ i = n + 1)
    <3>1. i \in DOMAIN L[c][r] /\ M[c][r][i] = L[c][r][i]
      BY <1>3, <2>2
    <3> QED
      BY <1>3, <3>1 DEF InOrder
  <2> QED
    BY <2>1, <2>2
<1>9. InUse(M) = InUse(L) \union {x.mbuf}
  <2>1. \A m \in InUse(M) : m \in InUse(L) \union {x.mbuf}
    BY <1>3 DEF InUse
  <2>2. \A m \in InUse(L) : m \in InUse(M)
    BY <1>4 DEF InUse
  <2>3. x.mbuf \in InUse(M)
    <3>1. M[4][p][n + 1] = x
      BY <1>1, <1>2
    <3> QED
      BY <1>0, <1>6, <3>1 DEF InUse, Packet
  <2> QED
    BY <2>1, <2>2, <2>3
<1> QED
  BY <1>7, <1>8, <1>9

-----------------------------------------------------------------------------
(* No packet has a higher number than the last one that arrived.           *)
Numbered(L, n) ==
  \A a \in Stage, p \in Port : \A i \in DOMAIN L[a][p] : L[a][p][i].no <= n

Sound(L, n) == Routed(L) /\ Numbered(L, n) /\ OwnedOnce(L) /\ InOrder(L)

LEMMA MovedKeeps ==
  ASSUME NEW L \in Lines, NEW M \in Lines,
         NEW a \in Stage, NEW p \in Port, NEW b \in Stage, NEW q \in Port, a = b + 1,
         NEW k, Moved(L, M, a, p, b, q, k), NEW n, Sound(L, n),
         IF b <= 2 THEN \A i \in 1..k : L[a][p][i].dst = q ELSE p = q
  PROVE  Sound(M, n) /\ InUse(M) = InUse(L)
<1>0. a # b
  BY DEF Stage
<1>1. Routed(M)
  <2> SUFFICES ASSUME NEW c \in Stage, NEW r \in Port, NEW i \in DOMAIN M[c][r]
               PROVE  IF c <= 2 THEN M[c][r][i].dst = r ELSE M[c][r][i].src = r
    BY DEF Routed
  <2>1. PICK d, s, j : From(L, M, a, p, b, q, k, c, r, i, d, s, j)
    BY <1>0, MovedFrom
  <2>2. Len(L[b][q]) \in Nat /\ k \in Nat /\ i \in Nat \ {0}
    BY <1>0, MovedFrom
  <2>3. /\ d \in Stage /\ s \in Port /\ j \in DOMAIN L[d][s]
        /\ M[c][r][i] = L[d][s][j]
        /\ \/ c = b /\ r = q /\ d = a /\ s = p /\ j \in 1..k
           \/ c = a /\ r = p /\ d = a /\ s = p
           \/ d = c /\ s = r
    BY <2>1, <2>2 DEF From
  <2>4. IF d <= 2 THEN L[d][s][j].dst = s ELSE L[d][s][j].src = s
    BY <2>3 DEF Sound, Routed
  <2>5. CASE c = b /\ r = q /\ d = a /\ s = p /\ j \in 1..k
    <3>1. CASE b <= 2
      BY <2>3, <2>5, <3>1
    <3>2. CASE ~(b <= 2)
      <4>1. ~(a <= 2)
        BY <3>2 DEF Stage
      <4> QED
        BY <2>3, <2>4, <2>5, <3>2, <4>1
    <3> QED
      BY <3>1, <3>2
  <2> QED
    BY <2>3, <2>4, <2>5
<1>2. Numbered(M, n)
  <2> SUFFICES ASSUME NEW c \in Stage, NEW r \in Port, NEW i \in DOMAIN M[c][r]
               PROVE  M[c][r][i].no <= n
    BY DEF Numbered
  <2>1. PICK d, s, j : From(L, M, a, p, b, q, k, c, r, i, d, s, j)
    BY <1>0, MovedFrom
  <2> QED
    BY <2>1 DEF From, Sound, Numbered
<1>3. OwnedOnce(M) /\ InUse(M) = InUse(L)
  BY <1>0, MovedKeepsOwner, MovedKeepsInUse DEF Sound
<1>4. InOrder(M)
  BY <1>1, MovedKeepsOrder DEF Sound
<1> QED
  BY <1>1, <1>2, <1>3, <1>4 DEF Sound

LEMMA GoneKeepsSound ==
  ASSUME NEW L \in Lines, NEW M \in Lines, NEW a \in Stage, NEW p \in Port,
         NEW k, Gone(L, M, a, p, k), NEW n, Sound(L, n)
  PROVE  Sound(M, n)
<1>1. Numbered(M, n)
  <2> SUFFICES ASSUME NEW c \in Stage, NEW r \in Port, NEW i \in DOMAIN M[c][r]
               PROVE  M[c][r][i].no <= n
    BY DEF Numbered
  <2>1. PICK j \in DOMAIN L[c][r] : M[c][r][i] = L[c][r][j]
    BY GoneFrom
  <2> QED
    BY <2>1 DEF Sound, Numbered
<1> QED
  BY <1>1, GoneKeeps DEF Sound

-----------------------------------------------------------------------------
BuffersNotFull == \A p \in Port : Len(mbufs[p]) < MAX_SRV_BURST

ServerInv ==
  /\ TypeOK
  /\ spc = "rx" => batch_index = 0
  /\ Sound(Pipeline, arrivals)
  /\ pool = Mbufs \ InUse(Pipeline)
  /\ BuffersNotFull

LEMMA LinesOfQueues ==
  ASSUME NEW f \in [Port -> Seq(Packet)], NEW g \in [Port -> Seq(Packet)],
         NEW h \in [Port -> Seq(Packet)], NEW k \in [Port -> Seq(Packet)]
  PROVE  <<f, g, h, k>> \in Lines
<1> DEFINE S == [Port -> Seq(Packet)]
<1>1. <<f, g, h, k>> \in Seq(S) /\ Len(<<f, g, h, k>>) = 4
  OBVIOUS
<1> QED
  BY <1>1, LenProperties DEF Lines, Stage

(* What is left of a sequence after its first b elements.                  *)
LEMMA RestFacts ==
  ASSUME NEW s \in Seq(Packet), NEW b \in 0..Len(s)
  PROVE  /\ SubSeq(s, b + 1, Len(s)) \in Seq(Packet)
         /\ Len(SubSeq(s, b + 1, Len(s))) = Len(s) - b
         /\ \A i \in 1 .. Len(s) - b : SubSeq(s, b + 1, Len(s))[i] = s[i + b]
<1> DEFINE n == Len(s)
           t == SubSeq(s, b + 1, n)
<1>1. n \in Nat /\ b \in Nat /\ b <= n /\ \A i \in 1..n : s[i] \in Packet
  BY LenProperties
<1> HIDE DEF n
<1>2. b + 1 \in Int /\ n \in Int /\ \A i \in (b + 1)..n : s[i] \in Packet
  BY <1>1
<1>3. /\ t \in Seq(Packet)
      /\ Len(t) = IF b + 1 <= n THEN n - (b + 1) + 1 ELSE 0
      /\ \A i \in 1 .. n - (b + 1) + 1 : t[i] = s[b + 1 + i - 1]
  BY <1>2, SubSeqProperties
<1>4. Len(t) = n - b /\ n - (b + 1) + 1 = n - b
  BY <1>1, <1>3
<1> HIDE DEF t
<1>5. \A i \in 1 .. n - b : t[i] = s[i + b]
  <2> TAKE i \in 1 .. n - b
  <2>1. i \in 1 .. n - (b + 1) + 1 /\ b + 1 + i - 1 = i + b
    BY <1>1
  <2> QED
    BY <1>3, <2>1
<1> QED
  BY <1>3, <1>4, <1>5 DEF n, t

LEMMA PrefixFacts ==
  ASSUME NEW s \in Seq(Packet), NEW k \in 0..Len(s)
  PROVE  /\ SubSeq(s, 1, k) \in Seq(Packet)
         /\ Len(SubSeq(s, 1, k)) = k
         /\ \A i \in 1..k : SubSeq(s, 1, k)[i] = s[i]
<1> DEFINE t == SubSeq(s, 1, k)
<1>1. k \in Nat /\ k \in Int /\ \A i \in 1..k : s[i] \in Packet
  BY LenProperties
<1>2. /\ t \in Seq(Packet)
      /\ Len(t) = IF 1 <= k THEN k - 1 + 1 ELSE 0
      /\ \A i \in 1 .. k - 1 + 1 : t[i] = s[1 + i - 1]
  BY <1>1, SubSeqProperties
<1> HIDE DEF t
<1>3. Len(t) = k
  BY <1>1, <1>2
<1>4. \A i \in 1..k : t[i] = s[i]
  <2> TAKE i \in 1..k
  <2>1. i \in 1 .. k - 1 + 1 /\ 1 + i - 1 = i
    BY <1>1
  <2> QED
    BY <1>2, <2>1
<1> QED
  BY <1>2, <1>3, <1>4 DEF t

(* The four stages before and after a step.                                *)
LEMMA StagesNow ==
  ASSUME TypeOK
  PROVE  /\ Pipeline \in Lines
         /\ Pipeline[1] = txq /\ Pipeline[2] = mbufs /\ Pipeline[4] = rxq
         /\ \A p \in Port \ {port_index} : Pipeline[3][p] = <<>>
         /\ Pipeline[3][port_index] = Unprocessed
         /\ Pipeline[3] \in [Port -> Seq(Packet)]
         /\ Len(Unprocessed) = nb_rx_new - batch_index
         /\ \A i \in 1 .. nb_rx_new - batch_index : Unprocessed[i] = rx_pkts_burst[i + batch_index]
<1>1. <<>> \in Seq(Packet)
  BY EmptySeq
<1>2. /\ Unprocessed \in Seq(Packet)
      /\ Len(Unprocessed) = nb_rx_new - batch_index
      /\ \A i \in 1 .. nb_rx_new - batch_index : Unprocessed[i] = rx_pkts_burst[i + batch_index]
  BY RestFacts DEF TypeOK, Unprocessed, nb_rx_new
<1>3. /\ txq \in [Port -> Seq(Packet)] /\ mbufs \in [Port -> Seq(Packet)]
      /\ rxq \in [Port -> Seq(Packet)] /\ port_index \in Port
      /\ [p \in Port |-> IF p = port_index THEN Unprocessed ELSE <<>>] \in [Port -> Seq(Packet)]
  BY <1>1, <1>2 DEF TypeOK
<1>4. Pipeline \in Lines
  BY <1>3, LinesOfQueues DEF Pipeline
<1>5. /\ Pipeline[1] = txq /\ Pipeline[2] = mbufs /\ Pipeline[4] = rxq
      /\ Pipeline[3] = [p \in Port |-> IF p = port_index THEN Unprocessed ELSE <<>>]
  BY DEF Pipeline
<1> QED
  BY <1>2, <1>3, <1>4, <1>5

LEMMA StagesNext ==
  ASSUME TypeOK'
  PROVE  /\ Pipeline' \in Lines
         /\ Pipeline'[1] = txq' /\ Pipeline'[2] = mbufs' /\ Pipeline'[4] = rxq'
         /\ \A p \in Port \ {port_index'} : Pipeline'[3][p] = <<>>
         /\ Pipeline'[3][port_index'] = Unprocessed'
         /\ Pipeline'[3] \in [Port -> Seq(Packet)]
         /\ Len(Unprocessed') = nb_rx_new' - batch_index'
         /\ \A i \in 1 .. nb_rx_new' - batch_index' :
              Unprocessed'[i] = rx_pkts_burst'[i + batch_index']
<1>1. <<>> \in Seq(Packet)
  BY EmptySeq
<1>2. /\ Unprocessed' \in Seq(Packet)
      /\ Len(Unprocessed') = nb_rx_new' - batch_index'
      /\ \A i \in 1 .. nb_rx_new' - batch_index' :
           Unprocessed'[i] = rx_pkts_burst'[i + batch_index']
  BY RestFacts DEF TypeOK, Unprocessed, nb_rx_new
<1>3. /\ txq' \in [Port -> Seq(Packet)] /\ mbufs' \in [Port -> Seq(Packet)]
      /\ rxq' \in [Port -> Seq(Packet)] /\ port_index' \in Port
      /\ [p \in Port |-> IF p = port_index' THEN Unprocessed' ELSE <<>>] \in [Port -> Seq(Packet)]
  BY <1>1, <1>2 DEF TypeOK
<1>4. Pipeline' \in Lines
  BY <1>3, LinesOfQueues DEF Pipeline
<1>5. /\ Pipeline'[1] = txq' /\ Pipeline'[2] = mbufs' /\ Pipeline'[4] = rxq'
      /\ Pipeline'[3] = [p \in Port |-> IF p = port_index' THEN Unprocessed' ELSE <<>>]
  BY DEF Pipeline
<1> QED
  BY <1>2, <1>3, <1>4, <1>5

(* What a step has to show of the stages to keep the invariant.            *)
LEMMA InvFromStages ==
  ASSUME TypeOK', spc' = "rx" => batch_index' = 0,
         Sound(Pipeline', arrivals'), pool' = Mbufs \ InUse(Pipeline'), BuffersNotFull'
  PROVE  ServerInv'
BY DEF ServerInv

LEMMA InitInv == Init => ServerInv
<1> SUFFICES ASSUME Init PROVE ServerInv
  OBVIOUS
<1>1. TypeOK
  BY EmptySeq, ServerAssumption DEF Init, TypeOK, Port
<1>2. \A a \in Stage, p \in Port : DOMAIN Pipeline[a][p] = {}
  <2>1. Unprocessed = <<>>
    BY SubSeqEmpty DEF Init, Unprocessed, nb_rx_new
  <2>2. \A a \in Stage, p \in Port : Pipeline[a][p] = <<>>
    BY <2>1 DEF Init, Pipeline, Stage
  <2> QED
    BY <2>2
<1>3. InUse(Pipeline) = {}
  BY <1>2 DEF InUse
<1>4. BuffersNotFull
  BY EmptySeq, ServerAssumption DEF Init, BuffersNotFull
<1> QED
  BY <1>1, <1>2, <1>3, <1>4 DEF ServerInv, Sound, Routed, Numbered, OwnedOnce, InOrder, Init

-----------------------------------------------------------------------------
(* Steps that leave every packet where it is.                              *)
LEMMA NoPacketsStep ==
  ASSUME ServerInv, NoPackets
  PROVE  ServerInv'
<1> USE DEF ServerInv, NoPackets
<1>1. TypeOK'
  <2>1. NextPort \in Port
    BY ServerAssumption, SMTT(30) DEF NextPort, Port, TypeOK
  <2> QED
    BY <2>1, ServerAssumption, SMTT(30) DEF TypeOK, nicVars, statVars
<1>2. Unprocessed = <<>> /\ Unprocessed' = <<>>
  <2>1. batch_index = 0 /\ batch_index' = 0 /\ nb_rx_new = 0 /\ nb_rx_new' = 0
    BY DEF nb_rx_new
  <2> QED
    BY <2>1, SubSeqEmpty DEF Unprocessed
<1>3. Pipeline' = Pipeline /\ UNCHANGED <<spc, batch_index, pool, arrivals, mbufs>>
  BY <1>2 DEF Pipeline, nicVars
<1> QED
  BY <1>1, <1>3, InvFromStages DEF BuffersNotFull

LEMMA StartBatchStep ==
  ASSUME ServerInv, StartBatch
  PROVE  ServerInv'
<1> USE DEF ServerInv, StartBatch
<1>1. TypeOK'
  BY DEF TypeOK, nicVars, nb_rx_new
<1>2. Pipeline' = Pipeline /\ spc' = "process" /\ UNCHANGED <<batch_index, pool, arrivals, mbufs>>
  BY DEF Pipeline, nicVars, Unprocessed, nb_rx_new
<1> QED
  BY <1>1, <1>2, InvFromStages DEF BuffersNotFull

LEMMA EndBatchStep ==
  ASSUME ServerInv, EndBatch
  PROVE  ServerInv'
<1> USE DEF ServerInv
<1>0. /\ spc = "process" /\ batch_index = nb_rx_new
      /\ port_index' = NextPort /\ spc' = "rx" /\ tries' = 0
      /\ rx_pkts_burst' = <<>> /\ batch_index' = 0
      /\ UNCHANGED <<pool, rxq, txq, arrivals, mbufs>>
  BY DEF EndBatch, nicVars
<1>1. TypeOK'
  <2>1. NextPort \in Port
    BY ServerAssumption, SMTT(30) DEF NextPort, Port, TypeOK
  <2>2. nb_tx' \in [Port -> Nat] /\ nb_rx' \in [Port -> Nat] /\ nb_tx_all_ports' \in Nat
    <3>1. CASE nb_tx_all_ports >= StatLimit
      <4>1. /\ nb_tx_all_ports' = 0 /\ nb_tx' = [p \in Port |-> 0] /\ nb_rx' = [p \in Port |-> 0]
        BY <3>1 DEF EndBatch
      <4> QED
        BY <4>1
    <3>2. CASE ~(nb_tx_all_ports >= StatLimit)
      <4>1. UNCHANGED statVars
        BY <3>2 DEF EndBatch
      <4> QED
        BY <4>1 DEF TypeOK, statVars
    <3> QED
      BY <3>1, <3>2
  <2>3. /\ rx_pkts_burst' \in Seq(Packet) /\ Len(rx_pkts_burst') = 0
        /\ batch_index' \in 0..Len(rx_pkts_burst')
    BY <1>0, EmptySeq
  <2>4. tries' \in 0..MaxTries /\ Len(rx_pkts_burst') <= MAX_SRV_BURST
    BY <1>0, <2>3, ServerAssumption
  <2>5. spc' \in {"rx", "process"} /\ port_index' \in Port
    BY <1>0, <2>1
  <2> QED
    BY <1>0, <2>2, <2>3, <2>4, <2>5 DEF TypeOK
<1>2. Unprocessed = <<>> /\ Unprocessed' = <<>>
  <2>1. /\ batch_index' = 0 /\ nb_rx_new' = 0 /\ batch_index \in Nat /\ nb_rx_new = batch_index
        /\ batch_index + 1 \in Int /\ nb_rx_new < batch_index + 1
    BY <1>0 DEF nb_rx_new, TypeOK
  <2> QED
    BY <2>1, SubSeqEmpty DEF Unprocessed
<1>3. Pipeline' = Pipeline /\ batch_index' = 0 /\ UNCHANGED <<pool, arrivals, mbufs>>
  BY <1>0, <1>2 DEF Pipeline
<1> QED
  BY <1>1, <1>3, InvFromStages DEF BuffersNotFull

-----------------------------------------------------------------------------
LEMMA ArriveStep ==
  ASSUME ServerInv, NEW s \in Port, NEW d \in Port, Arrive(s, d)
  PROVE  ServerInv'
<1> USE DEF ServerInv
<1> DEFINE m == CHOOSE x \in pool : TRUE
           pkt == [mbuf |-> m, src |-> s, dst |-> d, no |-> arrivals + 1]
<1>1. m \in pool /\ arrivals < MaxArrivals
  BY DEF Arrive
<1>2. /\ pool' = pool \ {m} /\ rxq' = [rxq EXCEPT ![s] = Append(@, pkt)]
      /\ arrivals' = arrivals + 1 /\ UNCHANGED <<txq, statVars, loopVars, mbufs>>
  BY DEF Arrive
<1> HIDE DEF m
<1>3. arrivals \in Nat /\ arrivals + 1 \in 1..MaxArrivals /\ arrivals + 1 \in 0..MaxArrivals
  BY <1>1, ServerAssumption DEF TypeOK
<1>4. pkt \in Packet /\ pkt.no = arrivals + 1 /\ pkt.mbuf = m /\ pkt.src = s /\ m \in Mbufs
  BY <1>1, <1>3 DEF Packet, TypeOK
<1> HIDE DEF pkt
<1>5. /\ rxq[s] \in Seq(Packet) /\ Append(rxq[s], pkt) \in Seq(Packet)
      /\ Len(Append(rxq[s], pkt)) = Len(rxq[s]) + 1
      /\ \A i \in 1..Len(rxq[s]) : Append(rxq[s], pkt)[i] = rxq[s][i]
      /\ Append(rxq[s], pkt)[Len(rxq[s]) + 1] = pkt
      /\ Len(rxq[s]) \in Nat
  <2>1. rxq[s] \in Seq(Packet)
    BY DEF TypeOK
  <2> QED
    BY <1>4, <2>1, AppendProperties, LenProperties
<1>6. TypeOK'
  <2>1. rxq' \in [Port -> Seq(Packet)]
    BY <1>2, <1>5 DEF TypeOK
  <2> QED
    BY <1>2, <1>3, <2>1 DEF TypeOK, statVars, loopVars
<1>7. Entered(Pipeline, Pipeline', 4, s, pkt)
  <2>1. /\ Pipeline[4] = rxq /\ Pipeline'[4] = rxq'
        /\ Pipeline'[1] = Pipeline[1] /\ Pipeline'[2] = Pipeline[2] /\ Pipeline'[3] = Pipeline[3]
    BY <1>2 DEF Pipeline, loopVars, Unprocessed, nb_rx_new
  <2>2. rxq'[s] = Append(rxq[s], pkt) /\ \A r \in Port : r # s => rxq'[r] = rxq[r]
    BY <1>2 DEF TypeOK
  <2>3. \A i \in 1 .. Len(rxq'[s]) : rxq'[s][i] = IF i <= Len(rxq[s]) THEN rxq[s][i] ELSE pkt
    <3> TAKE i \in 1 .. Len(rxq'[s])
    <3>1. i \in 1..Len(rxq[s]) \/ (i = Len(rxq[s]) + 1 /\ ~(i <= Len(rxq[s])))
      BY <1>5, <2>2
    <3> QED
      BY <1>5, <2>2, <3>1
  <2>4. \A c \in Stage, r \in Port : ~(c = 4 /\ r = s) => Pipeline'[c][r] = Pipeline[c][r]
    BY <2>1, <2>2 DEF Stage
  <2>5. Len(rxq'[s]) = Len(rxq[s]) + 1
    BY <1>5, <2>2
  <2> QED
    BY <2>1, <2>3, <2>4, <2>5 DEF Entered
<1>8. Pipeline \in Lines /\ Pipeline' \in Lines
  BY <1>6, StagesNow, StagesNext
<1>9. pkt.mbuf \notin InUse(Pipeline)
  BY <1>1, <1>4
<1>10. \A a \in Stage, r \in Port : \A i \in DOMAIN Pipeline[a][r] :
         Pipeline[a][r][i].no <= arrivals /\ Pipeline[a][r][i].no < pkt.no
  <2> SUFFICES ASSUME NEW a \in Stage, NEW r \in Port, NEW i \in DOMAIN Pipeline[a][r]
               PROVE  Pipeline[a][r][i].no <= arrivals /\ Pipeline[a][r][i].no < pkt.no
    OBVIOUS
  <2>1. Pipeline[a][r][i].no <= arrivals
    BY DEF Sound, Numbered
  <2>2. Pipeline[a][r][i].no \in 1..MaxArrivals
    BY <1>8, LineFacts DEF Packet
  <2> QED
    BY <1>3, <1>4, <2>1, <2>2
<1>11. /\ OwnedOnce(Pipeline') /\ InOrder(Pipeline')
       /\ InUse(Pipeline') = InUse(Pipeline) \union {m}
  BY <1>4, <1>7, <1>8, <1>9, <1>10, EnteredKeeps DEF Sound
<1>12. ASSUME NEW a \in Stage, NEW r \in Port, NEW i \in DOMAIN Pipeline'[a][r]
       PROVE  \/ a = 4 /\ r = s /\ Pipeline'[a][r][i] = pkt
              \/ i \in DOMAIN Pipeline[a][r] /\ Pipeline'[a][r][i] = Pipeline[a][r][i]
  <2>1. CASE a = 4 /\ r = s
    <3>1. DOMAIN Pipeline[4][s] = 1..Len(Pipeline[4][s])
          /\ DOMAIN Pipeline'[4][s] = 1..Len(Pipeline'[4][s]) /\ Len(Pipeline[4][s]) \in Nat
      BY <1>8, <2>1, LineFacts
    <3> QED
      BY <1>7, <2>1, <3>1, SMTT(30) DEF Entered
  <2>2. CASE ~(a = 4 /\ r = s)
    BY <1>7, <2>2 DEF Entered
  <2> QED
    BY <2>1, <2>2
<1>13. Routed(Pipeline')
  BY <1>4, <1>12 DEF Routed, Sound
<1>14. Numbered(Pipeline', arrivals')
  <2> SUFFICES ASSUME NEW a \in Stage, NEW r \in Port, NEW i \in DOMAIN Pipeline'[a][r]
               PROVE  Pipeline'[a][r][i].no <= arrivals + 1
    BY <1>2 DEF Numbered
  <2>1. CASE Pipeline'[a][r][i] = pkt
    BY <1>3, <1>4, <2>1
  <2>2. CASE i \in DOMAIN Pipeline[a][r] /\ Pipeline'[a][r][i] = Pipeline[a][r][i]
    <3>1. Pipeline[a][r][i].no <= arrivals /\ Pipeline[a][r][i].no \in 1..MaxArrivals
      BY <1>8, <1>10, <2>2, LineFacts DEF Packet
    <3> QED
      BY <1>3, <2>2, <3>1
  <2> QED
    BY <1>12, <2>1, <2>2
<1>15. pool' = Mbufs \ InUse(Pipeline')
  BY <1>2, <1>11
<1> QED
  BY <1>2, <1>6, <1>11, <1>13, <1>14, <1>15, InvFromStages DEF BuffersNotFull, loopVars, Sound

LEMMA TransmittedStep ==
  ASSUME ServerInv, NEW p \in Port, Transmitted(p)
  PROVE  ServerInv'
<1> USE DEF ServerInv
<1>1. /\ txq[p] # <<>> /\ pool' = pool \union {Head(txq[p]).mbuf}
      /\ txq' = [txq EXCEPT ![p] = Tail(@)]
      /\ UNCHANGED <<rxq, arrivals, statVars, loopVars, mbufs>>
  BY DEF Transmitted
<1>2. /\ txq[p] \in Seq(Packet) /\ Head(txq[p]) = txq[p][1]
      /\ Tail(txq[p]) \in Seq(Packet) /\ Len(Tail(txq[p])) = Len(txq[p]) - 1
      /\ \A i \in 1 .. Len(txq[p]) - 1 : Tail(txq[p])[i] = txq[p][i + 1]
      /\ Len(txq[p]) \in Nat \ {0}
  <2>1. txq[p] \in Seq(Packet)
    BY DEF TypeOK
  <2> QED
    BY <1>1, <2>1, HeadTailProperties, EmptySeq
<1>3. txq' \in [Port -> Seq(Packet)] /\ txq'[p] = Tail(txq[p])
      /\ \A r \in Port : r # p => txq'[r] = txq[r]
  BY <1>1, <1>2 DEF TypeOK
<1>4. Head(txq[p]).mbuf \in Mbufs
  <2>1. Head(txq[p]) \in Packet
    BY <1>1, <1>2, HeadTailProperties
  <2> QED
    BY <2>1 DEF Packet
<1>5. TypeOK'
  BY <1>1, <1>3, <1>4 DEF TypeOK, statVars, loopVars
<1>6. Pipeline \in Lines /\ Pipeline' \in Lines /\ 1 \in Stage
  BY <1>5, StagesNow, StagesNext DEF Stage
<1>7. Gone(Pipeline, Pipeline', 1, p, 1)
  <2>1. /\ Pipeline[1] = txq /\ Pipeline'[1] = txq'
        /\ Pipeline'[2] = Pipeline[2] /\ Pipeline'[3] = Pipeline[3] /\ Pipeline'[4] = Pipeline[4]
    BY <1>1 DEF Pipeline, loopVars, Unprocessed, nb_rx_new
  <2>2. \A c \in Stage, r \in Port : ~(c = 1 /\ r = p) => Pipeline'[c][r] = Pipeline[c][r]
    BY <1>3, <2>1 DEF Stage
  <2>3. 1 \in 0..Len(txq[p])
    BY <1>2
  <2> QED
    BY <1>2, <1>3, <2>1, <2>2, <2>3 DEF Gone
<1>8. Sound(Pipeline', arrivals')
  BY <1>1, <1>6, <1>7, GoneKeepsSound
<1>9. InUse(Pipeline') = InUse(Pipeline) \ {Head(txq[p]).mbuf}
  <2>1. InUse(Pipeline') = InUse(Pipeline) \ {Pipeline[1][p][i].mbuf : i \in 1..1}
    BY <1>6, <1>7, GoneFrees DEF Sound
  <2>2. Pipeline[1] = txq
    BY StagesNow
  <2>3. {Pipeline[1][p][i].mbuf : i \in 1..1} = {Head(txq[p]).mbuf}
    BY <1>2, <2>2
  <2> QED
    BY <2>1, <2>3
<1>10. pool' = Mbufs \ InUse(Pipeline')
  BY <1>1, <1>4, <1>9
<1> QED
  BY <1>1, <1>5, <1>8, <1>10, InvFromStages DEF BuffersNotFull, loopVars

LEMMA RxBurstStep ==
  ASSUME ServerInv, NEW k \in 0..MAX_SRV_BURST, RxBurst(k)
  PROVE  ServerInv'
<1> USE DEF ServerInv
<1> DEFINE p == port_index
           in == rxq[p]
<1>1. /\ spc = "rx" /\ nb_rx_new < MAX_SRV_BURST /\ tries < MaxTries
      /\ k <= Len(in) /\ k <= MAX_SRV_BURST - nb_rx_new
      /\ rx_pkts_burst' = rx_pkts_burst \o SubSeq(in, 1, k)
      /\ rxq' = [rxq EXCEPT ![p] = SubSeq(in, k + 1, Len(in))]
      /\ tries' = tries + 1
      /\ UNCHANGED <<pool, txq, arrivals, statVars, spc, port_index, batch_index, mbufs>>
  BY DEF RxBurst, Polling
<1>2. p \in Port /\ in \in Seq(Packet) /\ Len(in) \in Nat /\ k \in 0..Len(in) /\ batch_index = 0
  <2>1. p \in Port /\ in \in Seq(Packet) /\ batch_index = 0
    BY <1>1 DEF TypeOK
  <2> QED
    BY <1>1, <2>1, LenProperties, ServerAssumption
<1>3. /\ SubSeq(in, 1, k) \in Seq(Packet) /\ Len(SubSeq(in, 1, k)) = k
      /\ \A i \in 1..k : SubSeq(in, 1, k)[i] = in[i]
  BY <1>2, PrefixFacts
<1>4. /\ SubSeq(in, k + 1, Len(in)) \in Seq(Packet)
      /\ Len(SubSeq(in, k + 1, Len(in))) = Len(in) - k
      /\ \A i \in 1 .. Len(in) - k : SubSeq(in, k + 1, Len(in))[i] = in[i + k]
  BY <1>2, RestFacts
<1> DEFINE n == nb_rx_new
<1>5. rx_pkts_burst \in Seq(Packet) /\ n \in Nat /\ n = Len(rx_pkts_burst)
  BY LenProperties DEF TypeOK, nb_rx_new
<1>6. /\ rx_pkts_burst' \in Seq(Packet) /\ Len(rx_pkts_burst') = n + k
      /\ \A i \in 1 .. n + k :
           rx_pkts_burst'[i] = IF i <= n THEN rx_pkts_burst[i] ELSE in[i - n]
  <2>1. /\ rx_pkts_burst' \in Seq(Packet) /\ Len(rx_pkts_burst') = n + k
        /\ \A i \in 1 .. n + k :
             rx_pkts_burst'[i] = IF i <= n THEN rx_pkts_burst[i] ELSE SubSeq(in, 1, k)[i - n]
    BY <1>1, <1>3, <1>5, ConcatProperties
  <2>2. \A i \in 1 .. n + k : i <= n \/ i - n \in 1..k
    BY <1>2, <1>5
  <2> HIDE DEF n, in
  <2> QED
    BY <1>3, <2>1, <2>2
<1>7. TypeOK'
  <2>1. rxq' \in [Port -> Seq(Packet)]
    BY <1>1, <1>2, <1>4 DEF TypeOK
  <2>2. tries' \in 0..MaxTries
    BY <1>1, ServerAssumption DEF TypeOK
  <2>3. n + k <= MAX_SRV_BURST /\ 0 \in 0 .. n + k
    BY <1>1, <1>2, <1>5, ServerAssumption
  <2> QED
    BY <1>1, <1>2, <1>6, <2>1, <2>2, <2>3 DEF TypeOK, statVars
<1>8. Pipeline \in Lines /\ Pipeline' \in Lines /\ 3 \in Stage /\ 4 \in Stage
  BY <1>7, StagesNow, StagesNext DEF Stage
<1>9. /\ Pipeline[4][p] = in /\ Pipeline'[4][p] = SubSeq(in, k + 1, Len(in))
      /\ Len(Pipeline[3][p]) = n /\ \A i \in 1..n : Pipeline[3][p][i] = rx_pkts_burst[i]
      /\ Len(Pipeline'[3][p]) = n + k
      /\ \A i \in 1 .. n + k : Pipeline'[3][p][i] = rx_pkts_burst'[i]
  <2>1. Pipeline[4][p] = in /\ Pipeline'[4][p] = SubSeq(in, k + 1, Len(in))
    <3>1. Pipeline[4] = rxq /\ Pipeline'[4] = rxq'
      BY <1>7, StagesNow, StagesNext
    <3> QED
      BY <1>1, <1>2, <3>1 DEF TypeOK
  <2>2. Len(Pipeline[3][p]) = n - 0 /\ \A i \in 1 .. n - 0 : Pipeline[3][p][i] = rx_pkts_burst[i + 0]
    BY <1>2, StagesNow
  <2>3. /\ Len(Pipeline'[3][p]) = (n + k) - 0
        /\ \A i \in 1 .. (n + k) - 0 : Pipeline'[3][p][i] = rx_pkts_burst'[i + 0]
    <3>1. nb_rx_new' = n + k /\ port_index' = p /\ batch_index' = 0
      BY <1>1, <1>2, <1>6 DEF nb_rx_new
    <3> QED
      BY <1>7, <3>1, StagesNext
  <2>4. \A i \in Int : i + 0 = i
    OBVIOUS
  <2>5. n - 0 = n /\ (n + k) - 0 = n + k /\ n \in Nat /\ k \in Nat
    BY <1>2, <1>5
  <2> HIDE DEF n, in, p
  <2> QED
    BY <2>1, <2>2, <2>3, <2>4, <2>5
<1>10. Moved(Pipeline, Pipeline', 4, p, 3, p, k)
  <2>1. \A c \in Stage, r \in Port :
          ~(c = 4 /\ r = p) /\ ~(c = 3 /\ r = p) => Pipeline'[c][r] = Pipeline[c][r]
    <3>1. /\ Pipeline[1] = Pipeline'[1] /\ Pipeline[2] = Pipeline'[2]
          /\ Pipeline[4] = rxq /\ Pipeline'[4] = rxq'
          /\ \A r \in Port \ {p} : Pipeline[3][r] = <<>> /\ Pipeline'[3][r] = <<>>
      BY <1>1, <1>7, StagesNow, StagesNext
    <3>2. \A r \in Port \ {p} : rxq'[r] = rxq[r]
      BY <1>1, <1>2 DEF TypeOK
    <3> HIDE DEF p
    <3> QED
      BY <3>1, <3>2 DEF Stage
  <2> HIDE DEF n, in, p
  <2>2. \A i \in 1 .. n + k : Pipeline'[3][p][i]
          = IF i <= Len(Pipeline[3][p]) THEN Pipeline[3][p][i] ELSE Pipeline[4][p][i - Len(Pipeline[3][p])]
    BY <1>2, <1>5, <1>6, <1>9, SMTT(30)
  <2> QED
    BY <1>2, <1>4, <1>9, <2>1, <2>2 DEF Moved
<1>11. Sound(Pipeline', arrivals') /\ InUse(Pipeline') = InUse(Pipeline)
  <2>1. 4 = 3 + 1 /\ ~(3 <= 2) /\ arrivals' = arrivals
    BY <1>1
  <2> HIDE DEF p
  <2> QED
    BY <1>2, <1>8, <1>10, <2>1, MovedKeeps
<1> QED
  BY <1>1, <1>2, <1>7, <1>11, InvFromStages DEF BuffersNotFull

-----------------------------------------------------------------------------
(* The first packet of the burst that is left goes to the buffer of the    *)
(* port it names, and a full buffer goes to the NIC as far as that takes   *)
(* it, the rest to the pool.                                               *)
LEMMA ProcessPacketStep ==
  ASSUME ServerInv, NEW k \in 0..MAX_SRV_BURST, ProcessPacket(k)
  PROVE  ServerInv'
<1> USE DEF ServerInv
<1> DEFINE p == port_index
           n == nb_rx_new
           pkt == rx_pkts_burst[batch_index + 1]
           d == pkt.dst
           buf == Append(mbufs[d], pkt)
           full == Len(buf) = MAX_SRV_BURST
           gone == {buf[i].mbuf : i \in k+1 .. MAX_SRV_BURST}
<1>1. /\ spc = "process" /\ batch_index < n /\ batch_index' = batch_index + 1
      /\ UNCHANGED <<rxq, arrivals, nb_rx, spc, port_index, tries, rx_pkts_burst>>
      /\ send_packet(pkt, k)
  BY DEF ProcessPacket
<1>2. full => /\ txq' = [txq EXCEPT ![d] = @ \o SubSeq(buf, 1, k)]
              /\ pool' = pool \union gone
              /\ nb_tx' = [nb_tx EXCEPT ![d] = @ + k]
              /\ nb_tx_all_ports' = nb_tx_all_ports + k
              /\ mbufs' = [mbufs EXCEPT ![d] = <<>>]
  BY <1>1 DEF send_packet
<1>3. ~full => mbufs' = [mbufs EXCEPT ![d] = buf] /\ UNCHANGED <<txq, pool, nb_tx, nb_tx_all_ports>>
  BY <1>1 DEF send_packet
<1>4. /\ batch_index \in Nat /\ n \in Nat /\ p \in Port /\ n = Len(rx_pkts_burst)
      /\ batch_index + 1 \in 1..n /\ pkt \in Packet /\ d \in Port
      /\ k \in Nat /\ MAX_SRV_BURST \in Nat \ {0}
  <2>1. batch_index \in Nat /\ n \in Nat /\ p \in Port /\ n = Len(rx_pkts_burst)
    BY LenProperties DEF TypeOK, nb_rx_new
  <2>2. batch_index + 1 \in 1..n
    BY <1>1, <2>1
  <2>3. pkt \in Packet
    BY <2>1, <2>2, ElementOfSeq DEF TypeOK
  <2>4. d \in Port
    BY <2>3 DEF Packet
  <2>5. k \in Nat /\ MAX_SRV_BURST \in Nat \ {0}
    BY ServerAssumption
  <2> QED
    BY <2>1, <2>2, <2>3, <2>4, <2>5
<1> HIDE DEF pkt
<1>5. /\ mbufs[d] \in Seq(Packet) /\ Len(mbufs[d]) \in Nat /\ Len(mbufs[d]) < MAX_SRV_BURST
      /\ buf \in Seq(Packet) /\ Len(buf) = Len(mbufs[d]) + 1
      /\ \A i \in 1..Len(mbufs[d]) : buf[i] = mbufs[d][i]
      /\ buf[Len(mbufs[d]) + 1] = pkt
  <2>1. mbufs[d] \in Seq(Packet)
    BY <1>4 DEF TypeOK
  <2>2. Len(mbufs[d]) < MAX_SRV_BURST
    BY <1>4 DEF BuffersNotFull
  <2> QED
    BY <1>4, <2>1, <2>2, AppendProperties, LenProperties
<1> HIDE DEF buf, d, p, n, gone
<1>6. nb_tx' \in [Port -> Nat] /\ nb_tx_all_ports' \in Nat
  <2>1. CASE full
    <3>1. nb_tx \in [Port -> Nat] /\ nb_tx_all_ports \in Nat
      BY DEF TypeOK
    <3>2. nb_tx[d] + k \in Nat /\ nb_tx_all_ports + k \in Nat
      BY <1>4, <3>1
    <3> QED
      BY <1>2, <2>1, <3>1, <3>2
  <2>2. CASE ~full
    BY <1>3, <2>2 DEF TypeOK
  <2> QED
    BY <2>1, <2>2
<1>7. /\ batch_index' \in 0..Len(rx_pkts_burst') /\ rx_pkts_burst' = rx_pkts_burst
      /\ batch_index' = batch_index + 1 /\ n - (batch_index + 1) \in Nat
  BY <1>1, <1>4
\* The buffer with the packet in it; the burst without it.
<1> DEFINE rest == [r \in Port |-> IF r = p THEN Unprocessed' ELSE <<>>]
           M1 == <<txq, [mbufs EXCEPT ![d] = buf], rest, rxq>>
<1>8. /\ rest \in [Port -> Seq(Packet)] /\ Len(rest[p]) = n - (batch_index + 1)
      /\ \A i \in 1 .. n - (batch_index + 1) : rest[p][i] = rx_pkts_burst[i + (batch_index + 1)]
      /\ \A r \in Port \ {p} : rest[r] = <<>>
  <2>1. rx_pkts_burst \in Seq(Packet) /\ batch_index + 1 \in 0..Len(rx_pkts_burst)
    BY <1>4 DEF TypeOK
  <2>2. Unprocessed' = SubSeq(rx_pkts_burst, (batch_index + 1) + 1, Len(rx_pkts_burst))
    BY <1>1 DEF Unprocessed, nb_rx_new
  <2>3. /\ Unprocessed' \in Seq(Packet) /\ Len(Unprocessed') = n - (batch_index + 1)
        /\ \A i \in 1 .. n - (batch_index + 1) : Unprocessed'[i] = rx_pkts_burst[i + (batch_index + 1)]
    BY <1>4, <2>1, <2>2, RestFacts
  <2> QED
    BY <1>4, <2>3, EmptySeq
<1>9. Pipeline' = <<txq', mbufs', rest, rxq>>
  BY <1>1 DEF Pipeline, p
<1> HIDE DEF rest
<1>10. /\ Pipeline \in Lines /\ Pipeline[1] = txq /\ Pipeline[2] = mbufs /\ Pipeline[4] = rxq
       /\ \A r \in Port \ {p} : Pipeline[3][r] = <<>>
       /\ Len(Pipeline[3][p]) = n - batch_index
       /\ \A i \in 1 .. n - batch_index : Pipeline[3][p][i] = rx_pkts_burst[i + batch_index]
  BY StagesNow DEF p, n
<1>11. /\ M1 \in Lines /\ M1[1] = txq /\ M1[2] = [mbufs EXCEPT ![d] = buf]
       /\ M1[3] = rest /\ M1[4] = rxq
  <2>1. [mbufs EXCEPT ![d] = buf] \in [Port -> Seq(Packet)]
    BY <1>4, <1>5 DEF TypeOK
  <2>2. M1 \in Lines
    BY <1>8, <2>1, LinesOfQueues DEF TypeOK
  <2> QED
    BY <2>2
<1> HIDE DEF M1
<1>12. Moved(Pipeline, M1, 3, p, 2, d, 1)
  <2>1. M1[2][d] = buf /\ \A r \in Port \ {d} : M1[2][r] = mbufs[r]
    BY <1>4, <1>11 DEF TypeOK
  <2>2. \A c \in Stage, r \in Port :
          ~(c = 3 /\ r = p) /\ ~(c = 2 /\ r = d) => M1[c][r] = Pipeline[c][r]
    <3> SUFFICES ASSUME NEW c \in Stage, NEW r \in Port, ~(c = 3 /\ r = p), ~(c = 2 /\ r = d)
                 PROVE  M1[c][r] = Pipeline[c][r]
      OBVIOUS
    <3>1. CASE c = 1 \/ c = 4
      BY <1>10, <1>11, <3>1
    <3>2. CASE c = 2
      BY <1>10, <2>1, <3>2
    <3>3. CASE c = 3
      BY <1>8, <1>10, <1>11, <3>3
    <3> QED
      BY <3>1, <3>2, <3>3 DEF Stage
  <2>3. 1 \in 0..Len(Pipeline[3][p]) /\ Len(M1[3][p]) = Len(Pipeline[3][p]) - 1
    BY <1>4, <1>8, <1>10, <1>11
  <2>4. \A i \in 1..Len(M1[3][p]) : M1[3][p][i] = Pipeline[3][p][i + 1]
    <3> TAKE i \in 1..Len(M1[3][p])
    <3>1. /\ i \in 1 .. n - (batch_index + 1) /\ i + 1 \in 1 .. n - batch_index
          /\ i + (batch_index + 1) = (i + 1) + batch_index
      <4>1. Len(M1[3][p]) = n - (batch_index + 1)
        BY <1>8, <1>11
      <4> QED
        BY <1>4, <4>1
    <3> QED
      BY <1>8, <1>10, <1>11, <3>1
  <2>5. Pipeline[3][p][1] = pkt
    <3>1. 1 \in 1 .. n - batch_index /\ 1 + batch_index = batch_index + 1
      BY <1>4
    <3> QED
      BY <1>10, <3>1 DEF pkt
  <2>6. \A i \in 1..Len(M1[2][d]) : M1[2][d][i]
          = IF i <= Len(Pipeline[2][d]) THEN Pipeline[2][d][i] ELSE Pipeline[3][p][i - Len(Pipeline[2][d])]
    <3> TAKE i \in 1..Len(M1[2][d])
    <3>1. CASE i <= Len(mbufs[d])
      BY <1>5, <1>10, <2>1, <3>1
    <3>2. CASE i = Len(mbufs[d]) + 1
      <4>1. ~(i <= Len(mbufs[d])) /\ i - Len(mbufs[d]) = 1
        BY <1>5, <3>2
      <4> QED
        BY <1>5, <1>10, <2>1, <2>5, <3>2, <4>1
    <3> QED
      BY <1>5, <2>1, <3>1, <3>2
  <2>7. Len(M1[2][d]) = Len(Pipeline[2][d]) + 1
    BY <1>5, <1>10, <2>1
  <2> QED
    BY <2>2, <2>3, <2>4, <2>6, <2>7 DEF Moved
<1>13. Sound(M1, arrivals) /\ InUse(M1) = InUse(Pipeline)
  <2>1. \A i \in 1..1 : Pipeline[3][p][i].dst = d
    <3>1. 1 \in 1 .. n - batch_index /\ 1 + batch_index = batch_index + 1
      BY <1>4
    <3>2. Pipeline[3][p][1] = pkt
      BY <1>10, <3>1 DEF pkt
    <3> QED
      BY <3>2 DEF d
  <2>2. 3 \in Stage /\ 2 \in Stage /\ 3 = 2 + 1 /\ 2 <= 2
    BY DEF Stage
  <2>3. IF 2 <= 2 THEN \A i \in 1..1 : Pipeline[3][p][i].dst = d ELSE p = d
    BY <2>1
  <2>4. Sound(Pipeline, arrivals)
    OBVIOUS
  <2>5. Pipeline \in Lines /\ M1 \in Lines /\ p \in Port /\ d \in Port
    BY <1>4, <1>10, <1>11
  <2> QED
    BY <1>12, <2>2, <2>3, <2>4, <2>5, MovedKeeps
<1>14. CASE ~full
  <2>1. Pipeline' = M1
    BY <1>3, <1>9, <1>14 DEF M1
  <2>2. mbufs' \in [Port -> Seq(Packet)] /\ mbufs'[d] = buf /\ \A r \in Port \ {d} : mbufs'[r] = mbufs[r]
    BY <1>3, <1>4, <1>5, <1>14 DEF TypeOK
  <2>3. TypeOK'
    BY <1>1, <1>3, <1>6, <1>7, <1>14, <2>2 DEF TypeOK
  <2>4. Len(buf) < MAX_SRV_BURST
    BY <1>4, <1>5, <1>14
  <2>5. BuffersNotFull'
    BY <2>2, <2>4 DEF BuffersNotFull
  <2> QED
    BY <1>1, <1>3, <1>13, <1>14, <2>1, <2>3, <2>5, InvFromStages
<1>15. CASE full
  <2> DEFINE sub == SubSeq(buf, k + 1, Len(buf))
             M2 == <<txq', [mbufs EXCEPT ![d] = sub], rest, rxq>>
  <2>1. k \in 0..Len(buf) /\ txq[d] \in Seq(Packet) /\ Len(buf) = MAX_SRV_BURST
    BY <1>4, <1>15 DEF TypeOK
  <2>2. /\ SubSeq(buf, 1, k) \in Seq(Packet) /\ Len(SubSeq(buf, 1, k)) = k
        /\ \A i \in 1..k : SubSeq(buf, 1, k)[i] = buf[i]
    BY <1>5, <2>1, PrefixFacts
  <2>3. /\ sub \in Seq(Packet) /\ Len(sub) = MAX_SRV_BURST - k
        /\ \A i \in 1 .. MAX_SRV_BURST - k : sub[i] = buf[i + k]
    BY <1>5, <2>1, RestFacts
  <2>4. /\ txq'[d] \in Seq(Packet) /\ Len(txq'[d]) = Len(txq[d]) + k /\ Len(txq[d]) \in Nat
        /\ \A i \in 1 .. Len(txq[d]) + k :
             txq'[d][i] = IF i <= Len(txq[d]) THEN txq[d][i] ELSE SubSeq(buf, 1, k)[i - Len(txq[d])]
        /\ \A r \in Port \ {d} : txq'[r] = txq[r]
        /\ txq' \in [Port -> Seq(Packet)]
    <3>1. txq'[d] = txq[d] \o SubSeq(buf, 1, k) /\ \A r \in Port \ {d} : txq'[r] = txq[r]
      BY <1>2, <1>4, <1>15 DEF TypeOK
    <3>2. /\ txq[d] \o SubSeq(buf, 1, k) \in Seq(Packet)
          /\ Len(txq[d] \o SubSeq(buf, 1, k)) = Len(txq[d]) + k
          /\ \A i \in 1 .. Len(txq[d]) + k : (txq[d] \o SubSeq(buf, 1, k))[i] =
               IF i <= Len(txq[d]) THEN txq[d][i] ELSE SubSeq(buf, 1, k)[i - Len(txq[d])]
      <4> DEFINE t == SubSeq(buf, 1, k)
      <4>1. t \in Seq(Packet) /\ Len(t) = k
        BY <2>2
      <4> HIDE DEF t
      <4>2. /\ txq[d] \o t \in Seq(Packet) /\ Len(txq[d] \o t) = Len(txq[d]) + Len(t)
            /\ \A i \in 1 .. Len(txq[d]) + Len(t) : (txq[d] \o t)[i] =
                 IF i <= Len(txq[d]) THEN txq[d][i] ELSE t[i - Len(txq[d])]
        BY <2>1, <4>1, ConcatProperties
      <4> QED
        BY <4>1, <4>2 DEF t
    <3>3. txq' \in [Port -> Seq(Packet)]
      BY <1>2, <1>4, <1>15, <3>2 DEF TypeOK
    <3>4. Len(txq[d]) \in Nat
      BY <2>1, LenProperties
    <3> QED
      BY <3>1, <3>2, <3>3, <3>4
  <2>5. /\ mbufs' \in [Port -> Seq(Packet)] /\ mbufs'[d] = <<>>
        /\ \A r \in Port \ {d} : mbufs'[r] = mbufs[r]
    <3>1. <<>> \in Seq(Packet)
      BY EmptySeq
    <3>2. mbufs \in [Port -> Seq(Packet)] /\ mbufs' = [mbufs EXCEPT ![d] = <<>>]
      BY <1>2, <1>15 DEF TypeOK
    <3> QED
      BY <1>4, <3>1, <3>2
  <2>6. gone \subseteq Mbufs
    <3>1. \A i \in k+1 .. MAX_SRV_BURST : i \in 1..Len(buf)
      BY <1>4, <2>1
    <3>2. \A i \in k+1 .. MAX_SRV_BURST : buf[i] \in Packet
      BY <1>5, <3>1, ElementOfSeq
    <3> QED
      BY <3>2 DEF gone, Packet
  <2>7. TypeOK'
    BY <1>1, <1>2, <1>6, <1>7, <1>15, <2>4, <2>5, <2>6 DEF TypeOK
  <2>8. Pipeline' \in Lines
    BY <2>7, StagesNext
  <2> HIDE DEF sub
  <2>9. /\ M2 \in Lines /\ M2[1] = txq' /\ M2[3] = rest /\ M2[4] = rxq
        /\ M2[2][d] = sub /\ \A r \in Port \ {d} : M2[2][r] = mbufs[r]
    <3>1. /\ [mbufs EXCEPT ![d] = sub] \in [Port -> Seq(Packet)]
          /\ [mbufs EXCEPT ![d] = sub][d] = sub
          /\ \A r \in Port \ {d} : [mbufs EXCEPT ![d] = sub][r] = mbufs[r]
      BY <1>4, <2>3 DEF TypeOK
    <3>2. M2 \in Lines
      BY <1>8, <2>4, <3>1, LinesOfQueues DEF TypeOK
    <3> QED
      BY <3>1, <3>2
  <2> HIDE DEF M2
  <2>10. M1[2][d] = buf /\ \A r \in Port \ {d} : M1[2][r] = mbufs[r]
    BY <1>4, <1>11 DEF TypeOK
  <2>11. Moved(M1, M2, 2, d, 1, d, k)
    <3>1. \A c \in Stage, r \in Port :
            ~(c = 2 /\ r = d) /\ ~(c = 1 /\ r = d) => M2[c][r] = M1[c][r]
      <4> SUFFICES ASSUME NEW c \in Stage, NEW r \in Port, ~(c = 2 /\ r = d), ~(c = 1 /\ r = d)
                   PROVE  M2[c][r] = M1[c][r]
        OBVIOUS
      <4>1. CASE c = 3 \/ c = 4
        BY <1>11, <2>9, <4>1
      <4>2. CASE c = 2
        BY <2>9, <2>10, <4>2
      <4>3. CASE c = 1
        BY <1>11, <2>4, <2>9, <4>3
      <4> QED
        BY <4>1, <4>2, <4>3 DEF Stage
    <3>2. \A i \in 1..Len(M2[1][d]) : M2[1][d][i]
            = IF i <= Len(M1[1][d]) THEN M1[1][d][i] ELSE M1[2][d][i - Len(M1[1][d])]
      <4> TAKE i \in 1..Len(M2[1][d])
      <4>1. i \in 1 .. Len(txq[d]) + k /\ (~(i <= Len(txq[d])) => i - Len(txq[d]) \in 1..k)
        BY <1>4, <2>4, <2>9, SMTT(30)
      <4> QED
        BY <1>11, <2>2, <2>4, <2>9, <2>10, <4>1
    <3>3. /\ k \in 0..Len(M1[2][d]) /\ Len(M2[2][d]) = Len(M1[2][d]) - k
          /\ \A i \in 1..Len(M2[2][d]) : M2[2][d][i] = M1[2][d][i + k]
      BY <2>1, <2>3, <2>9, <2>10
    <3>4. Len(M2[1][d]) = Len(M1[1][d]) + k
      BY <1>11, <2>4, <2>9
    <3> QED
      BY <3>1, <3>2, <3>3, <3>4 DEF Moved
  <2>12. Sound(M2, arrivals) /\ InUse(M2) = InUse(Pipeline)
    <3>1. 2 \in Stage /\ 1 \in Stage /\ 2 = 1 + 1 /\ 1 <= 2 /\ 2 <= 2
      BY DEF Stage
    <3>2. \A i \in 1..k : i \in DOMAIN M1[2][d]
      BY <1>5, <2>1, <2>10, LenProperties
    <3>3. \A i \in 1..k : M1[2][d][i].dst = d
      BY <1>4, <1>13, <3>1, <3>2 DEF Sound, Routed
    <3>4. IF 1 <= 2 THEN \A i \in 1..k : M1[2][d][i].dst = d ELSE d = d
      BY <3>3
    <3>5. Sound(M1, arrivals)
      BY <1>13
    <3>6. Sound(M2, arrivals) /\ InUse(M2) = InUse(M1)
      <4>1. M1 \in Lines /\ M2 \in Lines /\ d \in Port
        BY <1>4, <1>11, <2>9
      <4> QED
        BY <2>11, <3>1, <3>4, <3>5, <4>1, MovedKeeps
    <3> QED
      BY <1>13, <3>6
  <2>13. Gone(M2, Pipeline', 2, d, MAX_SRV_BURST - k)
    <3>1. Pipeline'[1] = txq' /\ Pipeline'[2] = mbufs' /\ Pipeline'[3] = rest /\ Pipeline'[4] = rxq
      BY <1>9
    <3>2. \A c \in Stage, r \in Port : ~(c = 2 /\ r = d) => Pipeline'[c][r] = M2[c][r]
      BY <2>5, <2>9, <3>1 DEF Stage
    <3>3. /\ MAX_SRV_BURST - k \in 0..Len(M2[2][d])
          /\ Len(Pipeline'[2][d]) = Len(M2[2][d]) - (MAX_SRV_BURST - k)
          /\ Len(Pipeline'[2][d]) = 0
      <4>1. Len(Pipeline'[2][d]) = 0
        BY <2>5, <3>1, EmptySeq
      <4> QED
        BY <1>4, <2>1, <2>3, <2>9, <4>1
    <3> QED
      BY <3>2, <3>3 DEF Gone
  <2>14. Sound(Pipeline', arrivals')
    <3>1. 2 \in Stage /\ arrivals' = arrivals
      BY <1>1 DEF Stage
    <3> QED
      BY <1>4, <2>8, <2>9, <2>12, <2>13, <3>1, GoneKeepsSound
  <2>15. InUse(Pipeline') = InUse(Pipeline) \ gone
    <3>1. 2 \in Stage
      BY DEF Stage
    <3>2. InUse(Pipeline') = InUse(M2) \ {M2[2][d][i].mbuf : i \in 1 .. MAX_SRV_BURST - k}
      BY <1>4, <2>8, <2>9, <2>12, <2>13, <3>1, GoneFrees DEF Sound
    <3>3. {M2[2][d][i].mbuf : i \in 1 .. MAX_SRV_BURST - k} = gone
      <4>1. \A i \in 1 .. MAX_SRV_BURST - k : i + k \in k+1 .. MAX_SRV_BURST
        BY <1>4
      <4>2. \A i \in k+1 .. MAX_SRV_BURST : i - k \in 1 .. MAX_SRV_BURST - k /\ (i - k) + k = i
        BY <1>4
      <4>3. \A i \in 1 .. MAX_SRV_BURST - k : M2[2][d][i].mbuf \in gone
        BY <2>3, <2>9, <4>1 DEF gone
      <4>4. \A i \in k+1 .. MAX_SRV_BURST : buf[i].mbuf = M2[2][d][i - k].mbuf
        BY <2>3, <2>9, <4>2
      <4> QED
        BY <4>2, <4>3, <4>4 DEF gone
    <3> QED
      BY <2>12, <3>2, <3>3
  <2>16. pool' = Mbufs \ InUse(Pipeline')
    BY <1>2, <1>15, <2>6, <2>15
  <2>17. BuffersNotFull'
    <3>1. Len(mbufs'[d]) = 0
      BY <2>5, EmptySeq
    <3> QED
      BY <1>4, <2>5, <3>1, SMTT(30) DEF BuffersNotFull
  <2> QED
    BY <1>1, <2>7, <2>14, <2>16, <2>17, InvFromStages
<1> QED
  BY <1>14, <1>15

LEMMA StepInv == ServerInv /\ [Next]_vars => ServerInv'
<1> SUFFICES ASSUME ServerInv, [Next]_vars PROVE ServerInv'
  OBVIOUS
<1>1. CASE run_server
  <2>1. CASE \E k \in 0..MAX_SRV_BURST : RxBurst(k)
    BY <2>1, RxBurstStep
  <2>2. CASE \E k \in 0..MAX_SRV_BURST : ProcessPacket(k)
    BY <2>2, ProcessPacketStep
  <2> QED
    BY <1>1, <2>1, <2>2, NoPacketsStep, StartBatchStep, EndBatchStep DEF run_server
<1>2. CASE Nic
  BY <1>2, ArriveStep, TransmittedStep DEF Nic
<1>3. CASE UNCHANGED vars
  <2>1. TypeOK' /\ BuffersNotFull'
    BY <1>3 DEF vars, nicVars, statVars, loopVars, ServerInv, TypeOK, BuffersNotFull
  <2>2. /\ Pipeline' = Pipeline
        /\ UNCHANGED <<arrivals, spc, batch_index, pool>>
    BY <1>3 DEF vars, nicVars, loopVars, Pipeline, Unprocessed, nb_rx_new
  <2> QED
    BY <2>1, <2>2, InvFromStages DEF ServerInv
<1> QED
  BY <1>1, <1>2, <1>3 DEF Next

(* The invariant implies what the run checks.                              *)
LEMMA ServerInvImplies == ServerInv => MbufsConserved /\ FlowsInOrder /\ BuffersHaveRoom
<1> SUFFICES ASSUME ServerInv PROVE MbufsConserved /\ FlowsInOrder /\ BuffersHaveRoom
  OBVIOUS
<1>1. MbufsConserved /\ FlowsInOrder
  BY DEF ServerInv, Sound, MbufsConserved, FlowsInOrder
<1>2. Pipeline \in Lines /\ Pipeline[1] = txq /\ Pipeline[2] = mbufs
  BY StagesNow DEF ServerInv
<1>3. ASSUME NEW p \in Port, NEW pkt \in ToSet(mbufs[p]) \union ToSet(txq[p])
      PROVE  pkt.dst = p
  <2>1. PICK a \in {1, 2} : \E i \in DOMAIN Pipeline[a][p] : pkt = Pipeline[a][p][i]
    BY <1>2 DEF ToSet
  <2>2. a \in Stage /\ a <= 2
    BY DEF Stage
  <2> QED
    BY <2>1, <2>2 DEF ServerInv, Sound, Routed
<1>4. BuffersHaveRoom
  BY <1>3 DEF BuffersHaveRoom, ServerInv, BuffersNotFull
<1> QED
  BY <1>1, <1>4

(* For any number of ports, any size of the bursts and any pool, the       *)
(* server by itself keeps the invariant.                                   *)
THEOREM ServerInvariant == Spec => []ServerInv
BY InitInv, StepInv, PTL DEF Spec

-----------------------------------------------------------------------------
(* The traffic generator.                                                  *)

(* What is in the hands of an lcore and in the queues stays within the     *)
(* bounds of the bursts, caches and rings.                                 *)
ClientTypeOK ==
  /\ at \in [Lcores -> {"alloc", "send", "drain", "verify"}]
  /\ burst \in [Lcores -> 0..MAX_CLT_BURST]
  /\ free \in [Lcores -> Nat]
  /\ cache \in [Lcores -> [Lcores -> 0..NB_MBUF_CACHE]]
  /\ sent \in [Lcores -> 0..NUM_TX_DESC]
  /\ recv \in [Queue -> 0..NUM_RX_DESC]

BurstInv ==
  \A c \in Lcores :
    /\ at[c] = "alloc" => burst[c] < MAX_CLT_BURST
    /\ at[c] = "send" => burst[c] = MAX_CLT_BURST
    /\ at[c] = "drain" => burst[c] = 0
    /\ at[c] = "verify" => burst[c] <= NUM_RX_DESC

ClientInv == ClientTypeOK /\ BurstInv /\ PoolsConserved

-----------------------------------------------------------------------------
(* The tables of main and of run_client pair the lcores off: the lcore that *)
(* polls the queue main meant for c has its own queue polled by c.          *)
LEMMA TablesPair ==
  /\ \A c \in 0..11 : PoolOf(QueueOf(PoolOf(QueueOf(c)))) = c /\ PoolOf(QueueOf(c)) \in 0..11
  /\ \A x, y \in (0..3) \X (0..2) : PoolOf(x) = PoolOf(y) => x = y
<1>1. /\ QueueOf(0) = <<0, 0>> /\ QueueOf(1) = <<2, 1>> /\ QueueOf(2) = <<0, 2>>
      /\ QueueOf(3) = <<2, 0>> /\ QueueOf(4) = <<0, 1>> /\ QueueOf(5) = <<2, 2>>
      /\ QueueOf(6) = <<1, 0>> /\ QueueOf(7) = <<3, 1>> /\ QueueOf(8) = <<1, 2>>
      /\ QueueOf(9) = <<3, 0>> /\ QueueOf(10) = <<1, 1>> /\ QueueOf(11) = <<3, 2>>
  BY DEF QueueOf, lcore_to_port, queue_id
<1>2. /\ PoolOf(<<0, 0>>) = 0 /\ PoolOf(<<0, 1>>) = 2 /\ PoolOf(<<0, 2>>) = 4
      /\ PoolOf(<<1, 0>>) = 6 /\ PoolOf(<<1, 1>>) = 8 /\ PoolOf(<<1, 2>>) = 10
      /\ PoolOf(<<2, 0>>) = 1 /\ PoolOf(<<2, 1>>) = 3 /\ PoolOf(<<2, 2>>) = 5
      /\ PoolOf(<<3, 0>>) = 7 /\ PoolOf(<<3, 1>>) = 9 /\ PoolOf(<<3, 2>>) = 11
  BY DEF PoolOf, client_port_queue_to_lcore
<1>3. \A c \in 0..11 : c \in {0, 1, 2, 3, 4, 5, 6, 7, 8, 9, 10, 11}
  OBVIOUS
<1>4. \A x \in (0..3) \X (0..2) :
        x \in {<<0, 0>>, <<0, 1>>, <<0, 2>>, <<1, 0>>, <<1, 1>>, <<1, 2>>,
              <<2, 0>>, <<2, 1>>, <<2, 2>>, <<3, 0>>, <<3, 1>>, <<3, 2>>}
  OBVIOUS
<1>5. \A c \in 0..11 : PoolOf(QueueOf(PoolOf(QueueOf(c)))) = c /\ PoolOf(QueueOf(c)) \in 0..11
  BY <1>1, <1>2, <1>3
<1>6. ASSUME NEW x \in (0..3) \X (0..2), NEW y \in (0..3) \X (0..2), PoolOf(x) = PoolOf(y)
      PROVE  x = y
  BY <1>2, <1>4, <1>6
<1> QED
  BY <1>5, <1>6

(* "All queues on a port should be accessed" (l2fwd/README): for any number*)
(* of ports, every receive queue is polled by exactly one lcore, and every *)
(* pool serves one queue, though main and run_client use different tables. *)
THEOREM TablesAgree == QueuesPolled
<1> DEFINE mate(c) == PoolOf(QueueOf(c))
<1>1. /\ Lcores \subseteq 0..11 /\ Queue \subseteq (0..3) \X (0..2)
      /\ \A q \in Queue : PoolOf(q) \in Lcores
      /\ \A c \in Lcores : QueueOf(c) \in Queue
  <2>1. 0 .. nb_ports-1 \subseteq 0..3 /\ QueueIds \subseteq 0..2
    BY ClientAssumption
  <2>2. Queue \subseteq (0..3) \X (0..2)
    BY <2>1 DEF Queue
  <2> QED
    BY <2>2, ClientAssumption
<1>2. \A c \in Lcores : mate(c) \in Lcores /\ mate(mate(c)) = c
  BY <1>1, TablesPair
<1>3. ASSUME NEW q \in Queue
      PROVE  \E c \in Lcores : \A d \in Lcores : QueueOf(d) = q <=> d = c
  <2>1. PoolOf(q) \in Lcores /\ mate(PoolOf(q)) \in Lcores /\ mate(mate(PoolOf(q))) = PoolOf(q)
    BY <1>1, <1>2
  <2>2. QueueOf(mate(PoolOf(q))) = q
    BY <1>1, <2>1, TablesPair
  <2>3. \A d \in Lcores : QueueOf(d) = q => d = mate(PoolOf(q))
    BY <1>2
  <2> QED
    BY <2>1, <2>2, <2>3
<1>4. ASSUME NEW p \in Lcores
      PROVE  \E c \in Lcores : \A d \in Lcores : PoolOf(QueueOf(d)) = p <=> d = c
  BY <1>2
<1> QED
  BY <1>3, <1>4 DEF QueuesPolled

LEMMA PollerFacts ==
  ASSUME NEW p \in Lcores
  PROVE  /\ Poller(p) \in Lcores
         /\ \A d \in Lcores : PoolOf(QueueOf(d)) = p <=> d = Poller(p)
<1>1. PICK c \in Lcores : \A d \in Lcores : PoolOf(QueueOf(d)) = p <=> d = c
  BY TablesAgree DEF QueuesPolled
<1>2. Poller(p) = c
  BY <1>1 DEF Poller
<1> QED
  BY <1>1, <1>2

LEMMA PoolOfPolled ==
  ASSUME NEW c \in Lcores
  PROVE  /\ QueueOf(c) \in Queue
         /\ PoolOf(QueueOf(c)) \in Lcores
         /\ Poller(PoolOf(QueueOf(c))) = c
<1>1. QueueOf(c) \in Queue /\ PoolOf(QueueOf(c)) \in Lcores
  BY ClientAssumption
<1> QED
  BY <1>1, PollerFacts

(* Every pool fills the descriptors of one receive queue.                  *)
LEMMA OneQueuePerPool ==
  ASSUME NEW p \in Lcores
  PROVE  Cardinality({q \in Queue : PoolOf(q) = p}) = 1
<1>1. QueueOf(Poller(p)) \in Queue /\ PoolOf(QueueOf(Poller(p))) = p
  BY PollerFacts, PoolOfPolled
<1>2. ASSUME NEW q \in Queue, PoolOf(q) = p
      PROVE  q = QueueOf(Poller(p))
  <2>1. PICK c \in Lcores : \A d \in Lcores : QueueOf(d) = q <=> d = c
    BY TablesAgree DEF QueuesPolled
  <2>2. c = Poller(p)
    BY <1>2, <2>1, PollerFacts
  <2> QED
    BY <2>1, <2>2
<1>3. {q \in Queue : PoolOf(q) = p} = {QueueOf(Poller(p))}
  BY <1>1, <1>2
<1> QED
  BY <1>3, FS_Singleton

LEMMA Sizes ==
  /\ NB_MBUF \in Nat /\ NB_MBUF_CACHE \in Nat /\ NUM_TX_DESC \in Nat
  /\ MAX_CLT_BURST \in Nat \ {0} /\ NUM_RX_DESC \in Nat \ {0}
  /\ NB_MBUF >= NUM_RX_DESC + NUM_TX_DESC + MAX_CLT_BURST + NB_MBUF_CACHE
                + (IF MAX_CLT_BURST < NUM_RX_DESC THEN MAX_CLT_BURST ELSE NUM_RX_DESC)
<1>1. \A a, b \in Nat : Min({a, b}) = IF a < b THEN a ELSE b
  <2> TAKE a, b \in Nat
  <2> DEFINE m == IF a < b THEN a ELSE b
  <2>1. m \in {a, b} /\ \A y \in {a, b} : m <= y
    OBVIOUS
  <2>2. \A x \in {a, b} : (\A y \in {a, b} : x <= y) => x = m
    BY <2>1
  <2>3. Min({a, b}) = m
    BY <2>1, <2>2 DEF Min
  <2> QED
    BY <2>3
<1>2. MAX_CLT_BURST \in Nat /\ NUM_RX_DESC \in Nat
  BY ClientAssumption
<1>3. Min({MAX_CLT_BURST, NUM_RX_DESC})
        = IF MAX_CLT_BURST < NUM_RX_DESC THEN MAX_CLT_BURST ELSE NUM_RX_DESC
  BY <1>1, <1>2
<1> QED
  BY <1>3, ClientAssumption

(* An lcore that takes or gives back mbufs of a pool moves them between    *)
(* the pool, its cache and its hands, and touches nothing else.            *)
LEMMA TakeFacts ==
  ASSUME ClientTypeOK, NEW c \in Lcores, NEW p \in Lcores, NEW n \in Int, Take(c, p, n)
  PROVE  /\ free' \in [Lcores -> Nat]
         /\ cache' \in [Lcores -> [Lcores -> 0..NB_MBUF_CACHE]]
         /\ free'[p] + cache'[c][p] = free[p] + cache[c][p] - n
         /\ \A x \in Lcores \ {p} : free'[x] = free[x]
         /\ \A d, x \in Lcores : d # c \/ x # p => cache'[d][x] = cache[d][x]
<1> DEFINE rest == Available(c, p) - n
           most == IF \E d \in Lcores \ {c} : p \in PoolsOf(d) THEN NB_MBUF_CACHE ELSE 0
<1>1. most \in 0..NB_MBUF_CACHE
  BY Sizes
<1>2. rest >= 0 /\ \E k \in 0..most : /\ k <= rest
                                      /\ cache' = [cache EXCEPT ![c][p] = k]
                                      /\ free' = [free EXCEPT ![p] = rest - k]
  BY DEF Take
<1>3. rest = free[p] + cache[c][p] - n /\ rest \in Int
  BY Sizes DEF Available, ClientTypeOK
<1> HIDE DEF rest, most
<1>4. PICK k \in 0..most : /\ k <= rest
                           /\ cache' = [cache EXCEPT ![c][p] = k]
                           /\ free' = [free EXCEPT ![p] = rest - k]
  BY <1>2
<1>5. k \in 0..NB_MBUF_CACHE /\ rest - k \in Nat
  BY <1>1, <1>3, <1>4, Sizes
<1>6. free' \in [Lcores -> Nat] /\ free'[p] = rest - k /\ \A x \in Lcores \ {p} : free'[x] = free[x]
  BY <1>4, <1>5 DEF ClientTypeOK
<1>7. /\ cache' \in [Lcores -> [Lcores -> 0..NB_MBUF_CACHE]]
      /\ cache'[c][p] = k
      /\ \A d, x \in Lcores : d # c \/ x # p => cache'[d][x] = cache[d][x]
  BY <1>4, <1>5 DEF ClientTypeOK
<1> QED
  BY <1>3, <1>5, <1>6, <1>7

LEMMA HandIsNat ==
  ASSUME ClientTypeOK, NEW c \in Lcores, NEW p \in Lcores
  PROVE  InHand(c, p) \in Nat /\ cache[c][p] \in Nat /\ Held(c, p) \in Nat
BY Sizes DEF ClientTypeOK, InHand, Held

(* The balance of a pool is kept by a step of lcore c when what it takes   *)
(* from pool p is what its hands and its transmit queue gain.              *)
LEMMA Balance ==
  ASSUME ClientTypeOK, ClientTypeOK', PoolsConserved,
         NEW c \in Lcores, NEW p \in {c, PoolOf(QueueOf(c))}, NEW n \in Int,
         Take(c, p, n),
         \A x \in Lcores \ {p} : sent'[x] = sent[x],
         \A d, x \in Lcores : d # c \/ x # p => InHand(d, x)' = InHand(d, x),
         InHand(c, p)' + sent'[p] = InHand(c, p) + sent[p] + n
  PROVE  PoolsConserved'
<1>1. p \in Lcores /\ PoolOf(QueueOf(c)) \in Lcores
  BY PoolOfPolled
<1>2. c = p \/ c = Poller(p)
  BY <1>1, PoolOfPolled
<1>3. /\ free' \in [Lcores -> Nat] /\ free \in [Lcores -> Nat]
      /\ free'[p] + cache'[c][p] = free[p] + cache[c][p] - n
      /\ \A x \in Lcores \ {p} : free'[x] = free[x]
      /\ \A d, x \in Lcores : d # c \/ x # p => cache'[d][x] = cache[d][x]
  BY <1>1, TakeFacts DEF ClientTypeOK
<1>4. \A d, x \in Lcores : d # c \/ x # p => Held(d, x)' = Held(d, x)
  BY <1>3 DEF Held
<1>5. Held(c, p) = InHand(c, p) + cache[c][p] /\ Held(c, p)' = InHand(c, p)' + cache'[c][p]
  BY DEF Held
<1>6. /\ InHand(c, p) \in Nat /\ InHand(c, p)' \in Nat /\ cache[c][p] \in Nat /\ cache'[c][p] \in Nat
      /\ \A d, x \in Lcores : Held(d, x) \in Nat /\ Held(d, x)' \in Nat
  <2>1. \A d, x \in Lcores : InHand(d, x) \in Nat /\ cache[d][x] \in Nat /\ Held(d, x) \in Nat
    BY HandIsNat
  <2>2. \A d, x \in Lcores : InHand(d, x)' \in Nat /\ cache'[d][x] \in Nat /\ Held(d, x)' \in Nat
    BY Sizes DEF ClientTypeOK, InHand, Held
  <2> QED
    BY <1>1, <2>1, <2>2
<1>7. /\ sent[p] \in Nat /\ sent'[p] \in Nat /\ free[p] \in Nat /\ free'[p] \in Nat
  BY <1>1, Sizes DEF ClientTypeOK
<1>8. free'[p] + sent'[p] + Held(c, p)' = free[p] + sent[p] + Held(c, p)
  <2>1. free'[p] + cache'[c][p] = free[p] + cache[c][p] - n
    BY <1>3
  <2>2. InHand(c, p)' + sent'[p] = InHand(c, p) + sent[p] + n
    OBVIOUS
  <2>3. \A f1, f, c1, c0, s1, s, h1, h \in Nat, k \in Int :
          f1 + c1 = f + c0 - k /\ h1 + s1 = h + s + k
            => f1 + s1 + (h1 + c1) = f + s + (h + c0)
    BY SMT
  <2> QED
    BY <1>5, <1>6, <1>7, <2>1, <2>2, <2>3
<1> SUFFICES ASSUME NEW x \in Lcores
             PROVE  /\ free'[x] + sent'[x] + NUM_RX_DESC * Cardinality({q \in Queue : PoolOf(q) = x})
                         + Held(x, x)' + (IF Poller(x) = x THEN 0 ELSE Held(Poller(x), x)') = NB_MBUF
                    /\ \A d \in Lcores \ {x, Poller(x)} : Held(d, x)' = 0
  BY DEF PoolsConserved, Poller
<1> DEFINE rx == NUM_RX_DESC * Cardinality({q \in Queue : PoolOf(q) = x})
<1>9. rx = NUM_RX_DESC /\ NUM_RX_DESC \in Nat
  BY OneQueuePerPool, Sizes
<1>10. /\ free[x] + sent[x] + rx + Held(x, x) + (IF Poller(x) = x THEN 0 ELSE Held(Poller(x), x)) = NB_MBUF
       /\ \A d \in Lcores \ {x, Poller(x)} : Held(d, x) = 0
  BY DEF PoolsConserved
<1>11. Poller(x) \in Lcores
  BY PollerFacts
<1> HIDE DEF rx
<1>12. CASE x # p
  BY <1>3, <1>4, <1>10, <1>11, <1>12 DEF rx
<1>13. CASE x = p
  <2>1. \A d \in Lcores \ {x, Poller(x)} : Held(d, x)' = 0
    BY <1>2, <1>4, <1>10, <1>13
  <2>2. CASE Poller(x) = x
    BY <1>2, <1>6, <1>7, <1>8, <1>9, <1>10, <1>13, <2>1, <2>2, Sizes DEF rx
  <2>3. CASE Poller(x) # x /\ c = x
    <3>1. Held(Poller(x), x)' = Held(Poller(x), x) /\ Held(Poller(x), x) \in Nat
      BY <1>4, <1>6, <1>11, <2>3
    <3> QED
      BY <1>6, <1>7, <1>8, <1>9, <1>10, <1>13, <2>1, <2>3, <3>1, Sizes DEF rx
  <2>4. CASE Poller(x) # x /\ c = Poller(x)
    <3>1. Held(x, x)' = Held(x, x) /\ Held(x, x) \in Nat
      BY <1>4, <1>6, <2>4
    <3> QED
      BY <1>6, <1>7, <1>8, <1>9, <1>10, <1>13, <2>1, <2>4, <3>1, Sizes DEF rx
  <2> QED
    BY <1>2, <1>13, <2>2, <2>3, <2>4
<1> QED
  BY <1>12, <1>13 DEF rx

(* rte_pktmbuf_alloc finds an mbuf whenever it is called.                  *)
LEMMA SomeAvailable ==
  ASSUME ClientInv, NEW c \in Lcores, at[c] = "alloc"
  PROVE  Available(c, c) # 0
<1> DEFINE d == Poller(c)
<1>1. d \in Lcores
  BY PollerFacts
<1>2. free[c] + sent[c] + NUM_RX_DESC + Held(c, c) + (IF d = c THEN 0 ELSE Held(d, c)) = NB_MBUF
  <2>1. NUM_RX_DESC * Cardinality({q \in Queue : PoolOf(q) = c}) = NUM_RX_DESC
    BY OneQueuePerPool, Sizes
  <2> QED
    BY <2>1 DEF ClientInv, PoolsConserved
<1>3. /\ free[c] \in Nat /\ sent[c] \in Nat /\ sent[c] <= NUM_TX_DESC
      /\ cache[c][c] \in Nat /\ cache[d][c] \in Nat /\ cache[d][c] <= NB_MBUF_CACHE
      /\ burst[c] \in Nat /\ burst[c] < MAX_CLT_BURST
  BY <1>1, Sizes DEF ClientInv, ClientTypeOK, BurstInv
<1>4. Held(c, c) = burst[c] + cache[c][c]
  BY DEF Held, InHand
<1>5. ASSUME d # c
      PROVE  /\ Held(d, c) \in Nat
             /\ Held(d, c) <= NB_MBUF_CACHE
                  + (IF MAX_CLT_BURST < NUM_RX_DESC THEN MAX_CLT_BURST ELSE NUM_RX_DESC)
  <2>1. InHand(d, c) = 0 \/ (InHand(d, c) = burst[d] /\ at[d] = "verify")
    BY <1>5 DEF InHand
  <2>2. burst[d] \in Nat /\ burst[d] <= MAX_CLT_BURST /\ (at[d] = "verify" => burst[d] <= NUM_RX_DESC)
    BY <1>1, Sizes DEF ClientInv, ClientTypeOK, BurstInv
  <2> QED
    BY <1>3, <2>1, <2>2, Sizes DEF Held
<1> HIDE DEF d
<1> QED
  BY <1>2, <1>3, <1>4, <1>5, Sizes DEF Available

-----------------------------------------------------------------------------
LEMMA ClientInitInv == ClientInit => ClientInv
<1> SUFFICES ASSUME ClientInit PROVE ClientInv
  OBVIOUS
<1>1. \A p \in Lcores : /\ Cardinality({q \in Queue : PoolOf(q) = p}) = 1
                        /\ free[p] = NB_MBUF - NUM_RX_DESC
                        /\ NB_MBUF - NUM_RX_DESC \in Nat
  BY OneQueuePerPool, Sizes DEF ClientInit
<1>2. ClientTypeOK
  <2>1. free \in [Lcores -> Nat]
    BY <1>1 DEF ClientInit
  <2> QED
    BY <2>1, Sizes DEF ClientInit, ClientTypeOK
<1>3. BurstInv
  BY Sizes DEF ClientInit, BurstInv
<1>4. \A c, p \in Lcores : Held(c, p) = 0
  BY DEF ClientInit, Held, InHand
<1>5. PoolsConserved
  <2> SUFFICES ASSUME NEW p \in Lcores
               PROVE  free[p] + sent[p] + NUM_RX_DESC * Cardinality({q \in Queue : PoolOf(q) = p})
                        + Held(p, p) + (IF Poller(p) = p THEN 0 ELSE Held(Poller(p), p)) = NB_MBUF
    BY <1>4 DEF PoolsConserved
  <2>1. sent[p] = 0 /\ Held(p, p) = 0 /\ Held(Poller(p), p) = 0
    BY <1>4, PollerFacts DEF ClientInit
  <2>2. NUM_RX_DESC * Cardinality({q \in Queue : PoolOf(q) = p}) = NUM_RX_DESC
    BY <1>1, Sizes
  <2> QED
    BY <1>1, <2>1, <2>2, Sizes
<1> QED
  BY <1>2, <1>3, <1>5 DEF ClientInv

\* The receive queues do not count: their descriptors always hold mbufs.
LEMMA PoolsStill ==
  ASSUME PoolsConserved, UNCHANGED <<at, burst, free, cache, sent>>
  PROVE  PoolsConserved'
<1>1. \A c, p : InHand(c, p)' = InHand(c, p)
  BY DEF InHand
<1>2. \A c, p : Held(c, p)' = Held(c, p)
  BY <1>1 DEF Held
<1> SUFFICES ASSUME NEW p \in Lcores
             PROVE  /\ (free[p] + sent[p] + NUM_RX_DESC * Cardinality({q \in Queue : PoolOf(q) = p})
                         + Held(p, p) + (IF Poller(p) = p THEN 0 ELSE Held(Poller(p), p)))' = NB_MBUF
                    /\ \A c \in Lcores \ {p, Poller(p)} : Held(c, p)' = 0
  BY DEF PoolsConserved, Poller
<1> DEFINE rx == NUM_RX_DESC * Cardinality({q \in Queue : PoolOf(q) = p})
           c == Poller(p)
<1>3. /\ free[p] + sent[p] + rx + Held(p, p) + (IF c = p THEN 0 ELSE Held(c, p)) = NB_MBUF
      /\ \A d \in Lcores \ {p, c} : Held(d, p) = 0
  BY DEF PoolsConserved
<1> HIDE DEF rx, c
<1>4. /\ Held(p, p)' = Held(p, p) /\ Held(c, p)' = Held(c, p)
      /\ \A d : Held(d, p)' = Held(d, p)
  BY <1>2
<1>5. /\ free'[p] + sent'[p] + rx + Held(p, p)' + (IF c = p THEN 0 ELSE Held(c, p)') = NB_MBUF
      /\ \A d \in Lcores \ {p, c} : Held(d, p)' = 0
  BY <1>3, <1>4
<1> QED
  BY <1>5 DEF rx, c, Poller

LEMMA ReceiveStep ==
  ASSUME ClientInv, NEW q \in Queue, Receive(q)
  PROVE  ClientInv'
<1>1. ClientTypeOK' /\ BurstInv'
  BY Sizes DEF ClientInv, ClientTypeOK, BurstInv, Receive
<1>2. PoolsConserved'
  BY PoolsStill DEF ClientInv, Receive
<1> QED
  BY <1>1, <1>2 DEF ClientInv

LEMMA SentStep ==
  ASSUME ClientInv, NEW c \in Lcores, Sent(c)
  PROVE  ClientInv'
<1> USE DEF ClientInv
<1>1. /\ free' \in [Lcores -> Nat]
      /\ cache' \in [Lcores -> [Lcores -> 0..NB_MBUF_CACHE]]
  BY TakeFacts DEF Sent
<1>2. sent' = [sent EXCEPT ![c] = @ - 1] /\ sent[c] > 0 /\ UNCHANGED <<at, burst, recv>>
  BY DEF Sent
<1>3. ClientTypeOK' /\ BurstInv'
  BY <1>1, <1>2, Sizes DEF ClientTypeOK, BurstInv
<1>4. \A d, x \in Lcores : InHand(d, x)' = InHand(d, x)
  BY <1>2 DEF InHand
<1>5. InHand(c, c)' + sent'[c] = InHand(c, c) + sent[c] + (-1)
  <2>1. sent'[c] = sent[c] - 1 /\ sent[c] \in Nat /\ InHand(c, c) \in Nat
    BY <1>2, HandIsNat, Sizes DEF ClientTypeOK
  <2> QED
    BY <1>4, <2>1
<1>6. PoolsConserved'
  <2>1. \A x \in Lcores \ {c} : sent'[x] = sent[x]
    BY <1>2 DEF ClientTypeOK
  <2>2. Take(c, c, -1) /\ -1 \in Int
    BY DEF Sent
  <2> QED
    BY <1>3, <1>4, <1>5, <2>1, <2>2, Balance
<1> QED
  BY <1>3, <1>6

LEMMA AllocStep ==
  ASSUME ClientInv, NEW c \in Lcores, Alloc(c)
  PROVE  ClientInv'
<1> USE DEF ClientInv
<1>1. /\ at[c] = "alloc" /\ Take(c, c, 1)
      /\ burst' = [burst EXCEPT ![c] = @ + 1]
      /\ at' = [at EXCEPT ![c] = IF burst[c] + 1 = MAX_CLT_BURST THEN "send" ELSE @]
      /\ UNCHANGED <<sent, recv>>
  BY SomeAvailable DEF Alloc
<1>2. /\ free' \in [Lcores -> Nat]
      /\ cache' \in [Lcores -> [Lcores -> 0..NB_MBUF_CACHE]]
  BY <1>1, TakeFacts
<1>3. burst[c] \in Nat /\ burst[c] < MAX_CLT_BURST
  BY <1>1, Sizes DEF ClientTypeOK, BurstInv
<1>4. ClientTypeOK' /\ BurstInv'
  <2>1. ClientTypeOK'
    <3>1. burst[c] + 1 \in 0..MAX_CLT_BURST
      BY <1>3, Sizes
    <3>2. burst' \in [Lcores -> 0..MAX_CLT_BURST]
      BY <1>1, <3>1 DEF ClientTypeOK
    <3>3. at' \in [Lcores -> {"alloc", "send", "drain", "verify"}]
      BY <1>1 DEF ClientTypeOK
    <3> QED
      BY <1>1, <1>2, <3>2, <3>3 DEF ClientTypeOK
  <2>2. BurstInv'
    <3> SUFFICES ASSUME NEW d \in Lcores
                 PROVE  /\ at'[d] = "alloc" => burst'[d] < MAX_CLT_BURST
                        /\ at'[d] = "send" => burst'[d] = MAX_CLT_BURST
                        /\ at'[d] = "drain" => burst'[d] = 0
                        /\ at'[d] = "verify" => burst'[d] <= NUM_RX_DESC
      BY DEF BurstInv
    <3>1. CASE d # c
      BY <1>1, <3>1 DEF ClientTypeOK, BurstInv
    <3>2. CASE d = c
      <4>1. burst'[c] = burst[c] + 1
            /\ at'[c] = IF burst[c] + 1 = MAX_CLT_BURST THEN "send" ELSE "alloc"
        BY <1>1 DEF ClientTypeOK
      <4> QED
        BY <1>3, <3>2, <4>1, Sizes
    <3> QED
      BY <3>1, <3>2
  <2> QED
    BY <2>1, <2>2
<1>5. \A d, x \in Lcores : d # c \/ x # c => InHand(d, x)' = InHand(d, x)
  BY <1>1 DEF InHand, ClientTypeOK
<1>6. InHand(c, c)' + sent'[c] = InHand(c, c) + sent[c] + 1
  <2>1. InHand(c, c) = burst[c] /\ InHand(c, c)' = burst[c] + 1
    BY <1>1 DEF InHand, ClientTypeOK
  <2>2. sent'[c] = sent[c] /\ sent[c] \in Nat
    BY <1>1, Sizes DEF ClientTypeOK
  <2> QED
    BY <1>3, <2>1, <2>2
<1>7. PoolsConserved'
  BY <1>1, <1>4, <1>5, <1>6, Balance
<1> QED
  BY <1>4, <1>7

LEMMA SendStep ==
  ASSUME ClientInv, NEW c \in Lcores, NEW k \in 0..MAX_CLT_BURST, Send(c, k)
  PROVE  ClientInv'
<1> USE DEF ClientInv
<1>1. /\ at[c] = "send" /\ k <= Room(c) /\ Take(c, c, k - MAX_CLT_BURST)
      /\ sent' = [sent EXCEPT ![c] = @ + k]
      /\ burst' = [burst EXCEPT ![c] = 0]
      /\ at' = [at EXCEPT ![c] = "drain"]
      /\ UNCHANGED recv
  BY DEF Send
<1>2. /\ burst[c] = MAX_CLT_BURST /\ k \in Nat /\ k - MAX_CLT_BURST \in Int
      /\ sent[c] \in Nat /\ sent[c] + k <= NUM_TX_DESC
  BY <1>1, Sizes DEF ClientTypeOK, BurstInv, Room
<1>3. /\ free' \in [Lcores -> Nat]
      /\ cache' \in [Lcores -> [Lcores -> 0..NB_MBUF_CACHE]]
  BY <1>1, <1>2, TakeFacts
<1>4. ClientTypeOK' /\ BurstInv'
  <2>1. ClientTypeOK'
    <3>1. sent[c] + k \in 0..NUM_TX_DESC /\ 0 \in 0..MAX_CLT_BURST
      BY <1>2, Sizes
    <3>2. sent' \in [Lcores -> 0..NUM_TX_DESC]
      BY <1>1, <3>1 DEF ClientTypeOK
    <3>3. burst' \in [Lcores -> 0..MAX_CLT_BURST]
      BY <1>1, <3>1 DEF ClientTypeOK
    <3>4. at' \in [Lcores -> {"alloc", "send", "drain", "verify"}]
      BY <1>1 DEF ClientTypeOK
    <3> QED
      BY <1>1, <1>3, <3>2, <3>3, <3>4 DEF ClientTypeOK
  <2>2. BurstInv'
    BY <1>1, <1>2, <1>3, Sizes DEF ClientTypeOK, BurstInv
  <2> QED
    BY <2>1, <2>2
<1>5. \A d, x \in Lcores : d # c \/ x # c => InHand(d, x)' = InHand(d, x)
  BY <1>1 DEF InHand, ClientTypeOK
<1>6. InHand(c, c)' + sent'[c] = InHand(c, c) + sent[c] + (k - MAX_CLT_BURST)
  <2>1. InHand(c, c) = burst[c] /\ InHand(c, c)' = 0
    BY <1>1 DEF InHand, ClientTypeOK
  <2>2. sent'[c] = sent[c] + k
    BY <1>1 DEF ClientTypeOK
  <2> QED
    BY <1>2, <2>1, <2>2, Sizes
<1>7. \A x \in Lcores \ {c} : sent'[x] = sent[x]
  BY <1>1 DEF ClientTypeOK
<1>8. PoolsConserved'
  BY <1>1, <1>2, <1>4, <1>5, <1>6, <1>7, Balance
<1> QED
  BY <1>4, <1>8

LEMMA DrainStep ==
  ASSUME ClientInv, NEW c \in Lcores, NEW k \in 0..MAX_CLT_BURST, Drain(c, k)
  PROVE  ClientInv'
<1> USE DEF ClientInv
<1> DEFINE q == QueueOf(c)
           p == PoolOf(q)
<1>1. q \in Queue /\ p \in Lcores
  BY PoolOfPolled
<1>2. /\ at[c] = "drain" /\ k <= recv[q] /\ Take(c, p, k)
      /\ recv' = [recv EXCEPT ![q] = @ - k]
      /\ burst' = [burst EXCEPT ![c] = k]
      /\ at' = [at EXCEPT ![c] = IF k = 0 THEN "alloc" ELSE "verify"]
      /\ UNCHANGED sent
  BY DEF Drain
<1>3. burst[c] = 0 /\ k \in Nat /\ k \in Int /\ k <= NUM_RX_DESC /\ recv[q] - k \in 0..NUM_RX_DESC
  BY <1>1, <1>2, Sizes DEF ClientTypeOK, BurstInv
<1> HIDE DEF q, p
<1>4. /\ free' \in [Lcores -> Nat]
      /\ cache' \in [Lcores -> [Lcores -> 0..NB_MBUF_CACHE]]
  BY <1>1, <1>2, <1>3, TakeFacts
<1>5. ClientTypeOK'
  BY <1>1, <1>2, <1>3, <1>4, Sizes DEF ClientTypeOK
<1>6. BurstInv'
  BY <1>2, <1>3, Sizes DEF ClientTypeOK, BurstInv
<1>7. \A d, x \in Lcores : d # c \/ x # p => InHand(d, x)' = InHand(d, x)
  BY <1>2, <1>3 DEF InHand, ClientTypeOK, p, q
<1>8. InHand(c, p)' + sent'[p] = InHand(c, p) + sent[p] + k
  <2>1. InHand(c, p) = 0 /\ InHand(c, p)' = k
    BY <1>2, <1>3 DEF InHand, ClientTypeOK, p, q
  <2>2. sent'[p] = sent[p] /\ sent[p] \in Nat
    BY <1>1, <1>2, Sizes DEF ClientTypeOK
  <2> QED
    BY <1>3, <2>1, <2>2
<1>9. PoolsConserved'
  <2>1. p \in {c, PoolOf(QueueOf(c))}
    BY DEF p, q
  <2> QED
    BY <1>2, <1>3, <1>5, <1>7, <1>8, <2>1, Balance
<1> QED
  BY <1>5, <1>6, <1>9

LEMMA VerifyStep ==
  ASSUME ClientInv, NEW c \in Lcores, Verify(c)
  PROVE  ClientInv'
<1> USE DEF ClientInv
<1> DEFINE p == PoolOf(QueueOf(c))
<1>1. p \in Lcores
  BY PoolOfPolled
<1>2. /\ at[c] = "verify" /\ Take(c, p, -burst[c])
      /\ burst' = [burst EXCEPT ![c] = 0]
      /\ at' = [at EXCEPT ![c] = "drain"]
      /\ UNCHANGED <<sent, recv>>
  BY DEF Verify
<1>3. burst[c] \in Nat /\ -burst[c] \in Int
  BY Sizes DEF ClientTypeOK
<1> HIDE DEF p
<1>4. /\ free' \in [Lcores -> Nat]
      /\ cache' \in [Lcores -> [Lcores -> 0..NB_MBUF_CACHE]]
  BY <1>1, <1>2, <1>3, TakeFacts
<1>5. ClientTypeOK' /\ BurstInv'
  <2>1. ClientTypeOK'
    <3>1. 0 \in 0..MAX_CLT_BURST
      BY Sizes
    <3>2. burst' \in [Lcores -> 0..MAX_CLT_BURST]
      BY <1>2, <3>1 DEF ClientTypeOK
    <3>3. at' \in [Lcores -> {"alloc", "send", "drain", "verify"}]
      BY <1>2 DEF ClientTypeOK
    <3> QED
      BY <1>2, <1>4, <3>2, <3>3 DEF ClientTypeOK
  <2>2. BurstInv'
    BY <1>1, <1>2, <1>3, <1>4, Sizes DEF ClientTypeOK, BurstInv
  <2> QED
    BY <2>1, <2>2
<1>6. \A d, x \in Lcores : d # c \/ x # p => InHand(d, x)' = InHand(d, x)
  BY <1>2, <1>3 DEF InHand, ClientTypeOK, p
<1>7. InHand(c, p)' + sent'[p] = InHand(c, p) + sent[p] + (-burst[c])
  <2>1. InHand(c, p) = burst[c] /\ InHand(c, p)' = 0
    BY <1>2, <1>3 DEF InHand, ClientTypeOK, p
  <2>2. sent'[p] = sent[p] /\ sent[p] \in Nat
    BY <1>1, <1>2, Sizes DEF ClientTypeOK
  <2> QED
    BY <1>3, <2>1, <2>2
<1>8. PoolsConserved'
  <2>1. p \in {c, PoolOf(QueueOf(c))}
    BY DEF p
  <2>2. \A x \in Lcores \ {p} : sent'[x] = sent[x]
    BY <1>2
  <2> QED
    BY <1>2, <1>3, <1>5, <1>6, <1>7, <2>1, <2>2, Balance
<1> QED
  BY <1>5, <1>8

(* The invariant is inductive for the steps of all lcores and of the NIC.  *)
LEMMA ClientStepInv == ClientInv /\ [ClientNext]_clientVars => ClientInv'
<1> SUFFICES ASSUME ClientInv, [ClientNext]_clientVars PROVE ClientInv'
  OBVIOUS
<1>1. ASSUME NEW c \in Lcores, run_client(c) PROVE ClientInv'
  <2>1. CASE Alloc(c)
    BY <2>1, AllocStep
  <2>2. CASE \E k \in 0..MAX_CLT_BURST : Send(c, k)
    BY <2>2, SendStep
  <2>3. CASE \E k \in 0..MAX_CLT_BURST : Drain(c, k)
    BY <2>3, DrainStep
  <2>4. CASE Verify(c)
    BY <2>4, VerifyStep
  <2> QED
    BY <1>1, <2>1, <2>2, <2>3, <2>4 DEF run_client
<1>2. ASSUME ClientNic PROVE ClientInv'
  BY <1>2, ReceiveStep, SentStep DEF ClientNic
<1>3. CASE UNCHANGED clientVars
  <2>1. ClientTypeOK' /\ BurstInv'
    BY <1>3 DEF clientVars, ClientInv, ClientTypeOK, BurstInv
  <2>2. PoolsConserved'
    BY <1>3, PoolsStill DEF clientVars, ClientInv
  <2> QED
    BY <2>1, <2>2 DEF ClientInv
<1> QED
  BY <1>1, <1>2, <1>3 DEF ClientNext

LEMMA ClientInvImplies == ClientInv => PoolsConserved /\ AllocSucceeds
BY DEF ClientInv, ClientTypeOK, AllocSucceeds

-----------------------------------------------------------------------------
(* The benchmark.                                                          *)

MainInv == ServerInv /\ ClientInv

LEMMA MainStepInv == MainInv /\ [MainNext]_allVars => MainInv'
<1> SUFFICES ASSUME MainInv, [MainNext]_allVars PROVE MainInv'
  OBVIOUS
<1>1. CASE Server(Next)
  BY <1>1, StepInv, ClientStepInv DEF Server, MainInv
<1>2. CASE Client(ClientNext)
  BY <1>2, StepInv, ClientStepInv DEF Client, MainInv
<1>3. CASE UNCHANGED allVars
  BY <1>3, StepInv, ClientStepInv DEF allVars, MainInv
<1> QED
  BY <1>1, <1>2, <1>3 DEF MainNext

(* Whatever main runs, server or client, keeps both invariants.            *)
THEOREM MainInvariant == MainSpec => []MainInv
<1>1. MainInit => MainInv
  BY InitInv, ClientInitInv DEF MainInit, MainInv
<1> QED
  BY <1>1, MainStepInv, PTL DEF MainSpec

(* No mbuf is leaked or owned twice, in the queues, bursts, buffers and    *)
(* caches of either program: send_packet and run_client hand on or free    *)
(* every mbuf they get, for any number of ports and lcores.                *)
THEOREM MbufsKept == MainSpec => []MainMbufsConserved
<1>1. MainInv => MainMbufsConserved
  BY ServerInvImplies, ClientInvImplies DEF MainInv, MainMbufsConserved
<1> QED
  BY <1>1, MainInvariant, PTL

(* send_packet, the bursts and short transmissions never reorder the       *)
(* packets from one port to another.                                       *)
THEOREM OrderKept == MainSpec => []FlowsInOrder
<1>1. MainInv => FlowsInOrder
  BY ServerInvImplies DEF MainInv
<1> QED
  BY <1>1, MainInvariant, PTL

(* lp_info[].mbufs always has a place for the next packet, and holds only  *)
(* packets for its port.                                                   *)
THEOREM BuffersFit == MainSpec => []BuffersHaveRoom
<1>1. MainInv => BuffersHaveRoom
  BY ServerInvImplies DEF MainInv
<1> QED
  BY <1>1, MainInvariant, PTL

(* rte_pktmbuf_alloc in run_client never fails when the pools are as large *)
(* as ClientAssumption says.                                               *)
THEOREM AllocNeverFails == MainSpec => []AllocSucceeds
<1>1. MainInv => AllocSucceeds
  BY ClientInvImplies DEF MainInv
<1> QED
  BY <1>1, MainInvariant, PTL
=============================================================================
