---------------------------- MODULE Lpm6_proofs ----------------------------
(***************************************************************************)
(* Proofs about Lpm6 and Lpm6Lookup for any widths of the tables, any      *)
(* number of levels, groups and rules, and any batch.  An address and a    *)
(* level have a place: the prefix that all addresses followed to the same  *)
(* table share.  The invariant says that the tables in use number the      *)
(* places of a tree (f below), that an entry leads to the place below it   *)
(* when there is one, and holds the deepest rule that covers it otherwise. *)
(***************************************************************************)
EXTENDS Lpm6Lookup, FiniteSetTheorems, WellFoundedInduction, TLAPS

-----------------------------------------------------------------------------
(* Powers of two.                                                          *)

Pow(n) == 2^n

\* A power of two is the number of subsets of a set: all that is needed of ^.
LEMMA PowIsCardinality ==
  ASSUME NEW S, NEW n \in Nat, IsFiniteSet(S), Cardinality(S) = n
  PROVE  IsFiniteSet(SUBSET S) /\ Cardinality(SUBSET S) = Pow(n)
BY FS_SUBSET DEF Pow

\* An interval of n numbers, as the set whose subsets are counted.
LEMMA IntervalSize ==
  ASSUME NEW m \in Nat, NEW n \in Nat
  PROVE  IsFiniteSet(m+1 .. m+n) /\ Cardinality(m+1 .. m+n) = n
<1>1. m+1 \in Int /\ m+n \in Int
  OBVIOUS
<1>2. IsFiniteSet(m+1 .. m+n) /\ Cardinality(m+1 .. m+n) = IF m+1 > m+n THEN 0 ELSE m+n-(m+1)+1
  BY <1>1, FS_Interval
<1> QED
  BY <1>2

\* Powers of two are positive.
LEMMA PowNat ==
  ASSUME NEW n \in Nat
  PROVE  Pow(n) \in Nat \ {0}
<1> DEFINE S == 0+1 .. 0+n
<1>1. IsFiniteSet(S) /\ Cardinality(S) = n
  BY IntervalSize
<1> HIDE DEF S
<1>2. IsFiniteSet(SUBSET S) /\ Cardinality(SUBSET S) = Pow(n)
  BY <1>1, PowIsCardinality
<1>3. Cardinality(SUBSET S) \in Nat
  BY <1>2, FS_CardinalityType
<1>4. SUBSET S # {}
  OBVIOUS
<1>5. Cardinality(SUBSET S) # 0
  BY <1>2, <1>4, FS_EmptySet
<1> QED
  BY <1>2, <1>3, <1>5

\* 2^(m+n) = 2^m * 2^n.
LEMMA PowSum ==
  ASSUME NEW m \in Nat, NEW n \in Nat
  PROVE  Pow(m+n) = Pow(m) * Pow(n)
<1> DEFINE A == 0+1 .. 0+m
           B == m+1 .. m+n
           C == 0+1 .. 0+(m+n)
<1>1. IsFiniteSet(A) /\ Cardinality(A) = m /\ IsFiniteSet(B) /\ Cardinality(B) = n
  BY IntervalSize
<1>2. m + n \in Nat
  OBVIOUS
<1>3. IsFiniteSet(C) /\ Cardinality(C) = m + n
  BY <1>2, IntervalSize
<1>4. C = A \union B /\ A \cap B = {}
  OBVIOUS
<1> HIDE DEF A, B, C
<1> DEFINE PA == SUBSET A
           PB == SUBSET B
           PC == SUBSET C
<1>5. /\ IsFiniteSet(PA) /\ Cardinality(PA) = Pow(m)
      /\ IsFiniteSet(PB) /\ Cardinality(PB) = Pow(n)
      /\ Cardinality(PC) = Pow(m+n)
  BY <1>1, <1>2, <1>3, PowIsCardinality
<1>6. IsFiniteSet(PA \X PB) /\ Cardinality(PA \X PB) = Pow(m) * Pow(n)
  BY <1>5, FS_Product
<1> DEFINE f == [p \in PA \X PB |-> p[1] \union p[2]]
<1>7. f \in [PA \X PB -> PC]
  BY <1>4
<1>8. ASSUME NEW p \in PA \X PB, NEW q \in PA \X PB, f[p] = f[q]
      PROVE  p = q
  <2>1. f[p] = p[1] \union p[2] /\ f[q] = q[1] \union q[2]
    OBVIOUS
  <2>2. p[1] \subseteq A /\ q[1] \subseteq A /\ p[2] \subseteq B /\ q[2] \subseteq B
    OBVIOUS
  <2>3. p[1] = q[1] /\ p[2] = q[2]
    BY <1>4, <1>8, <2>1, <2>2
  <2> QED
    BY <2>3
<1>9. ASSUME NEW X \in PC
      PROVE  \E p \in PA \X PB : f[p] = X
  <2> DEFINE p == <<X \cap A, X \cap B>>
  <2>1. p \in PA \X PB /\ p[1] \union p[2] = X
    BY <1>4
  <2>2. f[p] = X
    BY <2>1
  <2> QED
    BY <2>1, <2>2
<1> HIDE DEF f
<1>10. f \in Bijection(PA \X PB, PC)
  BY <1>7, <1>8, <1>9 DEF Bijection, Injection, Surjection, IsInjective
<1>11. ExistsBijection(PA \X PB, PC)
  BY <1>10 DEF ExistsBijection
<1>12. Cardinality(PC) = Cardinality(PA \X PB)
  BY <1>6, <1>11, FS_Bijection
<1> QED
  BY <1>5, <1>6, <1>12

-----------------------------------------------------------------------------
(* Prefixes of addresses.                                                  *)

\* What the assumptions on the constants say of the widths.
LEMMA Bits ==
  /\ ADDR_BITS \in Nat
  /\ bits_covered(0) = TBL24_BITS /\ bits_covered(LEVELS) = ADDR_BITS
  /\ \A l \in 0..LEVELS : bits_covered(l) \in 1..ADDR_BITS
  /\ \A l \in 1..LEVELS : bits_covered(l) = bits_covered(l-1) + TBL8_BITS
  /\ \A k, l \in 0..LEVELS : k < l <=> bits_covered(k) < bits_covered(l)
<1> DEFINE T == TBL8_BITS
           P(l) == l * T
<1>1. \A l \in Nat : P(l) \in Nat /\ P(l+1) = P(l) + T
  BY Lpm6Assumption
<1>2. P(0) = 0
  BY Lpm6Assumption
<1>3. \A k, l \in Nat : k < l => P(k) < P(l)
  <2> SUFFICES ASSUME NEW k \in Nat, NEW l \in Nat, k < l PROVE P(k) < P(l)
    OBVIOUS
  <2>0. T \in Nat \ {0}
    BY Lpm6Assumption
  <2>1. l - k \in Nat \ {0} /\ l * T = k * T + (l - k) * T
    BY <2>0
  <2>2. (l - k) * T > 0
    BY <2>0, <2>1
  <2> QED
    BY <2>0, <2>1, <2>2
<1>4. \A l : bits_covered(l) = TBL24_BITS + P(l)
  BY DEF bits_covered
<1>5. ADDR_BITS = TBL24_BITS + P(LEVELS)
  BY DEF ADDR_BITS
<1> HIDE DEF P, T
<1>6. TBL24_BITS \in Nat \ {0} /\ LEVELS \in Nat /\ T \in Nat
  BY Lpm6Assumption DEF T
<1>7. \A l \in 1..LEVELS : l-1 \in Nat /\ P(l) = P(l-1) + T
  BY <1>1, <1>6
<1>8. ASSUME NEW k \in 0..LEVELS, NEW l \in 0..LEVELS
      PROVE  P(k) \in Nat /\ P(l) \in Nat /\ (k < l <=> P(k) < P(l))
  <2>1. k \in Nat /\ l \in Nat
    BY <1>6
  <2>2. P(k) \in Nat /\ P(l) \in Nat /\ (k < l => P(k) < P(l)) /\ (l < k => P(l) < P(k))
    BY <1>1, <1>3, <2>1
  <2>3. k < l \/ l < k \/ k = l
    BY <2>1
  <2> QED
    BY <2>1, <2>2, <2>3
<1>9. ASSUME NEW l \in 0..LEVELS
      PROVE  P(l) \in Nat /\ P(LEVELS) \in Nat /\ P(l) <= P(LEVELS)
  <2>1. LEVELS \in 0..LEVELS /\ (l < LEVELS \/ l = LEVELS)
    BY <1>6
  <2> QED
    BY <1>8, <2>1
<1>10. \A k, l \in 0..LEVELS : k < l <=> bits_covered(k) < bits_covered(l)
  BY <1>4, <1>6, <1>8
<1>11. \A l \in 0..LEVELS : bits_covered(l) \in 1..ADDR_BITS
  BY <1>4, <1>5, <1>6, <1>9
<1>12. \A l \in 1..LEVELS : bits_covered(l) = bits_covered(l-1) + TBL8_BITS
  <2> SUFFICES ASSUME NEW l \in 1..LEVELS PROVE bits_covered(l) = bits_covered(l-1) + TBL8_BITS
    OBVIOUS
  <2>1. l-1 \in 0..LEVELS
    BY <1>6
  <2>2. P(l-1) \in Nat /\ P(l) = P(l-1) + T
    BY <1>7, <1>9, <2>1
  <2> QED
    BY <1>4, <1>6, <2>2 DEF T
<1>13. ADDR_BITS \in Nat
  BY <1>5, <1>6, <1>1
<1>14. bits_covered(0) = TBL24_BITS /\ bits_covered(LEVELS) = ADDR_BITS
  BY <1>2, <1>4, <1>5, <1>6
<1> QED
  BY <1>10, <1>11, <1>12, <1>13, <1>14

\* The quotient is the number with remainder in range.
LEMMA DivIs ==
  ASSUME NEW q \in Nat \ {0}, NEW u \in Int, NEW r \in 0..q-1, NEW x \in Int, x = q * u + r
  PROVE  x \div q = u /\ x % q = r
OBVIOUS

\* u is the quotient and i the remainder of x by q.
Divided(x, q, u, i) == u \in Int /\ i \in 0..q-1 /\ x = q * u + i

\* Quotient and remainder are unique.
LEMMA OneDivision ==
  ASSUME NEW q \in Nat \ {0}, NEW x \in Int, NEW u, NEW i, Divided(x, q, u, i),
         NEW v, NEW j, Divided(x, q, v, j)
  PROVE  u = v /\ i = j
<1>1. u \in Int /\ i \in 0..q-1 /\ x = q * u + i
  BY DEF Divided
<1>2. v \in Int /\ j \in 0..q-1 /\ x = q * v + j
  BY DEF Divided
<1>3. x \div q = u /\ x % q = i
  BY <1>1, DivIs
<1>4. x \div q = v /\ x % q = j
  BY <1>2, DivIs
<1> QED
  BY <1>3, <1>4

\* Quotient and remainder give the number back.
LEMMA DivMod ==
  ASSUME NEW x \in Nat, NEW q \in Nat \ {0}
  PROVE  x \div q \in Nat /\ x % q \in 0..q-1 /\ x = q * (x \div q) + (x % q)
OBVIOUS

\* Products of positive numbers are positive.
LEMMA ProductNat ==
  ASSUME NEW p \in Nat \ {0}, NEW q \in Nat \ {0}
  PROVE  p * q \in Nat \ {0}
OBVIOUS

\* Dividing twice is dividing by the product.
LEMMA DivDiv ==
  ASSUME NEW x \in Nat, NEW p \in Nat \ {0}, NEW q \in Nat \ {0}
  PROVE  x \div (p * q) = (x \div p) \div q
<1>1. PICK a \in Nat : a = x \div p
  BY DivMod
<1>2. PICK r \in 0..p-1 : x = p * a + r
  BY <1>1, DivMod
<1>3. PICK u \in Nat : u = a \div q
  BY DivMod
<1>4. PICK v \in 0..q-1 : a = q * u + v
  BY <1>3, DivMod
<1>5. PICK s \in Nat \ {0} : s = p * q
  BY ProductNat
<1>6. PICK w \in Nat : w = p * v + r
  OBVIOUS
<1>7. x = s * u + w
  <2>1. p * a = p * (q * u) + p * v
    BY <1>4
  <2>2. p * (q * u) = (p * q) * u
    OBVIOUS
  <2> QED
    BY <1>2, <1>5, <1>6, <2>1, <2>2
<1>8. w < s
  <2>1. PICK k \in Nat \ {0} : v + k = q
    <3>1. q - v \in Nat \ {0} /\ v + (q - v) = q
      OBVIOUS
    <3> QED
      BY <3>1
  <2>2. p * q = p * v + p * k
    BY <2>1
  <2>3. p * k >= p
    OBVIOUS
  <2>4. p * v \in Nat /\ p * k \in Nat
    OBVIOUS
  <2> QED
    BY <1>5, <1>6, <2>2, <2>3, <2>4
<1>9. w \in 0..s-1
  BY <1>8, <1>5, <1>6
<1>10. x \div s = u
  BY <1>7, <1>9, <1>5, DivIs
<1> QED
  BY <1>1, <1>3, <1>5, <1>10

\* A positive factor can be cancelled.
LEMMA TimesInjective ==
  ASSUME NEW p \in Nat \ {0}, NEW a \in Int, NEW b \in Int, p * a = p * b
  PROVE  a = b
<1>1. PICK x \in Int : x = p * a
  OBVIOUS
<1>2. 0 \in 0..p-1 /\ x = p * a + 0 /\ x = p * b + 0
  BY <1>1
<1>3. x \div p = a
  BY <1>2, DivIs
<1>4. x \div p = b
  BY <1>2, DivIs
<1> QED
  BY <1>3, <1>4

-----------------------------------------------------------------------------
\* The first d bits of an address, as a number.
Lead(ip, d) == ip \div Pow(ADDR_BITS - d)

\* The number of addresses with a prefix of length d.
LEMMA DepthPow ==
  ASSUME NEW d \in 0..ADDR_BITS
  PROVE  Pow(ADDR_BITS - d) \in Nat \ {0}
<1>1. ADDR_BITS - d \in Nat
  BY Bits
<1> QED
  BY <1>1, PowNat

\* The range of the addresses.
LEMMA AddrIs ==
  /\ \A ip : ip \in Addr <=> ip \in Nat /\ ip < Pow(ADDR_BITS)
  /\ Pow(ADDR_BITS) \in Nat \ {0}
<1>1. Pow(ADDR_BITS) \in Nat \ {0}
  BY Bits, PowNat
<1>2. Addr = 0 .. Pow(ADDR_BITS) - 1
  BY DEF Addr, Pow
<1> QED
  BY <1>1, <1>2

\* mask_ip keeps the leading bits of an address, as a multiple of the block size.
LEMMA MaskIs ==
  ASSUME NEW ip \in Addr, NEW d \in 0..ADDR_BITS
  PROVE  /\ Lead(ip, d) \in Nat
         /\ mask_ip(ip, d) = Pow(ADDR_BITS - d) * Lead(ip, d)
         /\ mask_ip(ip, d) \in Addr
<1>1. PICK p \in Nat \ {0} : p = Pow(ADDR_BITS - d)
  BY DepthPow
<1>2. ip \in Nat /\ ip < Pow(ADDR_BITS) /\ Pow(ADDR_BITS) \in Nat
  BY AddrIs
<1>3. mask_ip(ip, d) = ip - (ip % p)
  BY <1>1 DEF mask_ip, Pow
<1>4. PICK u \in Nat : u = ip \div p
  BY <1>2, DivMod
<1>5. PICK r \in 0..p-1 : r = ip % p /\ ip = p * u + r
  BY <1>2, <1>4, DivMod
<1>6. Lead(ip, d) = u
  BY <1>1, <1>4 DEF Lead
<1>7. mask_ip(ip, d) = p * u /\ p * u \in Nat /\ p * u <= ip
  BY <1>3, <1>5
<1>8. mask_ip(ip, d) \in Addr
  BY <1>2, <1>7, AddrIs
<1> QED
  BY <1>1, <1>6, <1>7, <1>8

\* Two addresses share a prefix iff their leading bits are the same.
LEMMA SameMask ==
  ASSUME NEW ip \in Addr, NEW jp \in Addr, NEW d \in 0..ADDR_BITS
  PROVE  mask_ip(ip, d) = mask_ip(jp, d) <=> Lead(ip, d) = Lead(jp, d)
<1>1. PICK p \in Nat \ {0} : p = Pow(ADDR_BITS - d)
  BY DepthPow
<1>2. PICK a \in Nat : a = Lead(ip, d) /\ mask_ip(ip, d) = p * a
  BY <1>1, MaskIs
<1>3. PICK b \in Nat : b = Lead(jp, d) /\ mask_ip(jp, d) = p * b
  BY <1>1, MaskIs
<1>4. p * a = p * b => a = b
  BY TimesInjective
<1> QED
  BY <1>2, <1>3, <1>4

\* The leading bits of the leading bits.
LEMMA LeadCoarser ==
  ASSUME NEW ip \in Addr, NEW a \in 0..ADDR_BITS, NEW b \in 0..ADDR_BITS, b <= a
  PROVE  Lead(ip, b) = Lead(ip, a) \div Pow(a - b)
<1>1. PICK m \in Nat : m = ADDR_BITS - a
  BY Bits
<1>2. PICK n \in Nat : n = a - b
  BY Bits
<1>3. ADDR_BITS - b = m + n
  BY <1>1, <1>2, Bits
<1>4. Pow(m + n) = Pow(m) * Pow(n) /\ Pow(m) \in Nat \ {0} /\ Pow(n) \in Nat \ {0}
  BY PowSum, PowNat
<1>5. ip \in Nat
  BY AddrIs
<1>6. ip \div (Pow(m) * Pow(n)) = (ip \div Pow(m)) \div Pow(n)
  BY <1>4, <1>5, DivDiv
<1> QED
  BY <1>1, <1>2, <1>3, <1>4, <1>6 DEF Lead

\* The leading bits that masking keeps.
LEMMA LeadOfMask ==
  ASSUME NEW ip \in Addr, NEW a \in 0..ADDR_BITS, NEW b \in 0..ADDR_BITS, b <= a
  PROVE  Lead(mask_ip(ip, a), b) = Lead(ip, b)
<1>1. PICK p \in Nat \ {0} : p = Pow(ADDR_BITS - a)
  BY DepthPow
<1>2. PICK u \in Nat : u = Lead(ip, a)
  BY MaskIs
<1>3. PICK x \in Addr : x = mask_ip(ip, a)
  BY MaskIs
<1>4. x = p * u + 0 /\ 0 \in 0..p-1 /\ x \in Int
  <2>1. x = p * u
    BY <1>1, <1>2, <1>3, MaskIs
  <2>2. x \in Nat
    BY AddrIs
  <2> QED
    BY <2>1, <2>2
<1>5. x \div p = u
  BY <1>4, DivIs
<1>6. Lead(x, a) = u
  BY <1>1, <1>5 DEF Lead
<1>7. Lead(x, b) = Lead(x, a) \div Pow(a - b) /\ Lead(ip, b) = Lead(ip, a) \div Pow(a - b)
  BY LeadCoarser
<1> QED
  BY <1>2, <1>3, <1>6, <1>7

\* Masking twice keeps the shorter of the two prefixes.
LEMMA MaskOfMask ==
  ASSUME NEW ip \in Addr, NEW a \in 0..ADDR_BITS, NEW b \in 0..ADDR_BITS, b <= a
  PROVE  mask_ip(mask_ip(ip, a), b) = mask_ip(ip, b)
<1>1. mask_ip(ip, a) \in Addr
  BY MaskIs
<1> QED
  BY <1>1, LeadOfMask, SameMask

\* Addresses with a prefix in common have its shorter prefixes in common.
LEMMA CoarserMask ==
  ASSUME NEW ip \in Addr, NEW jp \in Addr, NEW a \in 0..ADDR_BITS, NEW b \in 0..ADDR_BITS,
         b <= a, mask_ip(ip, a) = mask_ip(jp, a)
  PROVE  mask_ip(ip, b) = mask_ip(jp, b)
<1>1. mask_ip(ip, b) = mask_ip(mask_ip(ip, a), b)
  BY MaskOfMask
<1>2. mask_ip(jp, b) = mask_ip(mask_ip(jp, a), b)
  BY MaskOfMask
<1> QED
  BY <1>1, <1>2

-----------------------------------------------------------------------------
(* The levels of the tables.                                               *)

\* The bits an address has been followed through before level l is indexed,
\* and the number of bits level l is indexed with.
Start(l) == IF l = 0 THEN 0 ELSE bits_covered(l-1)
Width(l) == IF l = 0 THEN TBL24_BITS ELSE TBL8_BITS

\* Where the levels start, from bit 0 to the last one.
LEMMA Starts ==
  /\ Start(0) = 0 /\ Start(LEVELS+1) = ADDR_BITS /\ LEVELS \in Nat
  /\ \A l \in 0 .. LEVELS+1 : Start(l) \in 0..ADDR_BITS
  /\ \A l \in 0..LEVELS : /\ Start(l+1) = bits_covered(l)
                          /\ Start(l+1) = Start(l) + Width(l)
                          /\ Width(l) \in Nat \ {0}
  /\ \A k, l \in 0 .. LEVELS+1 : k < l <=> Start(k) < Start(l)
<1>1. LEVELS \in Nat /\ TBL24_BITS \in Nat \ {0} /\ TBL8_BITS \in Nat \ {0}
  BY Lpm6Assumption
<1>2. Start(0) = 0 /\ \A l \in 1 .. LEVELS+1 : l # 0 /\ l-1 \in 0..LEVELS /\ Start(l) = bits_covered(l-1)
  BY <1>1 DEF Start
<1>3. Start(LEVELS+1) = ADDR_BITS
  BY <1>1, <1>2, Bits
<1>4. \A l \in 0..LEVELS : Start(l+1) = bits_covered(l)
  BY <1>1 DEF Start
<1>5. ASSUME NEW l \in 0 .. LEVELS+1
      PROVE  Start(l) \in 0..ADDR_BITS
  <2>1. l = 0 \/ l \in 1 .. LEVELS+1
    BY <1>1
  <2> QED
    BY <2>1, <1>2, Bits
<1>6. ASSUME NEW l \in 0..LEVELS
      PROVE  Start(l+1) = Start(l) + Width(l) /\ Width(l) \in Nat \ {0}
  <2>1. CASE l = 0
    BY <2>1, <1>1, <1>2, <1>4, Bits DEF Width
  <2>2. CASE l # 0
    <3>1. l \in 1..LEVELS /\ l \in 1 .. LEVELS+1
      BY <2>2, <1>1
    <3>2. Width(l) = TBL8_BITS
      BY <2>2 DEF Width
    <3> QED
      BY <3>1, <3>2, <1>1, <1>2, <1>4, Bits
  <2> QED
    BY <2>1, <2>2
<1>7. ASSUME NEW k \in 0 .. LEVELS+1, NEW l \in 0 .. LEVELS+1
      PROVE  k < l <=> Start(k) < Start(l)
  <2>1. CASE k = 0 /\ l = 0
    BY <2>1, <1>2
  <2>2. CASE k = 0 /\ l # 0
    <3>1. l \in 1 .. LEVELS+1
      BY <2>2, <1>1
    <3>2. Start(l) \in 1..ADDR_BITS
      BY <3>1, <1>2, Bits
    <3> QED
      BY <2>2, <3>1, <3>2, <1>2, Bits
  <2>3. CASE k # 0 /\ l = 0
    <3>1. k \in 1 .. LEVELS+1
      BY <2>3, <1>1
    <3>2. Start(k) \in 1..ADDR_BITS
      BY <3>1, <1>2, Bits
    <3> QED
      BY <2>3, <3>1, <3>2, <1>2, Bits
  <2>4. CASE k # 0 /\ l # 0
    <3>1. k \in 1 .. LEVELS+1 /\ l \in 1 .. LEVELS+1
      BY <2>4, <1>1
    <3>2. k-1 < l-1 <=> bits_covered(k-1) < bits_covered(l-1)
      BY <3>1, <1>2, Bits
    <3>3. k < l <=> k-1 < l-1
      BY <1>1
    <3> QED
      BY <3>1, <3>2, <3>3, <1>2
  <2> QED
    BY <2>1, <2>2, <2>3, <2>4
<1> QED
  BY <1>1, <1>2, <1>3, <1>4, <1>5, <1>6, <1>7

\* The first d bits are a number of d bits.
LEMMA LeadBound ==
  ASSUME NEW ip \in Addr, NEW d \in 0..ADDR_BITS
  PROVE  Lead(ip, d) \in Nat /\ Lead(ip, d) < Pow(d) /\ Lead(ip, 0) = 0
<1>1. ADDR_BITS \in Nat /\ 0 \in 0..ADDR_BITS /\ d \in Nat
  BY Bits
<1>2. ip \in Nat /\ ip < Pow(ADDR_BITS) /\ Pow(ADDR_BITS) \in Nat \ {0}
  BY AddrIs
<1>3. Lead(ip, 0) = 0
  <2>1. PICK p \in Nat \ {0} : p = Pow(ADDR_BITS)
    BY <1>2
  <2>2. ip = p * 0 + ip /\ ip \in 0..p-1
    BY <1>2, <2>1
  <2>3. ip \div p = 0
    BY <1>2, <2>1, <2>2, DivIs
  <2>4. ADDR_BITS - 0 = ADDR_BITS
    BY <1>1
  <2> QED
    BY <2>1, <2>3, <2>4 DEF Lead
<1>4. PICK u \in Nat : u = Lead(ip, d)
  BY MaskIs
<1>5. PICK q \in Nat \ {0} : q = Pow(d)
  BY <1>1, PowNat
<1>6. u \div q = 0
  <2>1. Lead(ip, 0) = Lead(ip, d) \div Pow(d - 0) /\ d - 0 = d
    BY <1>1, LeadCoarser
  <2> QED
    BY <1>3, <1>4, <1>5, <2>1
<1>7. PICK r \in 0..q-1 : u = q * 0 + r
  <2>1. u % q \in 0..q-1 /\ u = q * (u \div q) + (u % q)
    BY DivMod
  <2> QED
    BY <1>6, <2>1
<1>8. u < q
  BY <1>7
<1> QED
  BY <1>3, <1>4, <1>5, <1>8

\* An index is the part of an address between two starts.
LEMMA IndexIs ==
  ASSUME NEW ip \in Addr, NEW l \in 0..LEVELS
  PROVE  /\ Pow(Width(l)) \in Nat \ {0}
         /\ tbl_index(ip, l) \in 0 .. Pow(Width(l)) - 1
         /\ Lead(ip, Start(l)) \in Nat
         /\ Lead(ip, Start(l+1)) = Pow(Width(l)) * Lead(ip, Start(l)) + tbl_index(ip, l)
<1>1. Start(l) \in 0..ADDR_BITS /\ Start(l+1) \in 0..ADDR_BITS /\ Start(l+1) = bits_covered(l)
      /\ Start(l+1) = Start(l) + Width(l) /\ Width(l) \in Nat
  BY Starts
<1>2. PICK q \in Nat \ {0} : q = Pow(Width(l))
  BY <1>1, PowNat
<1>3. PICK x \in Nat : x = Lead(ip, Start(l+1))
  BY <1>1, MaskIs
<1>4. tbl_index(ip, l) = x % q
  <2>1. tbl_index(ip, l) = (ip \div Pow(ADDR_BITS - bits_covered(l))) % Pow(Width(l))
    BY DEF tbl_index, Pow, Width
  <2> QED
    BY <1>1, <1>2, <1>3, <2>1 DEF Lead
<1>5. Lead(ip, Start(l)) = x \div q
  <2>1. Start(l) <= Start(l+1) /\ Start(l+1) - Start(l) = Width(l)
    BY <1>1, Bits
  <2> QED
    BY <1>1, <1>2, <1>3, <2>1, LeadCoarser
<1>6. x % q \in 0..q-1 /\ x = q * (x \div q) + (x % q) /\ x \div q \in Nat
  BY DivMod
<1> QED
  BY <1>2, <1>3, <1>4, <1>5, <1>6

\* Addresses that share a table and its index share the next table.
LEMMA SamePrefix ==
  ASSUME NEW ip \in Addr, NEW jp \in Addr, NEW l \in 0..LEVELS
  PROVE  mask_ip(ip, Start(l+1)) = mask_ip(jp, Start(l+1)) <=>
           /\ mask_ip(ip, Start(l)) = mask_ip(jp, Start(l))
           /\ tbl_index(ip, l) = tbl_index(jp, l)
<1>1. Start(l) \in 0..ADDR_BITS /\ Start(l+1) \in 0..ADDR_BITS
  BY Starts
<1>2. PICK q \in Nat \ {0} : q = Pow(Width(l))
  BY IndexIs
<1>3. PICK i \in 0..q-1 : i = tbl_index(ip, l)
  BY <1>2, IndexIs
<1>4. PICK u \in Nat : u = Lead(ip, Start(l)) /\ Lead(ip, Start(l+1)) = q * u + i
  BY <1>2, <1>3, IndexIs
<1>5. PICK j \in 0..q-1 : j = tbl_index(jp, l)
  BY <1>2, IndexIs
<1>6. PICK v \in Nat : v = Lead(jp, Start(l)) /\ Lead(jp, Start(l+1)) = q * v + j
  BY <1>2, <1>5, IndexIs
<1>7. q * u + i = q * v + j <=> u = v /\ i = j
  <2>1. PICK x \in Nat : x = q * u + i
    OBVIOUS
  <2>2. x \div q = u /\ x % q = i
    BY <2>1, DivIs
  <2>3. x = q * v + j => x \div q = v /\ x % q = j
    BY DivIs
  <2> QED
    BY <2>1, <2>2, <2>3
<1> QED
  BY <1>1, <1>3, <1>4, <1>5, <1>6, <1>7, SameMask

\* Every entry of a table is that of some address.
LEMMA Realise ==
  ASSUME NEW jp \in Addr, NEW l \in 0..LEVELS, NEW i \in 0 .. Pow(Width(l)) - 1
  PROVE  \E ip \in Addr : /\ mask_ip(ip, Start(l)) = mask_ip(jp, Start(l))
                          /\ tbl_index(ip, l) = i
<1>1. Start(l) \in 0..ADDR_BITS /\ Start(l+1) \in 0..ADDR_BITS
      /\ Start(l+1) = Start(l) + Width(l) /\ Width(l) \in Nat /\ Start(l) \in Nat
  BY Starts
<1>2. PICK q \in Nat \ {0} : q = Pow(Width(l))
  BY IndexIs
<1>3. PICK u \in Nat : u = Lead(jp, Start(l)) /\ u < Pow(Start(l))
  BY <1>1, LeadBound
<1>4. PICK s \in Nat \ {0} : s = Pow(Start(l))
  BY <1>1, PowNat
<1>5. PICK p \in Nat \ {0} : p = Pow(ADDR_BITS - Start(l+1))
  BY <1>1, DepthPow
<1>6. PICK b \in Nat \ {0} : b = Pow(Start(l+1)) /\ b = s * q /\ Pow(ADDR_BITS) = p * b
  <2>1. Start(l+1) \in Nat /\ ADDR_BITS - Start(l+1) \in Nat
        /\ ADDR_BITS - Start(l+1) + Start(l+1) = ADDR_BITS
    BY <1>1, Bits
  <2>2. Pow(Start(l+1)) \in Nat \ {0}
    BY <2>1, PowNat
  <2>3. Pow(Start(l) + Width(l)) = Pow(Start(l)) * Pow(Width(l))
    BY <1>1, PowSum
  <2>4. Pow(ADDR_BITS - Start(l+1) + Start(l+1)) = Pow(ADDR_BITS - Start(l+1)) * Pow(Start(l+1))
    BY <2>1, PowSum
  <2> QED
    BY <1>1, <1>2, <1>4, <1>5, <2>1, <2>2, <2>3, <2>4
<1>7. PICK x \in Nat : x = q * u + i /\ i \in Nat
  BY <1>2
<1>8. x < b
  <2>1. u + 1 <= s
    BY <1>3, <1>4
  <2>2. PICK k \in Nat : u + 1 + k = s
    <3>1. s - (u + 1) \in Nat /\ u + 1 + (s - (u+1)) = s
      BY <2>1
    <3> QED
      BY <3>1
  <2>3. s * q = q * u + q + q * k
    BY <2>2
  <2>4. q * k \in Nat /\ q * u \in Nat /\ i < q
    BY <1>2
  <2> QED
    BY <1>6, <1>7, <2>3, <2>4
<1>9. PICK ip \in Nat : ip = p * x
  OBVIOUS
<1>10. ip < p * b
  <2>1. PICK k \in Nat \ {0} : x + k = b
    <3>1. b - x \in Nat \ {0} /\ x + (b - x) = b
      BY <1>8
    <3> QED
      BY <3>1
  <2>2. p * b = p * x + p * k /\ p * k > 0 /\ p * k \in Nat
    BY <2>1
  <2> QED
    BY <1>9, <2>2
<1>11. ip \in Addr
  BY <1>6, <1>10, AddrIs
<1>12. Lead(ip, Start(l+1)) = x
  <2>1. ip = p * x + 0 /\ 0 \in 0..p-1
    BY <1>9
  <2>2. ip \div p = x
    BY <2>1, DivIs
  <2> QED
    BY <1>5, <2>2 DEF Lead
<1>13. PICK v \in Nat : v = Lead(ip, Start(l))
  BY <1>11, <1>1, MaskIs
<1>14. PICK j \in 0..q-1 : j = tbl_index(ip, l) /\ x = q * v + j
  BY <1>2, <1>11, <1>12, <1>13, IndexIs
<1>15. u = v /\ i = j
  <2>1. Divided(x, q, u, i)
    BY <1>2, <1>7 DEF Divided
  <2>2. Divided(x, q, v, j)
    BY <1>14 DEF Divided
  <2>3. x \in Int
    OBVIOUS
  <2> QED
    BY <2>1, <2>2, <2>3, OneDivision
<1> QED
  BY <1>1, <1>3, <1>11, <1>13, <1>14, <1>15, SameMask

\* The entries that a rule covers in its last table.
LEMMA Covered ==
  ASSUME NEW p \in Addr, NEW d \in Depth, NEW l \in 0..LEVELS, mask_ip(p, d) = p,
         Start(l) < d, d <= bits_covered(l)
  PROVE  /\ Pow(bits_covered(l) - d) \in Nat \ {0}
         /\ tbl_index(p, l) + Pow(bits_covered(l) - d) <= Pow(Width(l))
         /\ \A ip \in Addr : mask_ip(ip, Start(l)) = mask_ip(p, Start(l)) =>
              (mask_ip(ip, d) = p <=>
                 tbl_index(ip, l) \in tbl_index(p, l) .. tbl_index(p, l) + Pow(bits_covered(l) - d) - 1)
<1>1. Start(l) \in 0..ADDR_BITS /\ Start(l+1) \in 0..ADDR_BITS /\ Start(l+1) = bits_covered(l)
      /\ Start(l+1) = Start(l) + Width(l) /\ Width(l) \in Nat /\ Start(l) \in Nat /\ d \in 0..ADDR_BITS
  BY Starts, Bits DEF Depth
<1>2. PICK e \in Nat : e = bits_covered(l) - d
  BY <1>1
<1>3. PICK c \in Nat \ {0} : c = Pow(e)
  BY PowNat
<1>4. PICK q \in Nat \ {0} : q = Pow(Width(l))
  BY IndexIs
<1>5. PICK j \in 0..q-1 : j = tbl_index(p, l)
  BY <1>4, IndexIs
<1>6. PICK u \in Nat : u = Lead(p, Start(l))
  BY <1>1, MaskIs
<1>7. PICK y \in Nat : y = Lead(p, Start(l+1)) /\ y = q * u + j
  BY <1>1, <1>4, <1>5, <1>6, IndexIs, MaskIs
<1>8. PICK v \in Nat : v = Lead(p, d)
  BY <1>1, MaskIs
<1>9. y = c * v
  <2>1. PICK a \in Nat \ {0} : a = Pow(ADDR_BITS - Start(l+1))
    BY <1>1, DepthPow
  <2>2. Pow(ADDR_BITS - d) = a * c
    <3>1. ADDR_BITS - Start(l+1) \in Nat /\ ADDR_BITS - d = (ADDR_BITS - Start(l+1)) + e
      BY <1>1, <1>2, Bits
    <3> QED
      BY <2>1, <1>3, <3>1, PowSum
  <2>3. p = (a * c) * v
    BY <1>1, <1>8, <2>2, MaskIs
  <2>4. PICK z \in Nat : z = c * v
    OBVIOUS
  <2>5. p = a * z + 0 /\ 0 \in 0..a-1 /\ p \in Int
    <3>1. (a * c) * v = a * (c * v)
      OBVIOUS
    <3>2. p \in Nat
      BY AddrIs
    <3> QED
      BY <2>3, <2>4, <3>1, <3>2
  <2>6. p \div a = z
    BY <2>5, DivIs
  <2> QED
    BY <1>7, <2>1, <2>4, <2>6 DEF Lead
<1>10. j + c <= q
  <2>1. PICK n \in Nat : n = Width(l) - e
    BY <1>1, <1>2
  <2>2. PICK m \in Nat \ {0} : m = Pow(n)
    BY PowNat
  <2>3. q = c * m
    <3>1. Width(l) = e + n
      BY <1>1, <2>1
    <3> QED
      BY <1>3, <1>4, <2>2, <3>1, PowSum
  <2>4. PICK t \in Int : t = v - m * u
    OBVIOUS
  <2>5. j = c * t
    <3>1. j = c * v - (c * m) * u
      BY <1>7, <1>9, <2>3
    <3>2. c * (v - m * u) = c * v - (c * m) * u
      OBVIOUS
    <3> QED
      BY <3>1, <3>2, <2>4
  <2>6. t < m
    <3> SUFFICES ASSUME ~(t < m) PROVE FALSE
      OBVIOUS
    <3>1. PICK k \in Nat : t = m + k
      <4>1. t - m \in Nat /\ t = m + (t - m)
        OBVIOUS
      <4> QED
        BY <4>1
    <3>2. c * t = c * m + c * k /\ c * k \in Nat
      BY <3>1
    <3> QED
      BY <2>3, <2>5, <3>2
  <2>7. PICK k \in Nat : t + 1 + k = m
    <3>1. m - (t + 1) \in Nat /\ t + 1 + (m - (t + 1)) = m
      BY <2>6
    <3> QED
      BY <3>1
  <2>8. c * m = c * t + c + c * k /\ c * k \in Nat /\ c * t \in Int
    BY <2>7
  <2> QED
    BY <2>3, <2>5, <2>8
<1>11. ASSUME NEW ip \in Addr, mask_ip(ip, Start(l)) = mask_ip(p, Start(l))
       PROVE  mask_ip(ip, d) = p <=> tbl_index(ip, l) \in j .. j + c - 1
  <2>1. Lead(ip, Start(l)) = u
    BY <1>1, <1>6, <1>11, SameMask
  <2>2. PICK i \in 0..q-1 : i = tbl_index(ip, l)
    BY <1>4, IndexIs
  <2>3. PICK x \in Nat : x = Lead(ip, Start(l+1)) /\ x = q * u + i
    BY <1>1, <1>4, <2>1, <2>2, IndexIs, MaskIs
  <2>4. Lead(ip, d) = x \div c
    <3>1. d <= Start(l+1) /\ Start(l+1) - d = e
      BY <1>1, <1>2
    <3> QED
      BY <1>1, <1>3, <2>3, <3>1, LeadCoarser
  <2>5. mask_ip(ip, d) = p <=> x \div c = v
    BY <1>1, <1>8, <2>4, SameMask
  <2>6. PICK w \in Int : w = x - y
    OBVIOUS
  <2>7. w = i - j
    <3>1. q * u \in Nat
      OBVIOUS
    <3> QED
      BY <1>7, <2>3, <2>6, <3>1
  <2>8. w \in 0..c-1 => x \div c = v
    <3>1. x = c * v + w
      BY <1>9, <2>6
    <3> QED
      BY <3>1, DivIs
  <2>9. x \div c = v => w \in 0..c-1
    <3>1. x % c \in 0..c-1 /\ x = c * (x \div c) + (x % c)
      BY DivMod
    <3>2. c * v \in Nat
      OBVIOUS
    <3> QED
      BY <3>1, <3>2, <1>9, <2>6
  <2>10. w \in 0..c-1 <=> i \in j .. j + c - 1
    BY <2>7
  <2> QED
    BY <2>2, <2>5, <2>8, <2>9, <2>10
<1> QED
  BY <1>2, <1>3, <1>4, <1>5, <1>10, <1>11

-----------------------------------------------------------------------------
(* Places: which prefixes have a table.                                    *)

\* Every nonempty set of naturals has a least element.
LEMMA LeastNumber ==
  ASSUME NEW T, T \subseteq Nat, T # {}
  PROVE  \E x \in T : \A y \in T : x <= y
<1> DEFINE R == OpToRel(<, Nat)
<1>1. IsWellFoundedOn(R, Nat)
  BY NatLessThanWellFounded
<1> HIDE DEF R
<1>2. PICK x \in T : \A y \in T : ~(<<y, x>> \in R)
  BY <1>1, WFMin
<1>3. \A y \in T : ~(y < x)
  BY <1>2 DEF R, OpToRel
<1> QED
  BY <1>3

Level == 0..LEVELS

\* The table that an address is followed to at level l, as the prefix that
\* all addresses followed to it share.
Place(ip, l) == <<l, mask_ip(ip, Start(l))>>

\* f gives the tables of the places that have one.
In(f, ip, l) == Place(ip, l) \in DOMAIN f
TableOf(f, ip, l) == f[Place(ip, l)]
Cell(t, f, ip, l) == t[TableOf(f, ip, l)][tbl_index(ip, l)]

\* The facts on levels that the proofs use.
LEMMA Levels ==
  /\ LEVELS \in Nat /\ 0 \in Level /\ LEVELS \in Level
  /\ \A l \in Level : l \in Nat /\ l <= LEVELS /\ Start(l) \in 0..ADDR_BITS /\ Start(l+1) \in 0..ADDR_BITS
                      /\ Start(l+1) = bits_covered(l) /\ Start(l) < Start(l+1)
  /\ \A k, l \in Level : k < l => Start(k+1) <= Start(l)
<1>1. LEVELS \in Nat
  BY Starts
<1>2. ASSUME NEW l \in Level
      PROVE  l \in Nat /\ l <= LEVELS /\ l \in 0 .. LEVELS+1 /\ l+1 \in 0 .. LEVELS+1 /\ l < l+1
  BY <1>1 DEF Level
<1>3. ASSUME NEW l \in Level
      PROVE  /\ l \in Nat /\ l <= LEVELS /\ Start(l) \in 0..ADDR_BITS /\ Start(l+1) \in 0..ADDR_BITS
             /\ Start(l+1) = bits_covered(l) /\ Start(l) < Start(l+1)
  BY <1>2, Starts DEF Level
<1>4. ASSUME NEW k \in Level, NEW l \in Level, k < l
      PROVE  Start(k+1) <= Start(l)
  <2>1. k+1 < l \/ k+1 = l
    BY <1>2, <1>4
  <2>2. Start(k+1) \in 0..ADDR_BITS /\ Start(l) \in 0..ADDR_BITS
    BY <1>3
  <2> QED
    BY <2>1, <2>2, <1>2, Starts, Bits
<1> QED
  BY <1>1, <1>3, <1>4 DEF Level

\* Places are the same when their levels and prefixes are.
LEMMA PlaceIs ==
  ASSUME NEW ip, NEW jp, NEW l, NEW m
  PROVE  Place(ip, l) = Place(jp, m) <=> l = m /\ mask_ip(ip, Start(l)) = mask_ip(jp, Start(m))
BY DEF Place

\* Addresses at one place have been at the same ones before.
LEMMA PlaceUp ==
  ASSUME NEW ip \in Addr, NEW jp \in Addr, NEW l \in Level, NEW k \in Level, k <= l,
         Place(ip, l) = Place(jp, l)
  PROVE  Place(ip, k) = Place(jp, k)
<1>1. Start(k) \in 0..ADDR_BITS /\ Start(l) \in 0..ADDR_BITS /\ Start(k) <= Start(l)
  BY Levels, Bits
<1>2. mask_ip(ip, Start(l)) = mask_ip(jp, Start(l))
  BY PlaceIs
<1>3. mask_ip(ip, Start(k)) = mask_ip(jp, Start(k))
  BY <1>1, <1>2, CoarserMask
<1> QED
  BY <1>3, PlaceIs

\* The place after this one is given by the index.
LEMMA PlaceDown ==
  ASSUME NEW ip \in Addr, NEW jp \in Addr, NEW l \in Level
  PROVE  Place(ip, l+1) = Place(jp, l+1) <=>
           Place(ip, l) = Place(jp, l) /\ tbl_index(ip, l) = tbl_index(jp, l)
BY PlaceIs, SamePrefix DEF Level

\* Addresses at the same place share the prefixes that end before it.
LEMMA PlaceMask ==
  ASSUME NEW ip \in Addr, NEW jp \in Addr, NEW l \in 0 .. LEVELS+1, NEW d \in 0..ADDR_BITS,
         d <= Start(l), Place(ip, l) = Place(jp, l)
  PROVE  mask_ip(ip, d) = mask_ip(jp, d)
<1>1. Start(l) \in 0..ADDR_BITS
  BY Starts
<1>2. mask_ip(ip, Start(l)) = mask_ip(jp, Start(l))
  BY PlaceIs
<1> QED
  BY <1>1, <1>2, CoarserMask

\* An address with a rule's prefix is where the rule is, up to the rule's end.
LEMMA MaskPlace ==
  ASSUME NEW ip \in Addr, NEW jp \in Addr, NEW l \in 0 .. LEVELS+1, NEW d \in 0..ADDR_BITS,
         Start(l) <= d, mask_ip(ip, d) = mask_ip(jp, d)
  PROVE  Place(ip, l) = Place(jp, l)
<1>1. Start(l) \in 0..ADDR_BITS
  BY Starts
<1>2. mask_ip(ip, Start(l)) = mask_ip(jp, Start(l))
  BY <1>1, CoarserMask
<1> QED
  BY <1>2, PlaceIs

-----------------------------------------------------------------------------
\* The places form a tree with tbl24 at its root, and f numbers the others
\* from 0 to n-1.
Root(f)      == \A ip \in Addr : In(f, ip, 0) /\ TableOf(f, ip, 0) = TBL24
Places(f)    == \A x \in DOMAIN f : \E ip \in Addr, l \in Level : x = Place(ip, l)
Closed(f)    == \A ip \in Addr, k, l \in Level : In(f, ip, l) /\ k <= l => In(f, ip, k)
Numbers(f, n) == \A ip \in Addr, l \in Level : In(f, ip, l) /\ l # 0 => TableOf(f, ip, l) \in 0..n-1
OneToOne(f)  == \A ip, jp \in Addr, l, m \in Level :
                  /\ In(f, ip, l) /\ In(f, jp, m)
                  /\ TableOf(f, ip, l) = TableOf(f, jp, m)
                  => Place(ip, l) = Place(jp, m)
Onto(f, n)   == \A g \in 0..n-1 : \E ip \in Addr, l \in Level :
                  l # 0 /\ In(f, ip, l) /\ TableOf(f, ip, l) = g

Tree(f, n) ==
  /\ n \in 0..number_tbl8s
  /\ Root(f) /\ Places(f) /\ Closed(f) /\ Numbers(f, n) /\ OneToOne(f) /\ Onto(f, n)

TablesOK(t, n) ==
  /\ DOMAIN t = Table
  /\ \A g \in Table : t[g] \in [Index(g) -> Entry]
  /\ \A g \in Group : g >= n => t[g] = Zeroed[g]

Applies(r, ip, l) == r.depth <= bits_covered(l) /\ mask_ip(ip, r.depth) = r.ip

\* The entry of level l for ip, where no rule goes deeper.
Holds(R, ip, l, e) ==
  /\ e.ext_entry = FALSE
  /\ e.valid => \E r \in R : /\ Applies(r, ip, l)
                             /\ e.depth = r.depth /\ e.next_hop = r.next_hop
                             /\ \A q \in R : Applies(q, ip, l) => q.depth <= r.depth
  /\ ~e.valid => \A q \in R : ~Applies(q, ip, l)

Contents(t, f, R) ==
  \A ip \in Addr, l \in Level : In(f, ip, l) =>
    IF In(f, ip, l+1) THEN Cell(t, f, ip, l) = Ext(TableOf(f, ip, l+1))
    ELSE Holds(R, ip, l, Cell(t, f, ip, l))

\* Every rule has its tables, and no other table is there.
Room(f, R) == \A r \in R, l \in Level : Start(l) < r.depth => In(f, r.ip, l)
Tight(f, R) ==
  \A ip \in Addr, l \in Level : In(f, ip, l) /\ l # 0 =>
    \E r \in R : Start(l) < r.depth /\ Place(ip, l) = Place(r.ip, l)

RulesOK(R) ==
  /\ R \subseteq Rule
  /\ \A r \in R : mask_ip(r.ip, r.depth) = r.ip
  /\ \A q, r \in R : q.ip = r.ip /\ q.depth = r.depth => q = r

Good(t, n, R, f) == Tree(f, n) /\ TablesOK(t, n) /\ Contents(t, f, R) /\ Room(f, R)

\* Addresses at the same place have the same table.
LEMMA SameIn ==
  ASSUME NEW f, NEW ip, NEW jp, NEW l, NEW m, Place(ip, l) = Place(jp, m)
  PROVE  (In(f, ip, l) <=> In(f, jp, m)) /\ TableOf(f, ip, l) = TableOf(f, jp, m)
BY DEF In, TableOf

\* Only the levels have places.
LEMMA InLevel ==
  ASSUME NEW f, NEW n, Tree(f, n), NEW ip \in Addr, NEW l, In(f, ip, l)
  PROVE  l \in Level
<1>1. \E jp \in Addr, m \in Level : Place(ip, l) = Place(jp, m)
  BY DEF Tree, Places, In
<1> QED
  BY <1>1, PlaceIs

\* The table of a place, and the index of an address in it, are in range.
LEMMA TableOfIs ==
  ASSUME NEW f, NEW n, Tree(f, n), NEW ip \in Addr, NEW l \in Level, In(f, ip, l)
  PROVE  /\ TableOf(f, ip, l) \in Table
         /\ TableOf(f, ip, l) \in Int /\ TableOf(f, ip, l) < n
         /\ Index(TableOf(f, ip, l)) = 0 .. Pow(Width(l)) - 1
         /\ tbl_index(ip, l) \in Index(TableOf(f, ip, l))
<1>1. n \in 0..number_tbl8s /\ number_tbl8s \in Nat
  BY Lpm6Assumption DEF Tree
<1>2. CASE l = 0
  <2>1. TableOf(f, ip, l) = TBL24 /\ TBL24 = -1
    BY <1>2 DEF Tree, Root, TBL24
  <2>2. Index(TBL24) = 0 .. Pow(Width(l)) - 1
    BY <1>2 DEF Index, Pow, Width
  <2> QED
    BY <1>1, <2>1, <2>2, IndexIs DEF Table, Level
<1>3. CASE l # 0
  <2>1. TableOf(f, ip, l) \in 0..n-1
    BY <1>3 DEF Tree, Numbers
  <2>2. TableOf(f, ip, l) # TBL24 /\ TableOf(f, ip, l) \in Group
    BY <1>1, <2>1 DEF TBL24, Group
  <2>3. Index(TableOf(f, ip, l)) = 0 .. Pow(Width(l)) - 1
    BY <1>3, <2>2 DEF Index, Pow, Width
  <2> QED
    BY <1>1, <2>1, <2>2, <2>3, IndexIs DEF Table, Level
<1> QED
  BY <1>2, <1>3

\* Every entry of a table in use is the cell of an address.
LEMMA CellOf ==
  ASSUME NEW t, NEW f, NEW n, Tree(f, n), NEW jp \in Addr, NEW l \in Level, In(f, jp, l),
         NEW i \in Index(TableOf(f, jp, l))
  PROVE  \E ip \in Addr : /\ Place(ip, l) = Place(jp, l) /\ tbl_index(ip, l) = i
                          /\ In(f, ip, l) /\ TableOf(f, ip, l) = TableOf(f, jp, l)
                          /\ Cell(t, f, ip, l) = t[TableOf(f, jp, l)][i]
<1>1. i \in 0 .. Pow(Width(l)) - 1
  BY TableOfIs
<1>2. PICK ip \in Addr : mask_ip(ip, Start(l)) = mask_ip(jp, Start(l)) /\ tbl_index(ip, l) = i
  BY <1>1, Realise DEF Level
<1>3. Place(ip, l) = Place(jp, l)
  BY <1>2, PlaceIs
<1> QED
  BY <1>2, <1>3, SameIn DEF Cell

\* What an entry says of the tree.
LEMMA ExtMeans ==
  ASSUME NEW t, NEW f, NEW n, NEW R, Good(t, n, R, f), NEW ip \in Addr, NEW l \in Level, In(f, ip, l)
  PROVE  /\ Cell(t, f, ip, l) \in Entry
         /\ Cell(t, f, ip, l).ext_entry <=> In(f, ip, l+1)
         /\ In(f, ip, l+1) => /\ Cell(t, f, ip, l).valid
                              /\ Cell(t, f, ip, l).next_hop = TableOf(f, ip, l+1)
                              /\ l+1 \in Level
<1>1. Tree(f, n) /\ TablesOK(t, n) /\ Contents(t, f, R)
  BY DEF Good
<1>2. Cell(t, f, ip, l) \in Entry
  <2>1. TableOf(f, ip, l) \in Table /\ tbl_index(ip, l) \in Index(TableOf(f, ip, l))
    BY <1>1, TableOfIs
  <2> QED
    BY <1>1, <2>1 DEF TablesOK, Cell
<1>3. In(f, ip, l+1) => Cell(t, f, ip, l) = Ext(TableOf(f, ip, l+1)) /\ l+1 \in Level
  BY <1>1, InLevel DEF Contents
<1>4. ~In(f, ip, l+1) => Cell(t, f, ip, l).ext_entry = FALSE
  BY <1>1 DEF Contents, Holds
<1> QED
  BY <1>2, <1>3, <1>4 DEF Ext

-----------------------------------------------------------------------------
(* The groups below the entries of a rule.                                 *)

\* The groups under some entries are those of the places below.
LEMMA ChildrenAre ==
  ASSUME NEW t, NEW f, NEW n, NEW R, Good(t, n, R, f),
         NEW jp \in Addr, NEW l \in Level, In(f, jp, l),
         NEW is, is \subseteq Index(TableOf(f, jp, l)), NEW x
  PROVE  x \in Children(t, TableOf(f, jp, l), is) <=>
           \E ip \in Addr : /\ Place(ip, l) = Place(jp, l) /\ tbl_index(ip, l) \in is
                            /\ In(f, ip, l+1) /\ TableOf(f, ip, l+1) = x
<1>0. Tree(f, n)
  BY DEF Good
<1>1. PICK g : g = TableOf(f, jp, l)
  OBVIOUS
<1>2. x \in Children(t, g, is) <=> \E i \in is : t[g][i].ext_entry /\ x = t[g][i].next_hop
  BY DEF Children
<1>3. ASSUME NEW i \in is, t[g][i].ext_entry, x = t[g][i].next_hop
      PROVE  \E ip \in Addr : /\ Place(ip, l) = Place(jp, l) /\ tbl_index(ip, l) \in is
                              /\ In(f, ip, l+1) /\ TableOf(f, ip, l+1) = x
  <2>1. PICK ip \in Addr : /\ Place(ip, l) = Place(jp, l) /\ tbl_index(ip, l) = i
                           /\ In(f, ip, l) /\ Cell(t, f, ip, l) = t[g][i]
    BY <1>0, <1>1, CellOf
  <2>2. In(f, ip, l+1) /\ x = TableOf(f, ip, l+1)
    BY <1>3, <2>1, ExtMeans
  <2> QED
    BY <2>1, <2>2
<1>4. ASSUME NEW ip \in Addr, Place(ip, l) = Place(jp, l), tbl_index(ip, l) \in is,
             In(f, ip, l+1), TableOf(f, ip, l+1) = x
      PROVE  \E i \in is : t[g][i].ext_entry /\ x = t[g][i].next_hop
  <2>1. In(f, ip, l) /\ TableOf(f, ip, l) = g
    BY <1>1, <1>4, SameIn
  <2>2. Cell(t, f, ip, l).ext_entry /\ Cell(t, f, ip, l).next_hop = x
    BY <1>4, <2>1, ExtMeans
  <2>3. Cell(t, f, ip, l) = t[g][tbl_index(ip, l)]
    BY <2>1 DEF Cell
  <2> QED
    BY <1>4, <2>2, <2>3
<1> QED
  BY <1>1, <1>2, <1>3, <1>4

-----------------------------------------------------------------------------
Grown(t, gs, f, n) ==
  IF n = 0 THEN gs
  ELSE f[n-1] \union UNION {Children(t, g, Index(g)) : g \in f[n-1]}

\* The recursive function of Below exists.
LEMMA GrownExists ==
  ASSUME NEW t, NEW gs, NEW m \in Nat
  PROVE  \E f : f = [n \in 0..m |-> Grown(t, gs, f, n)]
<1> DEFINE T == {k \in Nat : ~\E f : f = [n \in 0..k |-> Grown(t, gs, f, n)]}
<1> SUFFICES ASSUME T # {} PROVE FALSE
  OBVIOUS
<1>1. PICK k \in T : \A y \in T : k <= y
  BY LeastNumber
<1>2. k \in Nat /\ ~\E f : f = [n \in 0..k |-> Grown(t, gs, f, n)]
  BY <1>1
<1>3. CASE k = 0
  <2> DEFINE e == [n \in 0..0 |-> gs]
  <2>1. e = [n \in 0..k |-> Grown(t, gs, e, n)]
    BY <1>3 DEF Grown
  <2> QED
    BY <1>2, <2>1
<1>4. CASE k # 0
  <2>1. k - 1 \in Nat /\ k - 1 \notin T
    BY <1>1, <1>2, <1>4
  <2>2. PICK f : f = [n \in 0 .. k-1 |-> Grown(t, gs, f, n)]
    BY <2>1
  <2> DEFINE e == [n \in 0..k |-> IF n = k THEN Grown(t, gs, f, k) ELSE f[n]]
  <2>3. ASSUME NEW n \in 0..k
        PROVE  e[n] = Grown(t, gs, e, n)
    <3>1. n # 0 => n-1 \in 0 .. k-1 /\ e[n-1] = f[n-1]
      BY <1>2
    <3>2. Grown(t, gs, e, n) = Grown(t, gs, f, n)
      BY <3>1 DEF Grown
    <3>3. n # k => n \in 0 .. k-1 /\ f[n] = Grown(t, gs, f, n)
      BY <1>2, <2>2
    <3> QED
      BY <3>2, <3>3
  <2>4. e = [n \in 0..k |-> Grown(t, gs, e, n)]
    BY <2>3
  <2> QED
    BY <1>2, <2>4
<1> QED
  BY <1>3, <1>4

\* Below, by levels.
LEMMA BelowIs ==
  ASSUME NEW t, NEW gs
  PROVE  \E u : /\ Below(t, gs) = u[LEVELS] /\ u[0] = gs
                /\ \A k \in 1..LEVELS : u[k] = u[k-1] \union UNION {Children(t, g, Index(g)) : g \in u[k-1]}
<1> DEFINE u == CHOOSE f : f = [n \in 0..LEVELS |-> Grown(t, gs, f, n)]
<1>0. LEVELS \in Nat
  BY Lpm6Assumption
<1>1. u = [n \in 0..LEVELS |-> Grown(t, gs, u, n)]
  BY <1>0, GrownExists
<1>2. Below(t, gs) = u[LEVELS]
  BY DEF Below, Grown
<1> HIDE DEF u
<1>3. u[0] = gs
  BY <1>0, <1>1 DEF Grown
<1>4. ASSUME NEW k \in 1..LEVELS
      PROVE  u[k] = u[k-1] \union UNION {Children(t, g, Index(g)) : g \in u[k-1]}
  <2>1. k \in 0..LEVELS /\ k # 0
    BY <1>0
  <2> QED
    BY <2>1, <1>1 DEF Grown
<1> QED
  BY <1>2, <1>3, <1>4

-----------------------------------------------------------------------------
\* The rule fits level l: it ends in the bits that level is indexed with.
Ends(r, l) == Start(l) < r.depth /\ r.depth <= bits_covered(l)

Masked(r) == r \in Rule /\ mask_ip(r.ip, r.depth) = r.ip

\* The entries of level l that the rule covers.
Span(r, l) == tbl_index(r.ip, l) .. tbl_index(r.ip, l) + 2^(bits_covered(l) - r.depth) - 1

\* The fields of a rule are in their ranges.
LEMMA RuleIs ==
  ASSUME NEW r, Masked(r)
  PROVE  r.ip \in Addr /\ r.depth \in Depth /\ r.depth \in 0..ADDR_BITS /\ r.depth \in Nat
         /\ r.next_hop \in NextHops /\ r.next_hop \in Nat /\ r.depth # 0
         /\ mask_ip(r.ip, r.depth) = r.ip
<1>1. r.ip \in Addr /\ r.depth \in Depth /\ r.next_hop \in NextHops /\ mask_ip(r.ip, r.depth) = r.ip
  BY DEF Masked, Rule
<1>2. r.depth \in 0..ADDR_BITS /\ r.depth \in Nat /\ r.depth # 0
  BY <1>1, Bits DEF Depth
<1> QED
  BY <1>1, <1>2, Lpm6Assumption

\* The entries that a rule covers are those of the addresses it matches.
LEMMA SpanIs ==
  ASSUME NEW f, NEW n, Tree(f, n), NEW r, Masked(r), NEW l \in Level, Ends(r, l), In(f, r.ip, l)
  PROVE  /\ Span(r, l) \subseteq Index(TableOf(f, r.ip, l))
         /\ \A ip \in Addr : Place(ip, l) = Place(r.ip, l) =>
              (mask_ip(ip, r.depth) = r.ip <=> tbl_index(ip, l) \in Span(r, l))
<1>1. PICK p \in Addr : p = r.ip
  BY RuleIs
<1>2. PICK d \in Depth : d = r.depth
  BY RuleIs
<1>3. PICK c \in Nat \ {0} : c = Pow(bits_covered(l) - d)
  BY <1>1, <1>2, RuleIs, Covered DEF Ends, Level
<1>4. Pow(Width(l)) \in Nat /\ tbl_index(p, l) \in 0 .. Pow(Width(l)) - 1
  BY IndexIs DEF Level
<1>5. tbl_index(p, l) + c <= Pow(Width(l))
  BY <1>1, <1>2, <1>3, RuleIs, Covered DEF Ends, Level
<1>6. Span(r, l) = tbl_index(p, l) .. tbl_index(p, l) + c - 1
  BY <1>1, <1>2, <1>3 DEF Span, Pow
<1>7. Index(TableOf(f, r.ip, l)) = 0 .. Pow(Width(l)) - 1
  BY <1>1, TableOfIs
<1>8. Span(r, l) \subseteq Index(TableOf(f, r.ip, l))
  BY <1>4, <1>5, <1>6, <1>7
<1>9. ASSUME NEW ip \in Addr, Place(ip, l) = Place(r.ip, l)
      PROVE  mask_ip(ip, r.depth) = r.ip <=> tbl_index(ip, l) \in Span(r, l)
  <2>1. mask_ip(ip, Start(l)) = mask_ip(p, Start(l))
    BY <1>1, <1>9, PlaceIs
  <2>2. mask_ip(p, d) = p /\ Start(l) < d /\ d <= bits_covered(l) /\ l \in 0..LEVELS
    BY <1>1, <1>2, RuleIs DEF Ends, Level
  <2>3. mask_ip(ip, d) = p <=> tbl_index(ip, l) \in tbl_index(p, l) .. tbl_index(p, l) + Pow(bits_covered(l) - d) - 1
    BY <2>1, <2>2, Covered
  <2> QED
    BY <1>1, <1>2, <1>3, <1>6, <2>3
<1> QED
  BY <1>8, <1>9

\* A table of level m that only addresses of the rule are followed to.
Under(f, r, m, x) ==
  \E ip \in Addr : In(f, ip, m) /\ mask_ip(ip, r.depth) = r.ip /\ TableOf(f, ip, m) = x

\* The groups right under the entries of a rule.
LEMMA FirstBelow ==
  ASSUME NEW t, NEW f, NEW n, NEW R, Good(t, n, R, f),
         NEW r, Masked(r), NEW l \in Level, Ends(r, l), In(f, r.ip, l), NEW x
  PROVE  x \in Children(t, TableOf(f, r.ip, l), Span(r, l)) <=> Under(f, r, l+1, x)
<1>0. Tree(f, n) /\ r.ip \in Addr
  BY RuleIs DEF Good
<1>1. Span(r, l) \subseteq Index(TableOf(f, r.ip, l))
  BY <1>0, SpanIs
<1>2. x \in Children(t, TableOf(f, r.ip, l), Span(r, l)) <=>
        \E ip \in Addr : /\ Place(ip, l) = Place(r.ip, l) /\ tbl_index(ip, l) \in Span(r, l)
                         /\ In(f, ip, l+1) /\ TableOf(f, ip, l+1) = x
  BY <1>0, <1>1, ChildrenAre
<1>3. \A ip \in Addr : mask_ip(ip, r.depth) = r.ip => Place(ip, l) = Place(r.ip, l)
  <2> SUFFICES ASSUME NEW ip \in Addr, mask_ip(ip, r.depth) = r.ip
               PROVE  Place(ip, l) = Place(r.ip, l)
    OBVIOUS
  <2>1. mask_ip(ip, r.depth) = mask_ip(r.ip, r.depth) /\ r.depth \in 0..ADDR_BITS
    BY RuleIs
  <2>2. Start(l) <= r.depth /\ l \in 0 .. LEVELS+1
    BY Levels, RuleIs DEF Ends, Level
  <2> QED
    BY <1>0, <2>1, <2>2, MaskPlace
<1>4. \A ip \in Addr : Place(ip, l) = Place(r.ip, l) /\ tbl_index(ip, l) \in Span(r, l)
                         <=> mask_ip(ip, r.depth) = r.ip
  BY <1>0, <1>3, SpanIs
<1> QED
  BY <1>2, <1>4 DEF Under

\* The groups one level further down.
LEMMA OneBelow ==
  ASSUME NEW t, NEW f, NEW n, NEW R, Good(t, n, R, f),
         NEW r, Masked(r), NEW m \in Level, r.depth <= Start(m), NEW x
  PROVE  (\E g : Under(f, r, m, g) /\ x \in Children(t, g, Index(g))) <=> Under(f, r, m+1, x)
<1>0. Tree(f, n) /\ r.ip \in Addr
  BY RuleIs DEF Good
<1>1. ASSUME NEW g, Under(f, r, m, g), x \in Children(t, g, Index(g))
      PROVE  Under(f, r, m+1, x)
  <2>1. PICK jp \in Addr : In(f, jp, m) /\ mask_ip(jp, r.depth) = r.ip /\ TableOf(f, jp, m) = g
    BY <1>1 DEF Under
  <2>2. PICK ip \in Addr : Place(ip, m) = Place(jp, m) /\ In(f, ip, m+1) /\ TableOf(f, ip, m+1) = x
    BY <1>1, <2>1, ChildrenAre
  <2>3. m \in 0 .. LEVELS+1 /\ r.depth \in 0..ADDR_BITS
    BY Levels, RuleIs DEF Level
  <2>4. mask_ip(ip, r.depth) = r.ip
    BY <2>1, <2>2, <2>3, PlaceMask
  <2> QED
    BY <2>2, <2>4 DEF Under
<1>2. ASSUME Under(f, r, m+1, x)
      PROVE  \E g : Under(f, r, m, g) /\ x \in Children(t, g, Index(g))
  <2>1. PICK ip \in Addr : In(f, ip, m+1) /\ mask_ip(ip, r.depth) = r.ip /\ TableOf(f, ip, m+1) = x
    BY <1>2 DEF Under
  <2>2. m+1 \in Level /\ m <= m+1
    BY <1>0, <2>1, InLevel, Levels
  <2>3. In(f, ip, m)
    BY <1>0, <2>1, <2>2 DEF Tree, Closed
  <2>4. tbl_index(ip, m) \in Index(TableOf(f, ip, m))
    BY <1>0, <2>3, TableOfIs
  <2>5. x \in Children(t, TableOf(f, ip, m), Index(TableOf(f, ip, m)))
    BY <2>1, <2>3, <2>4, ChildrenAre
  <2> QED
    BY <2>1, <2>3, <2>5 DEF Under
<1> QED
  BY <1>1, <1>2

\* The groups below the entries of a rule: those of the addresses it matches.
LEMMA BelowAre ==
  ASSUME NEW t, NEW f, NEW n, NEW R, Good(t, n, R, f),
         NEW r, Masked(r), NEW l \in Level, Ends(r, l), In(f, r.ip, l), NEW x
  PROVE  x \in Below(t, Children(t, TableOf(f, r.ip, l), Span(r, l))) <=>
           \E m \in Level : l < m /\ Under(f, r, m, x)
<1>0. Tree(f, n) /\ r.ip \in Addr /\ l \in Nat /\ LEVELS \in Nat
  BY RuleIs, Levels DEF Good
<1>1. PICK gs : gs = Children(t, TableOf(f, r.ip, l), Span(r, l))
  OBVIOUS
<1>2. PICK u : /\ Below(t, gs) = u[LEVELS] /\ u[0] = gs
               /\ \A k \in 1..LEVELS : u[k] = u[k-1] \union UNION {Children(t, g, Index(g)) : g \in u[k-1]}
  BY BelowIs
<1> DEFINE P(k) == \A y : y \in u[k] <=> \E m \in Level : l < m /\ m <= l+1+k /\ Under(f, r, m, y)
<1>u. \A m, y : Under(f, r, m, y) => m \in Level
  BY <1>0, InLevel DEF Under
<1>3. P(0)
  <2>1. ASSUME NEW y
        PROVE  y \in u[0] <=> \E m \in Level : l < m /\ m <= l+1+0 /\ Under(f, r, m, y)
    <3>1. y \in u[0] <=> Under(f, r, l+1, y)
      BY <1>1, <1>2, FirstBelow
    <3>2. \A m \in Level : l < m /\ m <= l+1+0 <=> m = l+1
      BY <1>0, Levels
    <3> QED
      BY <1>u, <3>1, <3>2
  <2> QED
    BY <2>1
<1>4. ASSUME NEW k \in 1..LEVELS, P(k-1)
      PROVE  P(k)
  <2>1. ASSUME NEW y
        PROVE  y \in u[k] <=> \E m \in Level : l < m /\ m <= l+1+k /\ Under(f, r, m, y)
    <3>1. y \in u[k] <=> y \in u[k-1] \/ \E g \in u[k-1] : y \in Children(t, g, Index(g))
      BY <1>2
    <3>2. ASSUME NEW m \in Level, l < m
          PROVE  (\E g : Under(f, r, m, g) /\ y \in Children(t, g, Index(g))) <=> Under(f, r, m+1, y)
      <4>1. r.depth <= Start(m)
        <5>1. Start(l+1) <= Start(m) /\ Start(l+1) = bits_covered(l) /\ Start(m) \in 0..ADDR_BITS
              /\ Start(l+1) \in 0..ADDR_BITS
          BY <3>2, Levels
        <5> QED
          BY <5>1, RuleIs, Bits DEF Ends
      <4> QED
        BY <4>1, OneBelow
    <3>3. (\E g \in u[k-1] : y \in Children(t, g, Index(g))) <=>
            \E m \in Level : l < m /\ m <= l+1+(k-1) /\ Under(f, r, m+1, y)
      BY <1>4, <3>2
    <3>4. ASSUME NEW m \in Level, l < m, m <= l+1+k, Under(f, r, m, y)
          PROVE  y \in u[k]
      <4>1. CASE m <= l+1+(k-1)
        BY <1>4, <3>1, <3>4, <4>1
      <4>2. CASE ~(m <= l+1+(k-1))
        <5>1. m-1 \in Level /\ l < m-1 /\ m-1 <= l+1+(k-1) /\ (m-1)+1 = m
          BY <1>0, <3>4, <4>2, Levels DEF Level
        <5> QED
          BY <3>1, <3>3, <3>4, <5>1
      <4> QED
        BY <4>1, <4>2
    <3>5. ASSUME y \in u[k]
          PROVE  \E m \in Level : l < m /\ m <= l+1+k /\ Under(f, r, m, y)
      <4>1. CASE y \in u[k-1]
        <5>1. PICK m \in Level : l < m /\ m <= l+1+(k-1) /\ Under(f, r, m, y)
          BY <1>4, <4>1
        <5>2. m <= l+1+k
          BY <1>0, <5>1, Levels
        <5> QED
          BY <5>1, <5>2
      <4>2. CASE y \notin u[k-1]
        <5>1. PICK m \in Level : l < m /\ m <= l+1+(k-1) /\ Under(f, r, m+1, y)
          BY <3>1, <3>3, <3>5, <4>2
        <5>2. m+1 \in Level /\ l < m+1 /\ m+1 <= l+1+k
          BY <1>0, <1>u, <5>1, Levels
        <5> QED
          BY <5>1, <5>2
      <4> QED
        BY <4>1, <4>2
    <3> QED
      BY <3>4, <3>5
  <2> QED
    BY <2>1
<1> HIDE DEF P
<1>5. P(LEVELS)
  <2> DEFINE T == {k \in 0..LEVELS : ~P(k)}
  <2> SUFFICES ASSUME T # {} PROVE FALSE
    BY <1>0
  <2>1. PICK k \in T : \A y \in T : k <= y
    <3>1. T \subseteq Nat
      OBVIOUS
    <3> QED
      BY <3>1, LeastNumber
  <2>2. k \in 0..LEVELS /\ ~P(k)
    BY <2>1
  <2>3. k # 0
    BY <1>3, <2>2
  <2>4. k \in 1..LEVELS /\ k-1 \in 0..LEVELS /\ k-1 \notin T
    BY <1>0, <2>1, <2>2, <2>3
  <2>5. P(k-1)
    BY <2>4
  <2> QED
    BY <1>4, <2>2, <2>4, <2>5
<1>6. \A m \in Level : m <= l+1+LEVELS
  BY <1>0, Levels
<1> QED
  BY <1>1, <1>2, <1>5, <1>6 DEF P

-----------------------------------------------------------------------------
(* expand_rule and the last add_step.                                      *)

\* A table belongs to one place.
LEMMA OnePlace ==
  ASSUME NEW f, NEW n, Tree(f, n), NEW ip \in Addr, NEW jp \in Addr, NEW l \in Level, NEW m \in Level,
         In(f, ip, l), In(f, jp, m), TableOf(f, ip, l) = TableOf(f, jp, m)
  PROVE  Place(ip, l) = Place(jp, m)
BY DEF Tree, OneToOne

\* What Fill does to an entry.
LEMMA FillIs ==
  ASSUME NEW t, NEW g, NEW is, NEW d, NEW h, NEW x \in Table, NEW j \in Index(x), NEW e, e = t[x][j]
  PROVE  Fill(t, g, is, d, h)[x][j] =
           IF x \in Below(t, Children(t, g, is)) \/ (x = g /\ j \in is) THEN Overwrite(e, d, h) ELSE e
BY DEF Fill

\* Filling changes the cells of the rule, and no others.
LEMMA FillCell ==
  ASSUME NEW t, NEW f, NEW n, NEW R, Good(t, n, R, f),
         NEW r, Masked(r), NEW l \in Level, Ends(r, l), In(f, r.ip, l),
         NEW ip \in Addr, NEW m \in Level, In(f, ip, m),
         NEW s, s = Fill(t, TableOf(f, r.ip, l), Span(r, l), r.depth, r.next_hop)
  PROVE  Cell(s, f, ip, m) = IF Applies(r, ip, m) THEN Overwrite(Cell(t, f, ip, m), r.depth, r.next_hop)
                             ELSE Cell(t, f, ip, m)
<1>0. Tree(f, n) /\ r.ip \in Addr /\ r.depth \in 0..ADDR_BITS /\ r.depth \in Nat
  BY RuleIs DEF Good
<1>1. PICK x : x = TableOf(f, ip, m)
  OBVIOUS
<1>2. PICK j : j = tbl_index(ip, m)
  OBVIOUS
<1>3. x \in Table /\ j \in Index(x)
  BY <1>0, <1>1, <1>2, TableOfIs
<1>4. PICK g : g = TableOf(f, r.ip, l)
  OBVIOUS
<1>5. Cell(t, f, ip, m) = t[x][j] /\ Cell(s, f, ip, m) = s[x][j]
  BY <1>1, <1>2 DEF Cell
<1>6. x \in Below(t, Children(t, g, Span(r, l))) <=> \E k \in Level : l < k /\ Under(f, r, k, x)
  BY <1>4, BelowAre
<1>7. r.depth <= Start(l+1) /\ Start(l) < r.depth /\ m \in 0 .. LEVELS+1 /\ l \in 0 .. LEVELS+1
      /\ Start(m+1) = bits_covered(m) /\ Start(m+1) \in 0..ADDR_BITS /\ Start(l+1) \in 0..ADDR_BITS
      /\ Start(m) \in 0..ADDR_BITS /\ Start(l) \in 0..ADDR_BITS /\ Start(m) < Start(m+1)
      /\ Start(l+1) = bits_covered(l)
  BY Levels DEF Ends, Level
<1>8. ASSUME NEW k \in Level, l < k, Under(f, r, k, x)
      PROVE  Applies(r, ip, m)
  <2>1. PICK jp \in Addr : In(f, jp, k) /\ mask_ip(jp, r.depth) = r.ip /\ TableOf(f, jp, k) = x
    BY <1>8 DEF Under
  <2>2. Place(jp, k) = Place(ip, m)
    BY <1>0, <1>1, <2>1, OnePlace
  <2>3. k = m
    BY <2>2, PlaceIs
  <2>4. Start(l+1) <= Start(m)
    BY <1>8, <2>3, Levels
  <2>5. r.depth <= Start(m)
    BY <1>0, <1>7, <2>4, Bits
  <2>6. mask_ip(ip, r.depth) = r.ip
    BY <1>0, <1>7, <2>1, <2>2, <2>3, <2>5, PlaceMask
  <2> QED
    BY <1>0, <1>7, <2>5, <2>6, Bits DEF Applies
<1>9. ASSUME x = g, j \in Span(r, l)
      PROVE  Applies(r, ip, m)
  <2>0. PICK jp \in Addr : jp = r.ip /\ In(f, jp, l) /\ TableOf(f, jp, l) = TableOf(f, ip, m)
    BY <1>0, <1>1, <1>4, <1>9
  <2>1. Place(ip, m) = Place(r.ip, l)
    BY <1>0, <2>0, OnePlace
  <2>2. m = l
    BY <2>1, PlaceIs
  <2>3. mask_ip(ip, r.depth) = r.ip
    BY <1>0, <1>2, <1>9, <2>1, <2>2, SpanIs
  <2> QED
    BY <1>7, <2>2, <2>3 DEF Applies
<1>10. ASSUME Applies(r, ip, m)
       PROVE  (\E k \in Level : l < k /\ Under(f, r, k, x)) \/ (x = g /\ j \in Span(r, l))
  <2>1. r.depth <= Start(m+1) /\ mask_ip(ip, r.depth) = r.ip
    BY <1>7, <1>10 DEF Applies
  <2>2. ~(m < l)
    <3> SUFFICES ASSUME m < l PROVE FALSE
      OBVIOUS
    <3>1. Start(m+1) <= Start(l)
      BY Levels
    <3> QED
      BY <1>0, <1>7, <2>1, <3>1, Bits
  <2>3. CASE m = l
    <3>1. mask_ip(ip, r.depth) = mask_ip(r.ip, r.depth) /\ Start(l) <= r.depth
      BY <1>0, <1>7, <2>1, RuleIs, Bits
    <3>2. Place(ip, l) = Place(r.ip, l)
      BY <1>0, <1>7, <3>1, MaskPlace
    <3>3. x = g
      BY <1>1, <1>4, <2>3, <3>2, SameIn
    <3>4. j \in Span(r, l)
      BY <1>0, <1>2, <2>1, <2>3, <3>2, SpanIs
    <3> QED
      BY <3>3, <3>4
  <2>4. CASE l < m
    BY <1>1, <2>1, <2>4 DEF Under
  <2> QED
    BY <2>2, <2>3, <2>4, Levels
<1>11. PICK e : e = t[x][j]
  OBVIOUS
<1>12. PICK d : d = r.depth
  OBVIOUS
<1>13. PICK h : h = r.next_hop
  OBVIOUS
<1>14. PICK is : is = Span(r, l)
  OBVIOUS
<1>15. s[x][j] = IF x \in Below(t, Children(t, g, is)) \/ (x = g /\ j \in is) THEN Overwrite(e, d, h) ELSE e
  BY <1>3, <1>4, <1>11, <1>12, <1>13, <1>14, FillIs
<1>16. x \in Below(t, Children(t, g, is)) \/ (x = g /\ j \in is) <=> Applies(r, ip, m)
  BY <1>6, <1>8, <1>9, <1>10, <1>14
<1> QED
  BY <1>5, <1>11, <1>12, <1>13, <1>15, <1>16

\* An entry that is overwritten is an entry.
LEMMA OverwriteIs ==
  ASSUME NEW e \in Entry, NEW d \in 0..ADDR_BITS, NEW h \in Nat
  PROVE  Overwrite(e, d, h) \in Entry
BY DEF Overwrite, Leaf, Entry

\* Filling keeps the tables in their ranges.
LEMMA FillTables ==
  ASSUME NEW t, NEW f, NEW n, NEW R, Good(t, n, R, f),
         NEW r, Masked(r), NEW l \in Level, Ends(r, l), In(f, r.ip, l),
         NEW s, s = Fill(t, TableOf(f, r.ip, l), Span(r, l), r.depth, r.next_hop)
  PROVE  TablesOK(s, n)
<1>0. Tree(f, n) /\ r.ip \in Addr /\ r.depth \in 0..ADDR_BITS /\ r.next_hop \in Nat /\ n \in Nat
  BY RuleIs, Lpm6Assumption DEF Good, Tree
<1>t. DOMAIN t = Table /\ (\A g \in Table : t[g] \in [Index(g) -> Entry])
      /\ \A g \in Group : g >= n => t[g] = Zeroed[g]
  BY DEF Good, TablesOK
<1>1. PICK d \in 0..ADDR_BITS : d = r.depth
  BY <1>0
<1>2. PICK h \in Nat : h = r.next_hop
  BY <1>0
<1>3. PICK g : g = TableOf(f, r.ip, l)
  OBVIOUS
<1>4. PICK is : is = Span(r, l)
  OBVIOUS
<1>5. s = Fill(t, g, is, d, h)
  BY <1>1, <1>2, <1>3, <1>4
<1>6. DOMAIN s = Table
  BY <1>5 DEF Fill
<1>7. ASSUME NEW x \in Table
      PROVE  s[x] \in [Index(x) -> Entry]
  <2>1. /\ DOMAIN s[x] = Index(x)
        /\ s[x] = [j \in Index(x) |-> s[x][j]]
    BY <1>5 DEF Fill
  <2>2. ASSUME NEW j \in Index(x)
        PROVE  s[x][j] \in Entry
    <3>1. PICK e \in Entry : e = t[x][j]
      BY <1>t
    <3>2. s[x][j] = Overwrite(e, d, h) \/ s[x][j] = e
      BY <1>5, <3>1, FillIs
    <3> QED
      BY <3>1, <3>2, OverwriteIs
  <2> QED
    BY <2>1, <2>2
<1>8. ASSUME NEW x \in Group, x >= n
      PROVE  s[x] = Zeroed[x]
  <2>1. x \in Table /\ x \in Int
    BY DEF Table, Group
  <2>2. x # g
    BY <1>0, <1>3, <1>8, <2>1, TableOfIs
  <2>3. ~(x \in Below(t, Children(t, g, is)))
    <3> SUFFICES ASSUME NEW m \in Level, Under(f, r, m, x) PROVE FALSE
      BY <1>3, <1>4, BelowAre
    <3>1. PICK ip \in Addr : In(f, ip, m) /\ TableOf(f, ip, m) = x
      BY DEF Under
    <3>2. x < n
      BY <1>0, <3>1, TableOfIs
    <3> QED
      BY <1>0, <1>8, <2>1, <3>2
  <2>4. s[x] = [j \in Index(x) |-> s[x][j]]
    BY <1>5, <2>1 DEF Fill
  <2>5. t[x] = [j \in Index(x) |-> t[x][j]]
    BY <1>t, <2>1
  <2>6. ASSUME NEW j \in Index(x)
        PROVE  s[x][j] = t[x][j]
    <3>1. PICK e : e = t[x][j]
      OBVIOUS
    <3>2. s[x][j] = e
      BY <1>5, <2>1, <2>2, <2>3, <3>1, FillIs
    <3> QED
      BY <3>1, <3>2
  <2>7. s[x] = t[x]
    BY <2>4, <2>5, <2>6
  <2> QED
    BY <1>t, <1>8, <2>7
<1> QED
  BY <1>6, <1>7, <1>8 DEF TablesOK

-----------------------------------------------------------------------------
\* The rules once r is added: it takes the place of a rule for the same prefix.
Replaced(R, r) == {q \in R : ~(q.ip = r.ip /\ q.depth = r.depth)} \union {r}

\* A rule put among rules in the place of one for the same prefix.
LEMMA ReplacedOK ==
  ASSUME NEW R, RulesOK(R), NEW r, Masked(r)
  PROVE  RulesOK(Replaced(R, r))
<1>1. \A q : q \in Replaced(R, r) <=> (q \in R /\ ~(q.ip = r.ip /\ q.depth = r.depth)) \/ q = r
  BY DEF Replaced
<1>2. r \in Rule /\ mask_ip(r.ip, r.depth) = r.ip
  BY DEF Masked
<1> QED
  BY <1>1, <1>2 DEF RulesOK

\* An entry that a rule does not cover holds what it held.
LEMMA HoldsElsewhere ==
  ASSUME NEW R, RulesOK(R), NEW r, Masked(r), NEW ip \in Addr, NEW m \in Level,
         NEW e, Holds(R, ip, m, e), ~Applies(r, ip, m)
  PROVE  Holds(Replaced(R, r), ip, m, e)
<1>1. \A q : q \in Replaced(R, r) <=> (q \in R /\ ~(q.ip = r.ip /\ q.depth = r.depth)) \/ q = r
  BY DEF Replaced
<1>2. \A q : q.ip = r.ip /\ q.depth = r.depth => ~Applies(q, ip, m)
  BY DEF Applies
<1>3. \A q : q \in Replaced(R, r) /\ Applies(q, ip, m) <=> q \in R /\ Applies(q, ip, m)
  BY <1>1, <1>2
<1> HIDE DEF Replaced
<1> QED
  BY <1>3 DEF Holds

\* An entry that a rule covers holds the deepest rule, the new one included.
LEMMA HoldsHere ==
  ASSUME NEW R, RulesOK(R), NEW r, Masked(r), NEW ip \in Addr, NEW m \in Level,
         NEW e \in Entry, Holds(R, ip, m, e), Applies(r, ip, m)
  PROVE  Holds(Replaced(R, r), ip, m, Overwrite(e, r.depth, r.next_hop))
<1>1. \A q : q \in Replaced(R, r) <=> (q \in R /\ ~(q.ip = r.ip /\ q.depth = r.depth)) \/ q = r
  BY DEF Replaced
<1>2. ASSUME NEW q \in R, Applies(q, ip, m), q.depth = r.depth
      PROVE  q.ip = r.ip
  BY <1>2 DEF Applies
<1>3. \A q \in R : q.depth \in Nat
  BY Bits DEF RulesOK, Rule, Depth
<1>4. r.depth \in Nat /\ r.next_hop \in Nat
  BY RuleIs
<1>5. e.ext_entry = FALSE /\ e.valid \in BOOLEAN /\ e.depth \in Nat
  BY Bits DEF Holds, Entry
<1>6. PICK o : o = Overwrite(e, r.depth, r.next_hop)
  OBVIOUS
<1>7. CASE ~e.valid
  <2>1. o.ext_entry = FALSE /\ o.valid /\ o.depth = r.depth /\ o.next_hop = r.next_hop
    BY <1>6, <1>7 DEF Overwrite, Leaf
  <2>2. \A q \in R : ~Applies(q, ip, m)
    BY <1>7 DEF Holds
  <2>3. \A q \in Replaced(R, r) : Applies(q, ip, m) => q.depth <= r.depth
    BY <1>1, <1>4, <2>2
  <2>4. r \in Replaced(R, r)
    BY <1>1
  <2> QED
    BY <1>6, <2>1, <2>3, <2>4 DEF Holds
<1>8. CASE e.valid
  <2>1. PICK p \in R : /\ Applies(p, ip, m) /\ e.depth = p.depth /\ e.next_hop = p.next_hop
                       /\ \A q \in R : Applies(q, ip, m) => q.depth <= p.depth
    BY <1>8 DEF Holds
  <2>2. CASE e.depth <= r.depth
    <3>1. o.ext_entry = FALSE /\ o.valid /\ o.depth = r.depth /\ o.next_hop = r.next_hop
      BY <1>5, <1>6, <2>2 DEF Overwrite, Leaf
    <3>2. \A q \in Replaced(R, r) : Applies(q, ip, m) => q.depth <= r.depth
      BY <1>1, <1>3, <1>4, <2>1, <2>2
    <3>3. r \in Replaced(R, r)
      BY <1>1
    <3> QED
      BY <1>6, <3>1, <3>2, <3>3 DEF Holds
  <2>3. CASE ~(e.depth <= r.depth)
    <3>1. o = e
      BY <1>5, <1>6, <1>8, <2>3 DEF Overwrite
    <3>2. r.depth <= p.depth /\ p.depth # r.depth
      BY <1>3, <1>4, <2>1, <2>3
    <3>3. p \in Replaced(R, r)
      BY <1>1, <3>2
    <3>4. \A q \in Replaced(R, r) : Applies(q, ip, m) => q.depth <= p.depth
      BY <1>1, <2>1, <3>2
    <3> QED
      BY <1>5, <1>6, <1>8, <2>1, <3>1, <3>3, <3>4 DEF Holds
  <2> QED
    BY <2>2, <2>3
<1> QED
  BY <1>5, <1>7, <1>8

\* The last add_step: the rule's entries are filled.
LEMMA FillGood ==
  ASSUME NEW t, NEW f, NEW n, NEW R, Good(t, n, R, f), RulesOK(R),
         NEW r, Masked(r), NEW l \in Level, Ends(r, l), In(f, r.ip, l),
         NEW s, s = Fill(t, TableOf(f, r.ip, l), Span(r, l), r.depth, r.next_hop)
  PROVE  Good(s, n, Replaced(R, r), f)
<1>0. Tree(f, n) /\ Contents(t, f, R) /\ Room(f, R) /\ r.ip \in Addr
  BY RuleIs DEF Good
<1>1. TablesOK(s, n)
  BY FillTables
<1>2. ASSUME NEW ip \in Addr, NEW m \in Level, In(f, ip, m)
      PROVE  IF In(f, ip, m+1) THEN Cell(s, f, ip, m) = Ext(TableOf(f, ip, m+1))
             ELSE Holds(Replaced(R, r), ip, m, Cell(s, f, ip, m))
  <2>1. PICK e \in Entry : e = Cell(t, f, ip, m)
    BY <1>2, ExtMeans
  <2>2. PICK o : o = Cell(s, f, ip, m)
    OBVIOUS
  <2>3. o = IF Applies(r, ip, m) THEN Overwrite(e, r.depth, r.next_hop) ELSE e
    BY <1>2, <2>1, <2>2, FillCell
  <2>4. CASE In(f, ip, m+1)
    <3>1. e = Ext(TableOf(f, ip, m+1))
      BY <1>0, <1>2, <2>1, <2>4 DEF Contents
    <3>2. e.valid /\ e.ext_entry
      BY <3>1 DEF Ext
    <3>3. Overwrite(e, r.depth, r.next_hop) = e
      BY <3>2 DEF Overwrite
    <3>4. o = e
      BY <2>3, <3>3
    <3> QED
      BY <2>2, <2>4, <3>1, <3>4
  <2>5. CASE ~In(f, ip, m+1)
    <3>1. Holds(R, ip, m, e)
      BY <1>0, <1>2, <2>1, <2>5 DEF Contents
    <3>2. CASE Applies(r, ip, m)
      <4>1. o = Overwrite(e, r.depth, r.next_hop)
        BY <2>3, <3>2
      <4>2. Holds(Replaced(R, r), ip, m, o)
        BY <3>1, <3>2, <4>1, HoldsHere
      <4> QED
        BY <2>2, <2>5, <4>2
    <3>3. CASE ~Applies(r, ip, m)
      <4>1. o = e
        BY <2>3, <3>3
      <4>2. Holds(Replaced(R, r), ip, m, o)
        BY <3>1, <3>3, <4>1, HoldsElsewhere
      <4> QED
        BY <2>2, <2>5, <4>2
    <3> QED
      BY <3>2, <3>3
  <2> QED
    BY <2>4, <2>5
<1>3. Contents(s, f, Replaced(R, r))
  BY <1>2 DEF Contents
<1>4. ASSUME NEW k \in Level, Start(k) < r.depth
      PROVE  In(f, r.ip, k)
  <2>1. ~(l < k)
    <3> SUFFICES ASSUME l < k PROVE FALSE
      OBVIOUS
    <3>1. Start(l+1) <= Start(k) /\ Start(l+1) = bits_covered(l) /\ Start(l+1) \in 0..ADDR_BITS
          /\ Start(k) \in 0..ADDR_BITS
      BY Levels
    <3> QED
      BY <1>4, <3>1, RuleIs, Bits DEF Ends
  <2>2. k <= l
    BY <2>1, Levels
  <2> QED
    BY <1>0, <2>2 DEF Tree, Closed
<1>5. Room(f, Replaced(R, r))
  <2>1. \A q : q \in Replaced(R, r) <=> (q \in R /\ ~(q.ip = r.ip /\ q.depth = r.depth)) \/ q = r
    BY DEF Replaced
  <2> QED
    BY <1>0, <1>4, <2>1 DEF Room
<1> QED
  BY <1>0, <1>1, <1>3, <1>5 DEF Good

-----------------------------------------------------------------------------
(* The add_step that takes a new group.                                    *)

\* The tree with one more place, numbered n.
Extended(f, p, n) == [x \in DOMAIN f \union {p} |-> IF x \in DOMAIN f THEN f[x] ELSE n]

\* Its places.
LEMMA ExtendedIs ==
  ASSUME NEW f, NEW rp, NEW k, NEW n, NEW F, F = Extended(f, Place(rp, k), n), NEW ip, NEW m
  PROVE  /\ In(F, ip, m) <=> In(f, ip, m) \/ Place(ip, m) = Place(rp, k)
         /\ In(f, ip, m) => TableOf(F, ip, m) = TableOf(f, ip, m)
         /\ ~In(f, ip, m) /\ Place(ip, m) = Place(rp, k) => TableOf(F, ip, m) = n
BY DEF Extended, In, TableOf

\* It is a tree when the place hangs below one that is there.
LEMMA ExtendedTree ==
  ASSUME NEW f, NEW n, Tree(f, n), n < number_tbl8s, NEW rp \in Addr, NEW l \in Level, l+1 \in Level,
         In(f, rp, l), ~In(f, rp, l+1), NEW F, F = Extended(f, Place(rp, l+1), n)
  PROVE  Tree(F, n+1)
<1>0. n \in Nat /\ number_tbl8s \in Nat /\ n+1 \in 0..number_tbl8s
  BY Lpm6Assumption DEF Tree
<1>t. Root(f) /\ Places(f) /\ Closed(f) /\ Numbers(f, n) /\ OneToOne(f) /\ Onto(f, n)
  BY DEF Tree
<1>1. ASSUME NEW ip \in Addr, NEW m \in Level
      PROVE  /\ In(F, ip, m) <=> In(f, ip, m) \/ Place(ip, m) = Place(rp, l+1)
             /\ In(f, ip, m) => TableOf(F, ip, m) = TableOf(f, ip, m)
             /\ In(F, ip, m) /\ ~In(f, ip, m) => TableOf(F, ip, m) = n /\ m = l+1
  <2>1. Place(ip, m) = Place(rp, l+1) => m = l+1
    BY PlaceIs
  <2> QED
    BY <2>1, ExtendedIs
<1>2. Root(F)
  BY <1>1, <1>t, Levels DEF Root
<1>3. Places(F)
  <2>1. DOMAIN F = DOMAIN f \union {Place(rp, l+1)}
    BY DEF Extended
  <2> QED
    BY <1>t, <2>1 DEF Places
<1>4. Closed(F)
  <2> SUFFICES ASSUME NEW ip \in Addr, NEW k \in Level, NEW m \in Level, In(F, ip, m), k <= m
               PROVE  In(F, ip, k)
    BY DEF Closed
  <2>1. CASE In(f, ip, m)
    BY <1>1, <1>t, <2>1 DEF Closed
  <2>2. CASE ~In(f, ip, m)
    <3>1. Place(ip, m) = Place(rp, m) /\ m = l+1
      BY <1>1, <2>2
    <3>2. k = m \/ k <= l
      BY <3>1, Levels
    <3>3. CASE k <= l
      <4>1. In(f, rp, k)
        BY <1>t, <3>3 DEF Closed
      <4>2. Place(ip, k) = Place(rp, k)
        BY <3>1, PlaceUp
      <4> QED
        BY <1>1, <4>1, <4>2, SameIn
    <3> QED
      BY <3>2, <3>3
  <2> QED
    BY <2>1, <2>2
<1>5. Numbers(F, n+1)
  <2> SUFFICES ASSUME NEW ip \in Addr, NEW m \in Level, In(F, ip, m), m # 0
               PROVE  TableOf(F, ip, m) \in 0 .. (n+1)-1
    BY DEF Numbers
  <2>1. CASE In(f, ip, m)
    <3>1. TableOf(F, ip, m) \in 0..n-1
      BY <1>1, <1>t, <2>1 DEF Numbers
    <3> QED
      BY <1>0, <3>1
  <2>2. CASE ~In(f, ip, m)
    BY <1>0, <1>1, <2>2
  <2> QED
    BY <2>1, <2>2
<1>6. OneToOne(F)
  <2> SUFFICES ASSUME NEW ip \in Addr, NEW jp \in Addr, NEW k \in Level, NEW m \in Level,
                      In(F, ip, k), In(F, jp, m), TableOf(F, ip, k) = TableOf(F, jp, m)
               PROVE  Place(ip, k) = Place(jp, m)
    BY DEF OneToOne
  <2>1. In(f, ip, k) => TableOf(f, ip, k) # n
    BY <1>0, TableOfIs
  <2>2. In(f, jp, m) => TableOf(f, jp, m) # n
    BY <1>0, TableOfIs
  <2>3. CASE In(f, ip, k) /\ In(f, jp, m)
    BY <1>1, <2>3, OnePlace
  <2>4. CASE ~In(f, ip, k) /\ ~In(f, jp, m)
    BY <1>1, <2>4
  <2> QED
    BY <1>1, <2>1, <2>2, <2>3, <2>4
<1>7. Onto(F, n+1)
  <2> SUFFICES ASSUME NEW g \in 0 .. (n+1)-1
               PROVE  \E ip \in Addr, m \in Level : m # 0 /\ In(F, ip, m) /\ TableOf(F, ip, m) = g
    BY DEF Onto
  <2>1. CASE g = n
    <3>1. In(F, rp, l+1) /\ TableOf(F, rp, l+1) = n /\ l+1 # 0
      BY <1>1, Levels
    <3> QED
      BY <2>1, <3>1
  <2>2. CASE g # n
    <3>1. g \in 0..n-1
      BY <1>0, <2>2
    <3>2. PICK ip \in Addr, m \in Level : m # 0 /\ In(f, ip, m) /\ TableOf(f, ip, m) = g
      BY <1>t, <3>1 DEF Onto
    <3> QED
      BY <1>1, <3>2
  <2> QED
    BY <2>1, <2>2
<1> QED
  BY <1>0, <1>2, <1>3, <1>4, <1>5, <1>6, <1>7 DEF Tree

-----------------------------------------------------------------------------
\* What the entries of a new group are set to, for the entry e it is put under.
Moved(t, n, e) == IF e.valid THEN [j \in Index(n) |-> Leaf(e.depth, e.next_hop)] ELSE t[n]

Linked(t, n, g, i, e) == [t EXCEPT ![n] = Moved(t, n, e), ![g][i] = Ext(n)]

Seed(e) == IF e.valid THEN Leaf(e.depth, e.next_hop) ELSE NoEntry

\* The tables with the new group, entry by entry.
LEMMA LinkedIs ==
  ASSUME NEW t, NEW n, TablesOK(t, n), n \in Nat, n < number_tbl8s,
         NEW g \in Table, g < n, NEW i \in Index(g), NEW e \in Entry,
         NEW s, s = Linked(t, n, g, i, e)
  PROVE  /\ TablesOK(s, n+1)
         /\ \A x \in Table : \A j \in Index(x) :
              s[x][j] = IF x = n THEN Seed(e) ELSE IF x = g /\ j = i THEN Ext(n) ELSE t[x][j]
<1>0. number_tbl8s \in Nat /\ n \in Group /\ n \in Table /\ n # g
  <2>1. g \in Int
    BY DEF Table, TBL24, Group
  <2> QED
    BY <2>1, Lpm6Assumption DEF Group, Table
<1>1. PICK v : v = Moved(t, n, e)
  OBVIOUS
<1>2. PICK z : z = Ext(n)
  OBVIOUS
<1>t. /\ DOMAIN t = Table
      /\ \A x \in Table : t[x] \in [Index(x) -> Entry]
      /\ \A x \in Group : x >= n => t[x] = Zeroed[x]
  BY DEF TablesOK
<1>3. s = [t EXCEPT ![n] = v, ![g][i] = z]
  BY <1>1, <1>2 DEF Linked
<1>4. DOMAIN s = Table /\ s[n] = v /\ s[g] = [t[g] EXCEPT ![i] = z] /\ \A x \in Table : x # n /\ x # g => s[x] = t[x]
  BY <1>0, <1>3, <1>t
<1>5. t[n] = Zeroed[n] /\ Zeroed[n] = [j \in Index(n) |-> NoEntry]
  <2>1. n >= n
    OBVIOUS
  <2>2. t[n] = Zeroed[n]
    BY <1>0, <1>t, <2>1
  <2>3. Zeroed[n] = [j \in Index(n) |-> NoEntry]
    BY <1>0 DEF Zeroed
  <2> QED
    BY <2>2, <2>3
<1>6. Seed(e) \in Entry /\ v = [j \in Index(n) |-> Seed(e)]
  <2>1. CASE e.valid
    <3>1. Seed(e) = Leaf(e.depth, e.next_hop)
      BY <2>1 DEF Seed
    <3>2. v = [j \in Index(n) |-> Leaf(e.depth, e.next_hop)]
      BY <1>1, <2>1 DEF Moved
    <3>3. Leaf(e.depth, e.next_hop) \in Entry
      BY DEF Leaf, Entry
    <3> QED
      BY <3>1, <3>2, <3>3
  <2>2. CASE ~e.valid
    <3>1. Seed(e) = NoEntry
      BY <2>2 DEF Seed
    <3>2. v = [j \in Index(n) |-> NoEntry]
      BY <1>1, <1>5, <2>2 DEF Moved
    <3>3. NoEntry \in Entry
      BY Bits DEF NoEntry, Entry
    <3> QED
      BY <3>1, <3>2, <3>3
  <2> QED
    BY <2>1, <2>2
<1>7. z \in Entry
  BY <1>2, Bits DEF Ext, Entry
<1>8. \A x \in Table : s[x] \in [Index(x) -> Entry]
  <2> SUFFICES ASSUME NEW x \in Table PROVE s[x] \in [Index(x) -> Entry]
    OBVIOUS
  <2>1. CASE x = n
    BY <1>4, <1>6, <2>1
  <2>2. CASE x = g
    BY <1>4, <1>7, <1>t, <2>2
  <2>3. CASE x # n /\ x # g
    BY <1>4, <1>t, <2>3
  <2> QED
    BY <2>1, <2>2, <2>3
<1>9. \A x \in Group : x >= n+1 => s[x] = Zeroed[x]
  <2> SUFFICES ASSUME NEW x \in Group, x >= n+1 PROVE s[x] = Zeroed[x]
    OBVIOUS
  <2>1. x \in Table /\ x \in Int /\ g \in Int
    BY DEF Group, Table, TBL24
  <2>2. x # n /\ x # g /\ x >= n
    BY <2>1
  <2> QED
    BY <1>4, <1>t, <2>1, <2>2
<1>10. ASSUME NEW x \in Table, NEW j \in Index(x)
       PROVE  s[x][j] = IF x = n THEN Seed(e) ELSE IF x = g /\ j = i THEN z ELSE t[x][j]
  <2>1. CASE x = n
    BY <1>4, <1>6, <2>1
  <2>2. CASE x = g
    <3>1. DOMAIN t[g] = Index(g)
      BY <1>t
    <3> QED
      BY <1>0, <1>4, <2>2, <3>1
  <2>3. CASE x # n /\ x # g
    BY <1>4, <2>3
  <2> QED
    BY <2>1, <2>2, <2>3
<1> QED
  BY <1>2, <1>4, <1>8, <1>9, <1>10 DEF TablesOK

\* A new group holds what the entry above it held.
LEMMA SeedHolds ==
  ASSUME NEW f, NEW R, RulesOK(R), Room(f, R), NEW rp \in Addr, NEW ip \in Addr,
         NEW l \in Level, l+1 \in Level, ~In(f, rp, l+1), Place(ip, l+1) = Place(rp, l+1),
         NEW e \in Entry, Holds(R, rp, l, e), NEW c, c = Seed(e)
  PROVE  Holds(R, ip, l+1, c)
<1>0. Start(l+1) = bits_covered(l) /\ bits_covered(l) \in 0..ADDR_BITS /\ l+1 \in 0 .. LEVELS+1
      /\ bits_covered(l+1) \in 0..ADDR_BITS /\ bits_covered(l) < bits_covered(l+1)
  <2>1. Start(l+1) = bits_covered(l) /\ bits_covered(l) \in 0..ADDR_BITS /\ l+1 \in 0 .. LEVELS+1
    BY Levels DEF Level
  <2>2. Start((l+1)+1) = bits_covered(l+1) /\ Start((l+1)+1) \in 0..ADDR_BITS /\ Start(l+1) < Start((l+1)+1)
    BY Levels
  <2> QED
    BY <2>1, <2>2
<1>1. ASSUME NEW q \in R
      PROVE  Applies(q, ip, l+1) <=> Applies(q, rp, l)
  <2>1. q.ip \in Addr /\ q.depth \in 0..ADDR_BITS /\ q.depth \in Nat /\ mask_ip(q.ip, q.depth) = q.ip
    BY Bits DEF RulesOK, Rule, Depth
  <2>2. CASE q.depth <= bits_covered(l)
    <3>1. mask_ip(ip, q.depth) = mask_ip(rp, q.depth)
      BY <1>0, <2>1, <2>2, PlaceMask
    <3>2. q.depth <= bits_covered(l+1)
      BY <1>0, <2>1, <2>2, Bits
    <3> QED
      BY <2>2, <3>1, <3>2 DEF Applies
  <2>3. CASE ~(q.depth <= bits_covered(l))
    <3>1. Start(l+1) < q.depth /\ Start(l+1) <= q.depth
      BY <1>0, <2>1, <2>3, Bits
    <3>2. In(f, q.ip, l+1)
      BY <3>1 DEF Room
    <3>3. Place(q.ip, l+1) # Place(rp, l+1)
      BY <3>2, SameIn
    <3>4. mask_ip(ip, q.depth) # q.ip
      <4> SUFFICES ASSUME mask_ip(ip, q.depth) = q.ip PROVE FALSE
        OBVIOUS
      <4>1. PICK jp \in Addr : jp = q.ip
        BY <2>1
      <4>2. PICK d \in 0..ADDR_BITS : d = q.depth
        BY <2>1
      <4>3. mask_ip(ip, d) = mask_ip(jp, d) /\ Start(l+1) <= d
        BY <2>1, <3>1, <4>1, <4>2
      <4>4. Place(ip, l+1) = Place(jp, l+1)
        BY <1>0, <4>3, MaskPlace
      <4> QED
        BY <3>3, <4>1, <4>4
    <3> QED
      BY <2>3, <3>4 DEF Applies
  <2> QED
    BY <2>2, <2>3
<1>2. /\ c.ext_entry = FALSE /\ c.valid = e.valid
      /\ e.valid => c.depth = e.depth /\ c.next_hop = e.next_hop
  <2>1. e.valid \in BOOLEAN
    BY DEF Entry
  <2> QED
    BY <2>1 DEF Seed, Leaf, NoEntry
<1> QED
  BY <1>1, <1>2 DEF Holds

\* An add_step that puts a new group under an entry.
LEMMA LinkGood ==
  ASSUME NEW t, NEW f, NEW n, NEW R, Good(t, n, R, f), RulesOK(R), n < number_tbl8s,
         NEW rp \in Addr, NEW l \in Level, l+1 \in Level, In(f, rp, l), ~In(f, rp, l+1),
         NEW s, s = Linked(t, n, TableOf(f, rp, l), tbl_index(rp, l), Cell(t, f, rp, l)),
         NEW F, F = Extended(f, Place(rp, l+1), n)
  PROVE  Good(s, n+1, R, F)
<1>0. Tree(f, n) /\ TablesOK(t, n) /\ Contents(t, f, R) /\ Room(f, R) /\ n \in Nat /\ number_tbl8s \in Nat
  BY Lpm6Assumption DEF Good, Tree
<1>1. Tree(F, n+1)
  BY <1>0, ExtendedTree
<1>2. PICK g \in Table : g = TableOf(f, rp, l) /\ g < n
  BY <1>0, TableOfIs
<1>3. PICK i \in Index(g) : i = tbl_index(rp, l)
  BY <1>0, <1>2, TableOfIs
<1>4. PICK e \in Entry : e = Cell(t, f, rp, l)
  BY ExtMeans
<1>5. s = Linked(t, n, g, i, e)
  BY <1>2, <1>3, <1>4
<1>6. /\ TablesOK(s, n+1)
      /\ \A x \in Table : \A j \in Index(x) :
           s[x][j] = IF x = n THEN Seed(e) ELSE IF x = g /\ j = i THEN Ext(n) ELSE t[x][j]
  BY <1>0, <1>2, <1>5, LinkedIs
<1>7. ASSUME NEW ip \in Addr, NEW m \in Level
      PROVE  /\ In(F, ip, m) <=> In(f, ip, m) \/ Place(ip, m) = Place(rp, l+1)
             /\ In(f, ip, m) => TableOf(F, ip, m) = TableOf(f, ip, m)
             /\ ~In(f, ip, m) /\ Place(ip, m) = Place(rp, l+1) => TableOf(F, ip, m) = n
  BY ExtendedIs
<1>8. Holds(R, rp, l, e)
  BY <1>0, <1>4 DEF Contents
<1>9. ASSUME NEW ip \in Addr, NEW m \in Level, In(F, ip, m)
      PROVE  IF In(F, ip, m+1) THEN Cell(s, F, ip, m) = Ext(TableOf(F, ip, m+1))
             ELSE Holds(R, ip, m, Cell(s, F, ip, m))
  <2>1. PICK x \in Table : x = TableOf(F, ip, m)
    BY <1>1, <1>9, TableOfIs
  <2>2. PICK j \in Index(x) : j = tbl_index(ip, m)
    BY <1>1, <1>9, <2>1, TableOfIs
  <2>3. PICK c : c = Cell(s, F, ip, m)
    OBVIOUS
  <2>4. c = IF x = n THEN Seed(e) ELSE IF x = g /\ j = i THEN Ext(n) ELSE t[x][j]
    <3>1. c = s[x][j]
      BY <2>1, <2>2, <2>3 DEF Cell
    <3> QED
      BY <1>6, <3>1
  <2>5. /\ In(F, ip, m+1) <=> In(f, ip, m+1) \/ Place(ip, m+1) = Place(rp, l+1)
        /\ In(f, ip, m+1) => TableOf(F, ip, m+1) = TableOf(f, ip, m+1)
        /\ ~In(f, ip, m+1) /\ Place(ip, m+1) = Place(rp, l+1) => TableOf(F, ip, m+1) = n
    BY ExtendedIs
  <2>6. CASE In(f, ip, m)
    <3>1. x = TableOf(f, ip, m) /\ x # n
      BY <1>0, <1>7, <2>1, <2>6, TableOfIs
    <3>2. t[x][j] = Cell(t, f, ip, m)
      BY <2>2, <3>1 DEF Cell
    <3>3. x = g /\ j = i <=> Place(ip, m+1) = Place(rp, l+1)
      <4>1. x = g <=> Place(ip, m) = Place(rp, l)
        BY <1>0, <1>2, <2>6, <3>1, OnePlace, SameIn
      <4>2. Place(ip, m) = Place(rp, l) => m = l
        BY PlaceIs
      <4>3. Place(ip, m+1) = Place(rp, l+1) => m = l
        <5>1. Place(ip, m+1) = Place(rp, l+1) => m+1 = l+1
          BY PlaceIs
        <5> QED
          BY <5>1, Levels
      <4>4. m = l => (Place(ip, m+1) = Place(rp, l+1) <=> Place(ip, m) = Place(rp, l) /\ j = i)
        BY <1>3, <2>2, PlaceDown
      <4> QED
        BY <4>1, <4>2, <4>3, <4>4
    <3>4. CASE Place(ip, m+1) = Place(rp, l+1)
      <4>1. ~In(f, ip, m+1)
        BY <3>4, SameIn
      <4>2. In(F, ip, m+1) /\ TableOf(F, ip, m+1) = n
        BY <2>5, <3>4, <4>1
      <4>3. c = Ext(n)
        BY <2>4, <3>1, <3>3, <3>4
      <4> QED
        BY <2>3, <4>2, <4>3
    <3>5. CASE Place(ip, m+1) # Place(rp, l+1)
      <4>1. c = Cell(t, f, ip, m)
        BY <2>4, <3>1, <3>2, <3>3, <3>5
      <4>2. CASE In(f, ip, m+1)
        <5>1. c = Ext(TableOf(f, ip, m+1))
          BY <1>0, <2>6, <4>1, <4>2 DEF Contents
        <5> QED
          BY <2>3, <2>5, <4>2, <5>1
      <4>3. CASE ~In(f, ip, m+1)
        <5>1. Holds(R, ip, m, c)
          BY <1>0, <2>6, <4>1, <4>3 DEF Contents
        <5> QED
          BY <2>3, <2>5, <3>5, <4>3, <5>1
      <4> QED
        BY <4>2, <4>3
    <3> QED
      BY <3>4, <3>5
  <2>7. CASE ~In(f, ip, m)
    <3>1. Place(ip, m) = Place(rp, l+1) /\ x = n
      BY <1>7, <1>9, <2>1, <2>7
    <3>2. m = l+1
      BY <3>1, PlaceIs
    <3>3. c = Seed(e)
      BY <2>4, <3>1
    <3>4. ~In(F, ip, m+1)
      <4>1. ~In(f, ip, m+1)
        <5> SUFFICES ASSUME In(f, ip, m+1) PROVE FALSE
          OBVIOUS
        <5>1. m+1 \in Level /\ m <= m+1
          BY <1>0, InLevel, Levels
        <5> QED
          BY <1>0, <2>7, <5>1 DEF Tree, Closed
      <4>2. Place(ip, m+1) # Place(rp, l+1)
        <5>1. m+1 # l+1
          BY <3>2, Levels
        <5> QED
          BY <5>1, PlaceIs
      <4> QED
        BY <2>5, <4>1, <4>2
    <3>5. Holds(R, ip, m, c)
      BY <1>0, <1>8, <3>1, <3>2, <3>3, SeedHolds
    <3> QED
      BY <2>3, <3>4, <3>5
  <2> QED
    BY <2>6, <2>7
<1>10. Contents(s, F, R)
  BY <1>9 DEF Contents
<1>11. Room(F, R)
  <2>1. \A r \in R : r.ip \in Addr
    BY DEF RulesOK, Rule
  <2> QED
    BY <1>0, <1>7, <2>1 DEF Room
<1> QED
  BY <1>1, <1>6, <1>10, <1>11 DEF Good

\* A rule that goes deeper than a level has a next one.
LEMMA NextLevel ==
  ASSUME NEW r, Masked(r), NEW l \in Level, ~(r.depth <= bits_covered(l))
  PROVE  l+1 \in Level /\ Start(l+1) < r.depth
<1>1. r.depth \in 0..ADDR_BITS /\ bits_covered(l) \in 0..ADDR_BITS /\ Start(l+1) = bits_covered(l)
  BY RuleIs, Levels
<1>2. l # LEVELS
  BY <1>1, Bits
<1> QED
  BY <1>1, <1>2, Bits, Levels DEF Level

-----------------------------------------------------------------------------
(* rte_lpm6_add, level by level.                                           *)

State(a, b, c, d) == [tbl |-> a, next_tbl8 |-> b, at |-> c, status |-> d]

\* The fields of a state of the loop.
LEMMA StateIs ==
  ASSUME NEW a, NEW b, NEW c, NEW d
  PROVE  /\ State(a, b, c, d).tbl = a /\ State(a, b, c, d).next_tbl8 = b
         /\ State(a, b, c, d).at = c /\ State(a, b, c, d).status = d
BY DEF State

\* What add_step makes of the tables a, n groups in use, at table c.
LEMMA AddStepIs ==
  ASSUME NEW a, NEW n, NEW c, NEW d, NEW r, NEW l, NEW e, e = a[c][tbl_index(r.ip, l)]
  PROVE  add_step(State(a, n, c, d), l, r) =
           IF r.depth <= bits_covered(l)
             THEN State(Fill(a, c, Span(r, l), r.depth, r.next_hop), n, c, "0")
           ELSE IF e.ext_entry THEN State(a, n, e.next_hop, d)
           ELSE IF n < number_tbl8s
             THEN State(Linked(a, n, c, tbl_index(r.ip, l), e), n+1, n, "1")
           ELSE State(a, n, c, "ENOSPC")
<1>1. PICK i : i = tbl_index(r.ip, l)
  OBVIOUS
<1>2. PICK b : b = (r.depth <= bits_covered(l))
  OBVIOUS
<1>3. PICK s : s = State(a, n, c, d)
  OBVIOUS
<1>4. s = [tbl |-> a, next_tbl8 |-> n, at |-> c, status |-> d]
  BY <1>3 DEF State
<1>5. s.tbl = a /\ s.next_tbl8 = n /\ s.at = c /\ s.status = d
  BY <1>4
<1>6. PICK F : F = Fill(a, c, Span(r, l), r.depth, r.next_hop)
  OBVIOUS
<1>7. PICK L : L = Linked(a, n, c, i, e)
  OBVIOUS
<1>8. CASE r.depth <= bits_covered(l)
  <2>1. add_step(s, l, r) = [s EXCEPT !.status = "0", !.tbl = F]
    BY <1>5, <1>6, <1>8 DEF add_step, Span
  <2>2. PICK o : o = [s EXCEPT !.status = "0", !.tbl = F]
    OBVIOUS
  <2>3. DOMAIN s = {"tbl", "next_tbl8", "at", "status"}
    BY <1>4
  <2>4. /\ DOMAIN o = {"tbl", "next_tbl8", "at", "status"}
        /\ o.tbl = F /\ o.next_tbl8 = n /\ o.at = c /\ o.status = "0"
    BY <1>5, <2>2, <2>3
  <2>5. o = [x \in {"tbl", "next_tbl8", "at", "status"} |-> o[x]]
    BY <2>2, <2>3
  <2>6. o = State(F, n, c, "0")
    BY <2>4, <2>5 DEF State
  <2> QED
    BY <1>3, <1>6, <1>8, <2>1, <2>2, <2>6
<1>9. CASE ~(r.depth <= bits_covered(l)) /\ e.ext_entry
  <2>1. add_step(s, l, r) = [s EXCEPT !.at = e.next_hop]
    BY <1>5, <1>9 DEF add_step
  <2>2. PICK h : h = e.next_hop
    OBVIOUS
  <2>3. [s EXCEPT !.at = h] = State(a, n, h, d)
    BY <1>4 DEF State
  <2> QED
    BY <1>3, <1>9, <2>1, <2>2, <2>3
<1>10. CASE ~(r.depth <= bits_covered(l)) /\ ~e.ext_entry /\ n < number_tbl8s
  <2>1. add_step(s, l, r) = State(L, n+1, n, "1")
    BY <1>1, <1>5, <1>7, <1>10 DEF add_step, Linked, Moved, State
  <2> QED
    BY <1>1, <1>3, <1>7, <1>10, <2>1
<1>11. CASE ~(r.depth <= bits_covered(l)) /\ ~e.ext_entry /\ ~(n < number_tbl8s)
  <2>1. add_step(s, l, r) = [s EXCEPT !.status = "ENOSPC"]
    BY <1>5, <1>11 DEF add_step
  <2>2. [s EXCEPT !.status = "ENOSPC"] = State(a, n, c, "ENOSPC")
    BY <1>4 DEF State
  <2> QED
    BY <1>3, <1>11, <2>1, <2>2
<1> QED
  BY <1>8, <1>9, <1>10, <1>11

-----------------------------------------------------------------------------
Stepped(s, r, f, l) ==
  IF l = 0 THEN Begin(s.tbl, s.next_tbl8)
  ELSE IF f[l-1].status = "1" THEN add_step(f[l-1], l-1, r)
  ELSE f[l-1]

\* The recursive function of Steps exists.
LEMMA SteppedExists ==
  ASSUME NEW s, NEW r, NEW m \in Nat
  PROVE  \E f : f = [l \in 0..m |-> Stepped(s, r, f, l)]
<1> DEFINE T == {k \in Nat : ~\E f : f = [l \in 0..k |-> Stepped(s, r, f, l)]}
<1> SUFFICES ASSUME T # {} PROVE FALSE
  OBVIOUS
<1>1. PICK k \in T : \A y \in T : k <= y
  BY LeastNumber
<1>2. k \in Nat /\ ~\E f : f = [l \in 0..k |-> Stepped(s, r, f, l)]
  BY <1>1
<1>3. CASE k = 0
  <2> DEFINE e == [l \in 0..0 |-> Begin(s.tbl, s.next_tbl8)]
  <2>1. e = [l \in 0..k |-> Stepped(s, r, e, l)]
    BY <1>3 DEF Stepped
  <2> QED
    BY <1>2, <2>1
<1>4. CASE k # 0
  <2>1. k - 1 \in Nat /\ k - 1 \notin T
    BY <1>1, <1>2, <1>4
  <2>2. PICK f : f = [l \in 0 .. k-1 |-> Stepped(s, r, f, l)]
    BY <2>1
  <2> DEFINE e == [l \in 0..k |-> IF l = k THEN Stepped(s, r, f, k) ELSE f[l]]
  <2>3. ASSUME NEW l \in 0..k
        PROVE  e[l] = Stepped(s, r, e, l)
    <3>1. l # 0 => l-1 \in 0 .. k-1 /\ e[l-1] = f[l-1]
      BY <1>2
    <3>2. Stepped(s, r, e, l) = Stepped(s, r, f, l)
      BY <3>1 DEF Stepped
    <3>3. l # k => l \in 0 .. k-1 /\ f[l] = Stepped(s, r, f, l)
      BY <1>2, <2>2
    <3> QED
      BY <3>2, <3>3
  <2>4. e = [l \in 0..k |-> Stepped(s, r, e, l)]
    BY <2>3
  <2> QED
    BY <1>2, <2>4
<1> QED
  BY <1>3, <1>4

\* Install as a sequence of add_steps.
LEMMA InstallIs ==
  ASSUME NEW s, NEW r
  PROVE  \E u : /\ Install(s, r) = u[LEVELS+1]
                /\ u[0] = State(s.tbl, s.next_tbl8, TBL24, "1")
                /\ \A l \in Level : u[l+1] = IF u[l].status = "1" THEN add_step(u[l], l, r) ELSE u[l]
<1> DEFINE u == CHOOSE f : f = [l \in 0 .. LEVELS+1 |-> Stepped(s, r, f, l)]
<1>0. LEVELS \in Nat /\ LEVELS+1 \in Nat
  BY Lpm6Assumption
<1>1. u = [l \in 0 .. LEVELS+1 |-> Stepped(s, r, u, l)]
  BY <1>0, SteppedExists
<1>2. Install(s, r) = u[LEVELS+1]
  BY DEF Install, Steps, Stepped
<1> HIDE DEF u
<1>3. u[0] = State(s.tbl, s.next_tbl8, TBL24, "1")
  BY <1>0, <1>1 DEF Stepped, Begin, State
<1>4. ASSUME NEW l \in Level
      PROVE  u[l+1] = IF u[l].status = "1" THEN add_step(u[l], l, r) ELSE u[l]
  <2>1. l+1 \in 0 .. LEVELS+1 /\ l+1 # 0 /\ (l+1)-1 = l
    BY <1>0 DEF Level
  <2>2. u[l+1] = Stepped(s, r, u, l+1)
    BY <1>1, <2>1
  <2> QED
    BY <2>1, <2>2 DEF Stepped
<1> QED
  BY <1>2, <1>3, <1>4

-----------------------------------------------------------------------------
\* The places of f are places of h, or needed by r.
Fits(f, h, r) ==
  \A ip \in Addr, m \in Level : In(f, ip, m) =>
    In(h, ip, m) \/ (Start(m) < r.depth /\ Place(ip, m) = Place(r.ip, m))

OnTheWay(s, R, f, r, l) ==
  /\ s.status = "1" /\ l \in Level
  /\ Good(s.tbl, s.next_tbl8, R, f)
  /\ In(f, r.ip, l) /\ s.at = TableOf(f, r.ip, l) /\ Start(l) < r.depth
Installed(s, R, f, r) ==
  /\ s.status = "0"
  /\ Good(s.tbl, s.next_tbl8, Replaced(R, r), f)
NoRoom(s, R, f, r) ==
  /\ s.status = "ENOSPC"
  /\ Good(s.tbl, s.next_tbl8, R, f)
  /\ s.next_tbl8 = number_tbl8s
  /\ \E m \in Level : m # 0 /\ ~In(f, r.ip, m) /\ Start(m) < r.depth

\* An add_step brings the rule one level on, ends it, or has no group left.
LEMMA AddStepGood ==
  ASSUME NEW s, s = State(s.tbl, s.next_tbl8, s.at, s.status),
         NEW R, RulesOK(R), NEW f, NEW h, NEW r, Masked(r), NEW l, OnTheWay(s, R, f, r, l), Fits(f, h, r),
         NEW t, t = add_step(s, l, r)
  PROVE  /\ t = State(t.tbl, t.next_tbl8, t.at, t.status)
         /\ \E F : Fits(F, h, r) /\ (OnTheWay(t, R, F, r, l+1) \/ Installed(t, R, F, r) \/ NoRoom(t, R, F, r))
<1>1. PICK a : a = s.tbl
  OBVIOUS
<1>2. PICK n : n = s.next_tbl8
  OBVIOUS
<1>3. PICK c : c = s.at
  OBVIOUS
<1>0. /\ l \in Level /\ Good(a, n, R, f) /\ In(f, r.ip, l) /\ c = TableOf(f, r.ip, l) /\ Start(l) < r.depth
      /\ s = State(a, n, c, "1") /\ Tree(f, n)
  BY <1>1, <1>2, <1>3 DEF OnTheWay, Good
<1>4. PICK p \in Addr : p = r.ip
  BY RuleIs
<1>5. PICK e : e = a[c][tbl_index(p, l)]
  OBVIOUS
<1>6. e = Cell(a, f, p, l)
  BY <1>0, <1>4, <1>5 DEF Cell
<1>7. t = IF r.depth <= bits_covered(l)
             THEN State(Fill(a, c, Span(r, l), r.depth, r.next_hop), n, c, "0")
           ELSE IF e.ext_entry THEN State(a, n, e.next_hop, "1")
           ELSE IF n < number_tbl8s
             THEN State(Linked(a, n, c, tbl_index(r.ip, l), e), n+1, n, "1")
           ELSE State(a, n, c, "ENOSPC")
  BY <1>0, <1>4, <1>5, AddStepIs
<1>8. n \in Nat /\ n <= number_tbl8s /\ number_tbl8s \in Nat
  BY <1>0, Lpm6Assumption DEF Tree
<1>9. CASE r.depth <= bits_covered(l)
  <2>1. PICK b : b = Fill(a, c, Span(r, l), r.depth, r.next_hop)
    OBVIOUS
  <2>2. t = State(b, n, c, "0")
    BY <1>7, <1>9, <2>1
  <2>3. t.tbl = b /\ t.next_tbl8 = n /\ t.at = c /\ t.status = "0"
    BY <2>2, StateIs
  <2>4. Ends(r, l)
    BY <1>0, <1>9 DEF Ends
  <2>5. Good(b, n, Replaced(R, r), f)
    BY <1>0, <2>1, <2>4, FillGood
  <2>6. Installed(t, R, f, r)
    BY <2>3, <2>5 DEF Installed
  <2> QED
    BY <2>2, <2>3, <2>6
<1>10. ASSUME ~(r.depth <= bits_covered(l))
       PROVE  l+1 \in Level /\ Start(l+1) < r.depth /\ l+1 # 0
  BY <1>0, <1>10, NextLevel, Levels
<1>11. CASE ~(r.depth <= bits_covered(l)) /\ e.ext_entry
  <2>1. PICK g : g = e.next_hop
    OBVIOUS
  <2>2. t = State(a, n, g, "1")
    BY <1>7, <1>11, <2>1
  <2>3. t.tbl = a /\ t.next_tbl8 = n /\ t.at = g /\ t.status = "1"
    BY <2>2, StateIs
  <2>4. In(f, p, l+1) /\ g = TableOf(f, p, l+1)
    BY <1>0, <1>4, <1>6, <1>11, <2>1, ExtMeans
  <2>5. OnTheWay(t, R, f, r, l+1)
    BY <1>0, <1>4, <1>10, <1>11, <2>3, <2>4 DEF OnTheWay
  <2> QED
    BY <2>2, <2>3, <2>5
<1>12. CASE ~(r.depth <= bits_covered(l)) /\ ~e.ext_entry
  <2>0. ~In(f, p, l+1)
    BY <1>0, <1>4, <1>6, <1>12, ExtMeans
  <2>1. CASE n < number_tbl8s
    <3>1. PICK b : b = Linked(a, n, c, tbl_index(p, l), e)
      OBVIOUS
    <3>2. PICK m : m = n+1
      OBVIOUS
    <3>3. t = State(b, m, n, "1")
      BY <1>4, <1>7, <1>12, <2>1, <3>1, <3>2
    <3>4. t.tbl = b /\ t.next_tbl8 = m /\ t.at = n /\ t.status = "1"
      BY <3>3, StateIs
    <3>5. PICK F : F = Extended(f, Place(p, l+1), n)
      OBVIOUS
    <3>6. Good(b, m, R, F)
      BY <1>0, <1>4, <1>6, <1>10, <1>12, <2>0, <2>1, <3>1, <3>2, <3>5, LinkGood
    <3>7. In(F, p, l+1) /\ TableOf(F, p, l+1) = n
      BY <2>0, <3>5, ExtendedIs
    <3>8. OnTheWay(t, R, F, r, l+1)
      BY <1>4, <1>10, <1>12, <3>4, <3>6, <3>7 DEF OnTheWay
    <3>9. Fits(F, h, r)
      <4> SUFFICES ASSUME NEW ip \in Addr, NEW k \in Level, In(F, ip, k)
                   PROVE  In(h, ip, k) \/ (Start(k) < r.depth /\ Place(ip, k) = Place(r.ip, k))
        BY DEF Fits
      <4>1. In(f, ip, k) \/ Place(ip, k) = Place(p, l+1)
        BY <3>5, ExtendedIs
      <4>2. CASE In(f, ip, k)
        BY <4>2 DEF Fits
      <4>3. CASE Place(ip, k) = Place(p, l+1)
        <5>1. k = l+1
          BY <4>3, PlaceIs
        <5> QED
          BY <1>4, <1>10, <1>12, <4>3, <5>1
      <4> QED
        BY <4>1, <4>2, <4>3
    <3> QED
      BY <3>3, <3>4, <3>8, <3>9
  <2>2. CASE ~(n < number_tbl8s)
    <3>1. t = State(a, n, c, "ENOSPC")
      BY <1>7, <1>12, <2>2
    <3>2. t.tbl = a /\ t.next_tbl8 = n /\ t.at = c /\ t.status = "ENOSPC"
      BY <3>1, StateIs
    <3>3. n = number_tbl8s
      BY <1>8, <2>2
    <3>4. NoRoom(t, R, f, r)
      BY <1>0, <1>4, <1>10, <1>12, <2>0, <3>2, <3>3 DEF NoRoom
    <3> QED
      BY <3>1, <3>2, <3>4
  <2> QED
    BY <2>1, <2>2
<1> QED
  BY <1>9, <1>11, <1>12

\* One rule installed: the loop of rte_lpm6_add over the levels.
LEMMA InstallGood ==
  ASSUME NEW s, NEW R, RulesOK(R), NEW h, Good(s.tbl, s.next_tbl8, R, h), NEW r, Masked(r),
         NEW t, t = Install(s, r)
  PROVE  \E f : Fits(f, h, r) /\ (Installed(t, R, f, r) \/ NoRoom(t, R, f, r))
<1>0. LEVELS \in Nat /\ r.ip \in Addr
  BY RuleIs, Levels
<1>1. PICK u : /\ Install(s, r) = u[LEVELS+1]
               /\ u[0] = State(s.tbl, s.next_tbl8, TBL24, "1")
               /\ \A l \in Level : u[l+1] = IF u[l].status = "1" THEN add_step(u[l], l, r) ELSE u[l]
  BY InstallIs
<1> DEFINE P(l) == /\ u[l] = State(u[l].tbl, u[l].next_tbl8, u[l].at, u[l].status)
                   /\ \E f : /\ Fits(f, h, r)
                             /\ OnTheWay(u[l], R, f, r, l) \/ Installed(u[l], R, f, r) \/ NoRoom(u[l], R, f, r)
<1>2. P(0)
  <2>1. PICK v : v = u[0]
    OBVIOUS
  <2>2. v.tbl = s.tbl /\ v.next_tbl8 = s.next_tbl8 /\ v.at = TBL24 /\ v.status = "1"
        /\ v = State(v.tbl, v.next_tbl8, v.at, v.status)
    BY <1>1, <2>1, StateIs
  <2>3. Fits(h, h, r)
    BY DEF Fits
  <2>4. In(h, r.ip, 0) /\ TableOf(h, r.ip, 0) = TBL24
    BY <1>0 DEF Good, Tree, Root
  <2>5. Start(0) < r.depth /\ 0 \in Level
    BY Starts, Levels, RuleIs
  <2>6. OnTheWay(v, R, h, r, 0)
    BY <2>2, <2>4, <2>5 DEF OnTheWay
  <2> QED
    BY <2>1, <2>2, <2>3, <2>6
<1>3. ASSUME NEW l \in Level, P(l)
      PROVE  P(l+1)
  <2>1. PICK v : v = u[l]
    OBVIOUS
  <2>2. PICK w : w = u[l+1]
    OBVIOUS
  <2>3. w = IF v.status = "1" THEN add_step(v, l, r) ELSE v
    BY <1>1, <2>1, <2>2
  <2>4. v = State(v.tbl, v.next_tbl8, v.at, v.status)
    BY <1>3, <2>1
  <2>5. PICK f : /\ Fits(f, h, r)
                 /\ OnTheWay(v, R, f, r, l) \/ Installed(v, R, f, r) \/ NoRoom(v, R, f, r)
    BY <1>3, <2>1
  <2>6. CASE OnTheWay(v, R, f, r, l)
    <3>1. w = add_step(v, l, r)
      BY <2>3, <2>6 DEF OnTheWay
    <3>2. /\ w = State(w.tbl, w.next_tbl8, w.at, w.status)
          /\ \E F : /\ Fits(F, h, r)
                    /\ OnTheWay(w, R, F, r, l+1) \/ Installed(w, R, F, r) \/ NoRoom(w, R, F, r)
      BY <2>4, <2>5, <2>6, <3>1, AddStepGood
    <3> QED
      BY <2>2, <3>2
  <2>7. CASE Installed(v, R, f, r) \/ NoRoom(v, R, f, r)
    <3>1. w = v
      BY <2>3, <2>7 DEF Installed, NoRoom
    <3> QED
      BY <2>2, <2>4, <2>5, <2>7, <3>1
  <2> QED
    BY <2>5, <2>6, <2>7
<1> HIDE DEF P
<1>4. P(LEVELS+1)
  <2> DEFINE T == {k \in 0 .. LEVELS+1 : ~P(k)}
  <2> SUFFICES ASSUME T # {} PROVE FALSE
    BY <1>0
  <2>1. PICK k \in T : \A y \in T : k <= y
    <3>1. T \subseteq Nat
      OBVIOUS
    <3> QED
      BY <3>1, LeastNumber
  <2>2. k \in 0 .. LEVELS+1 /\ ~P(k)
    BY <2>1
  <2>3. k # 0
    BY <1>2, <2>2
  <2>4. k-1 \in Level /\ k-1 \in 0 .. LEVELS+1 /\ k-1 \notin T /\ (k-1)+1 = k
    BY <1>0, <2>1, <2>2, <2>3 DEF Level
  <2>5. P(k-1)
    BY <2>4
  <2>6. P((k-1)+1)
    BY <1>3, <2>4, <2>5
  <2> QED
    BY <2>2, <2>4, <2>6
<1>5. PICK f : /\ Fits(f, h, r)
               /\ OnTheWay(t, R, f, r, LEVELS+1) \/ Installed(t, R, f, r) \/ NoRoom(t, R, f, r)
  BY <1>1, <1>4 DEF P
<1>6. ~OnTheWay(t, R, f, r, LEVELS+1)
  BY <1>0, Levels DEF OnTheWay
<1> QED
  BY <1>5, <1>6

-----------------------------------------------------------------------------
(* The groups never run out for rules that fitted before.                  *)

\* A tree with n groups has n + 1 places.
LEMMA TreeSize ==
  ASSUME NEW f, NEW n, Tree(f, n)
  PROVE  IsFiniteSet(DOMAIN f) /\ Cardinality(DOMAIN f) = n + 1
<1>0. n \in Nat
  BY Lpm6Assumption DEF Tree
<1>1. PICK D : D = DOMAIN f
  OBVIOUS
<1> DEFINE N == -1 .. n-1
           g == [x \in D |-> f[x]]
<1>2. \A x \in D : \E ip \in Addr, l \in Level : x = Place(ip, l) /\ In(f, ip, l) /\ g[x] = TableOf(f, ip, l)
  BY <1>1 DEF Tree, Places, In, TableOf
<1>3. g \in [D -> N]
  <2> SUFFICES ASSUME NEW x \in D PROVE g[x] \in N
    OBVIOUS
  <2>1. PICK ip \in Addr, l \in Level : In(f, ip, l) /\ g[x] = TableOf(f, ip, l)
    BY <1>2
  <2>2. l = 0 => TableOf(f, ip, l) = -1
    BY DEF Tree, Root, TBL24
  <2>3. l # 0 => TableOf(f, ip, l) \in 0..n-1
    BY <2>1 DEF Tree, Numbers
  <2> QED
    BY <1>0, <2>1, <2>2, <2>3
<1>4. ASSUME NEW x \in D, NEW y \in D, g[x] = g[y]
      PROVE  x = y
  <2>1. PICK ip \in Addr, l \in Level : x = Place(ip, l) /\ In(f, ip, l) /\ g[x] = TableOf(f, ip, l)
    BY <1>2
  <2>2. PICK jp \in Addr, m \in Level : y = Place(jp, m) /\ In(f, jp, m) /\ g[y] = TableOf(f, jp, m)
    BY <1>2
  <2> QED
    BY <1>4, <2>1, <2>2, OnePlace
<1>5. ASSUME NEW v \in N
      PROVE  \E x \in D : g[x] = v
  <2>1. CASE v = -1
    <3>1. 0 \in Addr
      BY AddrIs
    <3>2. In(f, 0, 0) /\ TableOf(f, 0, 0) = -1
      BY <3>1 DEF Tree, Root, TBL24
    <3>3. Place(0, 0) \in D /\ f[Place(0, 0)] = -1
      BY <1>1, <3>2 DEF In, TableOf
    <3> QED
      BY <2>1, <3>3
  <2>2. CASE v # -1
    <3>1. v \in 0..n-1
      BY <1>0, <2>2
    <3>2. PICK ip \in Addr, l \in Level : In(f, ip, l) /\ TableOf(f, ip, l) = v
      BY <3>1 DEF Tree, Onto
    <3>3. Place(ip, l) \in D /\ f[Place(ip, l)] = v
      BY <1>1, <3>2 DEF In, TableOf
    <3> QED
      BY <3>3
  <2> QED
    BY <2>1, <2>2
<1> HIDE DEF g
<1>6. g \in Injection(D, N) /\ g \in Surjection(D, N)
  BY <1>3, <1>4, <1>5 DEF Injection, Surjection, IsInjective
<1>7. IsFiniteSet(N) /\ Cardinality(N) = n + 1
  <2>1. -1 \in Int /\ n-1 \in Int
    BY <1>0
  <2>2. IsFiniteSet(-1 .. n-1) /\ Cardinality(-1 .. n-1) = IF -1 > n-1 THEN 0 ELSE (n-1)-(-1)+1
    BY <2>1, FS_Interval
  <2> QED
    BY <1>0, <2>2
<1> HIDE DEF N
<1>8. IsFiniteSet(D) /\ (Cardinality(D) = Cardinality(N) <=> g \in Surjection(D, N))
  BY <1>6, <1>7, FS_Injection
<1> QED
  BY <1>1, <1>6, <1>7, <1>8

\* Tables that all fit in some tree cannot run out of groups.
LEMMA RoomLeft ==
  ASSUME NEW f, Tree(f, number_tbl8s), NEW F, NEW n, Tree(F, n),
         \A ip \in Addr, m \in Level : In(f, ip, m) => In(F, ip, m),
         NEW p \in Addr, NEW l \in Level, In(F, p, l), ~In(f, p, l)
  PROVE  FALSE
<1>0. n \in Nat /\ n <= number_tbl8s /\ number_tbl8s \in Nat
  BY Lpm6Assumption DEF Tree
<1>1. PICK x : x = Place(p, l)
  OBVIOUS
<1>2. PICK A : A = DOMAIN f
  OBVIOUS
<1>3. PICK B : B = DOMAIN F
  OBVIOUS
<1>4. x \notin A /\ x \in B
  BY <1>1, <1>2, <1>3 DEF In
<1>5. A \subseteq B
  BY <1>2, <1>3 DEF Tree, Places, In
<1>6. IsFiniteSet(A) /\ Cardinality(A) = number_tbl8s + 1
  BY <1>2, TreeSize
<1>7. IsFiniteSet(B) /\ Cardinality(B) = n + 1
  BY <1>3, TreeSize
<1>8. Cardinality(A \union {x}) = number_tbl8s + 2
  <2>1. Cardinality(A \union {x}) = IF x \in A THEN Cardinality(A) ELSE Cardinality(A) + 1
    BY <1>6, FS_AddElement
  <2> QED
    BY <1>0, <1>4, <1>6, <2>1
<1>9. A \union {x} \in SUBSET B
  BY <1>4, <1>5
<1>10. Cardinality(A \union {x}) <= Cardinality(B)
  BY <1>7, <1>9, FS_Subset
<1> QED
  BY <1>0, <1>7, <1>8, <1>10

-----------------------------------------------------------------------------
\* Between operations.
Tidy(t, n, R) == RulesOK(R) /\ \E f : Good(t, n, R, f) /\ Tight(f, R)

\* Zeroed tables are right for no rules.
LEMMA EmptyTidy ==
  Tidy(Zeroed, 0, {})
<1> DEFINE f == [x \in {Place(0, 0)} |-> TBL24]
<1>0. 0 \in Addr /\ LEVELS \in Nat /\ 0 \in 0..ADDR_BITS
  BY AddrIs, Levels, Bits
<1>1. \A ip \in Addr : Place(ip, 0) = Place(0, 0)
  <2> SUFFICES ASSUME NEW ip \in Addr PROVE Place(ip, 0) = Place(0, 0)
    OBVIOUS
  <2>1. Lead(ip, 0) = Lead(0, 0)
    BY <1>0, LeadBound
  <2>2. mask_ip(ip, 0) = mask_ip(0, 0)
    BY <1>0, <2>1, SameMask
  <2> QED
    BY <2>2, PlaceIs, Starts
<1>2. ASSUME NEW ip \in Addr, NEW l
      PROVE  (In(f, ip, l) <=> l = 0) /\ TableOf(f, ip, 0) = TBL24
  <2>1. In(f, ip, l) <=> Place(ip, l) = Place(0, 0)
    BY DEF In
  <2>2. Place(ip, l) = Place(0, 0) => l = 0
    BY PlaceIs
  <2>3. TableOf(f, ip, 0) = TBL24
    BY <1>1 DEF TableOf
  <2> QED
    BY <1>1, <2>1, <2>2, <2>3
<1>3. Places(f)
  BY <1>0, Levels DEF Places
<1> HIDE DEF f
<1>4. Tree(f, 0)
  <2>1. 0 \in 0..number_tbl8s
    BY Lpm6Assumption
  <2>2. Root(f)
    BY <1>2 DEF Root
  <2>3. Closed(f)
    <3> SUFFICES ASSUME NEW ip \in Addr, NEW k \in Level, NEW l \in Level, In(f, ip, l), k <= l
                 PROVE  In(f, ip, k)
      BY DEF Closed
    <3>1. k = 0
      BY <1>2, Levels
    <3> QED
      BY <1>2, <3>1
  <2>4. Numbers(f, 0) /\ Onto(f, 0)
    BY <1>2 DEF Numbers, Onto
  <2>5. OneToOne(f)
    <3> SUFFICES ASSUME NEW ip \in Addr, NEW jp \in Addr, NEW l \in Level, NEW m \in Level,
                        In(f, ip, l), In(f, jp, m)
                 PROVE  Place(ip, l) = Place(jp, m)
      BY DEF OneToOne
    <3>1. l = 0 /\ m = 0
      BY <1>2
    <3> QED
      BY <1>1, <3>1
  <2> QED
    BY <1>3, <2>1, <2>2, <2>3, <2>4, <2>5 DEF Tree
<1>5. NoEntry \in Entry
  BY Bits DEF NoEntry, Entry
<1>6. TablesOK(Zeroed, 0)
  <2>1. DOMAIN Zeroed = Table
    BY DEF Zeroed
  <2>2. \A g \in Table : Zeroed[g] \in [Index(g) -> Entry]
    BY <1>5 DEF Zeroed
  <2> QED
    BY <2>1, <2>2 DEF TablesOK
<1>7. Contents(Zeroed, f, {})
  <2> SUFFICES ASSUME NEW ip \in Addr, NEW l \in Level, In(f, ip, l)
               PROVE  IF In(f, ip, l+1) THEN Cell(Zeroed, f, ip, l) = Ext(TableOf(f, ip, l+1))
                      ELSE Holds({}, ip, l, Cell(Zeroed, f, ip, l))
    BY DEF Contents
  <2>1. l = 0 /\ ~In(f, ip, l+1)
    <3>1. l = 0
      BY <1>2
    <3>2. l+1 # 0
      BY <3>1
    <3> QED
      BY <1>2, <3>1, <3>2
  <2>2. PICK g \in Table : g = TableOf(f, ip, l)
    BY <1>4, TableOfIs
  <2>3. PICK i \in Index(g) : i = tbl_index(ip, l)
    BY <1>4, <2>2, TableOfIs
  <2>4. Zeroed[g][i] = NoEntry
    BY DEF Zeroed
  <2>5. Cell(Zeroed, f, ip, l) = NoEntry
    BY <2>2, <2>3, <2>4 DEF Cell
  <2>6. Holds({}, ip, l, NoEntry)
    BY DEF Holds, NoEntry
  <2> QED
    BY <2>1, <2>5, <2>6
<1>8. Room(f, {})
  BY DEF Room
<1>9. Tight(f, {})
  BY <1>2 DEF Tight
<1>10. RulesOK({})
  BY DEF RulesOK
<1>11. Good(Zeroed, 0, {}, f)
  BY <1>4, <1>6, <1>7, <1>8 DEF Good
<1> QED
  BY <1>9, <1>10, <1>11 DEF Tidy

\* The groups added on the way are those that the rule needs.
LEMMA FitsTight ==
  ASSUME NEW f, NEW h, NEW r, Masked(r), NEW R, RulesOK(R), Tight(h, R), Fits(f, h, r)
  PROVE  Tight(f, Replaced(R, r))
<1> SUFFICES ASSUME NEW ip \in Addr, NEW l \in Level, In(f, ip, l), l # 0
             PROVE  \E q \in Replaced(R, r) : Start(l) < q.depth /\ Place(ip, l) = Place(q.ip, l)
  BY DEF Tight
<1>1. \A q : q \in Replaced(R, r) <=> (q \in R /\ ~(q.ip = r.ip /\ q.depth = r.depth)) \/ q = r
  BY DEF Replaced
<1>2. In(h, ip, l) \/ (Start(l) < r.depth /\ Place(ip, l) = Place(r.ip, l))
  BY DEF Fits
<1>3. CASE In(h, ip, l)
  <2>1. PICK q \in R : Start(l) < q.depth /\ Place(ip, l) = Place(q.ip, l)
    BY <1>3 DEF Tight
  <2>2. CASE q.ip = r.ip /\ q.depth = r.depth
    BY <1>1, <2>1, <2>2
  <2>3. CASE ~(q.ip = r.ip /\ q.depth = r.depth)
    BY <1>1, <2>1, <2>3
  <2> QED
    BY <2>2, <2>3
<1>4. CASE Start(l) < r.depth /\ Place(ip, l) = Place(r.ip, l)
  BY <1>1, <1>4
<1> QED
  BY <1>2, <1>3, <1>4

\* A rule for which some tree has room, beside the rules that are there, is
\* installed, and installing it gives tables for the rules with it.
LEMMA InstallTidy ==
  ASSUME NEW s, NEW R, Tidy(s.tbl, s.next_tbl8, R), NEW r, Masked(r), NEW t, t = Install(s, r)
  PROVE  /\ t.status \in {"0", "ENOSPC"}
         /\ t.status = "0" => Tidy(t.tbl, t.next_tbl8, Replaced(R, r))
         /\ t.status = "ENOSPC" => ~\E F, n : Tree(F, n) /\ Room(F, Replaced(R, r))
<1>1. RulesOK(R)
  BY DEF Tidy
<1>2. PICK h : Good(s.tbl, s.next_tbl8, R, h) /\ Tight(h, R)
  BY DEF Tidy
<1>3. PICK f : Fits(f, h, r) /\ (Installed(t, R, f, r) \/ NoRoom(t, R, f, r))
  BY <1>1, <1>2, InstallGood
<1>4. Tight(f, Replaced(R, r))
  BY <1>1, <1>2, <1>3, FitsTight
<1>5. CASE Installed(t, R, f, r)
  <2>1. t.status = "0" /\ Good(t.tbl, t.next_tbl8, Replaced(R, r), f)
    BY <1>5 DEF Installed
  <2>2. RulesOK(Replaced(R, r))
    BY <1>1, ReplacedOK
  <2> QED
    BY <1>4, <2>1, <2>2 DEF Tidy
<1>6. CASE NoRoom(t, R, f, r)
  <2>1. t.status = "ENOSPC" /\ Tree(f, number_tbl8s)
    BY <1>6 DEF NoRoom, Good
  <2>2. PICK m \in Level : m # 0 /\ ~In(f, r.ip, m) /\ Start(m) < r.depth
    BY <1>6 DEF NoRoom
  <2>3. ASSUME NEW F, NEW n, Tree(F, n), Room(F, Replaced(R, r))
        PROVE  FALSE
    <3>1. \A q : q \in Replaced(R, r) <=> (q \in R /\ ~(q.ip = r.ip /\ q.depth = r.depth)) \/ q = r
      BY DEF Replaced
    <3>2. PICK p \in Addr : p = r.ip /\ ~In(f, p, m)
      BY <2>2, RuleIs
    <3>3. In(F, p, m)
      BY <2>2, <2>3, <3>1, <3>2 DEF Room
    <3>4. ASSUME NEW ip \in Addr, NEW k \in Level, In(f, ip, k)
          PROVE  In(F, ip, k)
      <4>1. CASE k = 0
        BY <2>3, <4>1 DEF Tree, Root
      <4>2. CASE k # 0
        <5>1. PICK q \in Replaced(R, r) : Start(k) < q.depth /\ Place(ip, k) = Place(q.ip, k)
          BY <1>4, <3>4, <4>2 DEF Tight
        <5>2. In(F, q.ip, k)
          BY <2>3, <5>1 DEF Room
        <5> QED
          BY <5>1, <5>2, SameIn
      <4> QED
        BY <4>1, <4>2
    <3> QED
      BY <2>1, <2>3, <3>2, <3>3, <3>4, RoomLeft
  <2> QED
    BY <2>1, <2>3
<1> QED
  BY <1>3, <1>5, <1>6

-----------------------------------------------------------------------------
(* Rebuilding, and the rules table.                                        *)

\* A rules table: masked rules, no two for the same prefix.
SeqOK(rules) ==
  /\ rules \in Seq(Rule)
  /\ \A i \in 1..Len(rules) : mask_ip(rules[i].ip, rules[i].depth) = rules[i].ip
  /\ \A i, j \in 1..Len(rules) :
       rules[i].ip = rules[j].ip /\ rules[i].depth = rules[j].depth => i = j

Upto(rules, k) == {rules[i] : i \in 1..k}

\* A rules table as a set of rules.
LEMMA SeqIs ==
  ASSUME NEW rules, SeqOK(rules)
  PROVE  /\ Len(rules) \in Nat /\ DOMAIN rules = 1..Len(rules)
         /\ ToSet(rules) = Upto(rules, Len(rules))
         /\ \A i \in 1..Len(rules) : Masked(rules[i]) /\ rules[i] \in ToSet(rules)
         /\ RulesOK(ToSet(rules))
<1>1. Len(rules) \in Nat /\ DOMAIN rules = 1..Len(rules)
  BY DEF SeqOK
<1>2. ToSet(rules) = Upto(rules, Len(rules))
  BY <1>1 DEF ToSet, Upto
<1>3. \A i \in 1..Len(rules) : rules[i] \in Rule
  BY DEF SeqOK
<1>4. \A i \in 1..Len(rules) : Masked(rules[i])
  BY <1>3 DEF SeqOK, Masked
<1>5. \A q : q \in ToSet(rules) <=> \E i \in 1..Len(rules) : q = rules[i]
  BY <1>2 DEF Upto
<1>6. RulesOK(ToSet(rules))
  BY <1>3, <1>5 DEF SeqOK, RulesOK
<1> QED
  BY <1>1, <1>2, <1>4, <1>5, <1>6

\* The first k rules, by the first k-1.
LEMMA UptoStep ==
  ASSUME NEW rules, SeqOK(rules), NEW k \in 1..Len(rules)
  PROVE  Replaced(Upto(rules, k-1), rules[k]) = Upto(rules, k)
<1>0. Len(rules) \in Nat
  BY SeqIs
<1>1. \A q : q \in Upto(rules, k-1) <=> \E i \in 1 .. k-1 : q = rules[i]
  BY DEF Upto
<1>2. \A q : q \in Upto(rules, k) <=> \E i \in 1..k : q = rules[i]
  BY DEF Upto
<1>3. \A i \in 1 .. k-1 : i \in 1..Len(rules) /\ i # k /\ i \in 1..k
  BY <1>0
<1>4. \A i \in 1 .. k-1 : ~(rules[i].ip = rules[k].ip /\ rules[i].depth = rules[k].depth)
  BY <1>3 DEF SeqOK
<1>5. \A i \in 1..k : i = k \/ i \in 1 .. k-1
  BY <1>0
<1>6. k \in 1..k
  BY <1>0
<1>7. PICK r : r = rules[k]
  OBVIOUS
<1>8. \A q : q \in Replaced(Upto(rules, k-1), r) <=>
               (q \in Upto(rules, k-1) /\ ~(q.ip = r.ip /\ q.depth = r.depth)) \/ q = r
  BY DEF Replaced
<1>9. \A q : q \in Replaced(Upto(rules, k-1), r) <=> q \in Upto(rules, k)
  BY <1>1, <1>2, <1>3, <1>4, <1>5, <1>6, <1>7, <1>8
<1> QED
  BY <1>7, <1>9

-----------------------------------------------------------------------------
Readded(s, rules, f, k) ==
  IF k = 0 THEN s
  ELSE IF f[k-1].status = "ENOSPC" THEN f[k-1]
  ELSE Install(f[k-1], rules[k])

\* The recursive function of Readd exists.
LEMMA ReaddedExists ==
  ASSUME NEW s, NEW rules, NEW m \in Nat
  PROVE  \E f : f = [k \in 0..m |-> Readded(s, rules, f, k)]
<1> DEFINE T == {k \in Nat : ~\E f : f = [l \in 0..k |-> Readded(s, rules, f, l)]}
<1> SUFFICES ASSUME T # {} PROVE FALSE
  OBVIOUS
<1>1. PICK k \in T : \A y \in T : k <= y
  BY LeastNumber
<1>2. k \in Nat /\ ~\E f : f = [l \in 0..k |-> Readded(s, rules, f, l)]
  BY <1>1
<1>3. CASE k = 0
  <2> DEFINE e == [l \in 0..0 |-> s]
  <2>1. e = [l \in 0..k |-> Readded(s, rules, e, l)]
    BY <1>3 DEF Readded
  <2> QED
    BY <1>2, <2>1
<1>4. CASE k # 0
  <2>1. k - 1 \in Nat /\ k - 1 \notin T
    BY <1>1, <1>2, <1>4
  <2>2. PICK f : f = [l \in 0 .. k-1 |-> Readded(s, rules, f, l)]
    BY <2>1
  <2> DEFINE e == [l \in 0..k |-> IF l = k THEN Readded(s, rules, f, k) ELSE f[l]]
  <2>3. ASSUME NEW l \in 0..k
        PROVE  e[l] = Readded(s, rules, e, l)
    <3>1. l # 0 => l-1 \in 0 .. k-1 /\ e[l-1] = f[l-1]
      BY <1>2
    <3>2. Readded(s, rules, e, l) = Readded(s, rules, f, l)
      BY <3>1 DEF Readded
    <3>3. l # k => l \in 0 .. k-1 /\ f[l] = Readded(s, rules, f, l)
      BY <1>2, <2>2
    <3> QED
      BY <3>2, <3>3
  <2>4. e = [l \in 0..k |-> Readded(s, rules, e, l)]
    BY <2>3
  <2> QED
    BY <1>2, <2>4
<1> QED
  BY <1>3, <1>4

\* Rebuild as a sequence of Installs.
LEMMA RebuildIs ==
  ASSUME NEW rules, SeqOK(rules)
  PROVE  \E u : /\ Rebuild(rules) = u[Len(rules)]
                /\ u[0] = Begin(Zeroed, 0)
                /\ \A k \in 1..Len(rules) :
                     u[k] = IF u[k-1].status = "ENOSPC" THEN u[k-1] ELSE Install(u[k-1], rules[k])
<1>0. Len(rules) \in Nat
  BY SeqIs
<1>1. PICK s : s = Begin(Zeroed, 0)
  OBVIOUS
<1> DEFINE u == CHOOSE f : f = [k \in 0..Len(rules) |-> Readded(s, rules, f, k)]
<1>2. u = [k \in 0..Len(rules) |-> Readded(s, rules, u, k)]
  BY <1>0, ReaddedExists
<1>3. Readd(s, rules) = u
  BY DEF Readd, Readded
<1>4. Rebuild(rules) = u[Len(rules)]
  BY <1>1, <1>3 DEF Rebuild
<1> HIDE DEF u
<1>5. u[0] = s
  BY <1>0, <1>2 DEF Readded
<1>6. ASSUME NEW k \in 1..Len(rules)
      PROVE  u[k] = IF u[k-1].status = "ENOSPC" THEN u[k-1] ELSE Install(u[k-1], rules[k])
  <2>1. k \in 0..Len(rules) /\ k # 0
    BY <1>0
  <2> QED
    BY <1>2, <2>1 DEF Readded
<1> QED
  BY <1>1, <1>4, <1>5, <1>6

\* Rules for which some tree has room are all in the tables after a rebuild.
LEMMA RebuildTidy ==
  ASSUME NEW rules, SeqOK(rules), NEW F, NEW n, Tree(F, n), Room(F, ToSet(rules)),
         NEW t, t = Rebuild(rules)
  PROVE  t.status # "ENOSPC" /\ Tidy(t.tbl, t.next_tbl8, ToSet(rules))
<1>0. Len(rules) \in Nat
  BY SeqIs
<1>1. PICK u : /\ Rebuild(rules) = u[Len(rules)]
               /\ u[0] = Begin(Zeroed, 0)
               /\ \A k \in 1..Len(rules) :
                    u[k] = IF u[k-1].status = "ENOSPC" THEN u[k-1] ELSE Install(u[k-1], rules[k])
  BY RebuildIs
<1> DEFINE P(k) == u[k].status # "ENOSPC" /\ Tidy(u[k].tbl, u[k].next_tbl8, Upto(rules, k))
<1>2. P(0)
  <2>1. u[0].status = "1" /\ u[0].tbl = Zeroed /\ u[0].next_tbl8 = 0
    BY <1>1 DEF Begin
  <2>2. Upto(rules, 0) = {}
    BY DEF Upto
  <2> QED
    BY <2>1, <2>2, EmptyTidy
<1>3. ASSUME NEW k \in 1..Len(rules), P(k-1)
      PROVE  P(k)
  <2>1. PICK s : s = u[k-1]
    OBVIOUS
  <2>2. PICK r : r = rules[k]
    OBVIOUS
  <2>3. PICK v : v = u[k]
    OBVIOUS
  <2>4. Masked(r)
    BY <2>2, SeqIs
  <2>5. v = Install(s, r)
    BY <1>1, <1>3, <2>1, <2>2, <2>3
  <2>6. PICK R : R = Upto(rules, k-1)
    OBVIOUS
  <2>7. Replaced(R, r) = Upto(rules, k)
    BY <2>2, <2>6, UptoStep
  <2>8. Tidy(s.tbl, s.next_tbl8, R)
    BY <1>3, <2>1, <2>6
  <2>9. Room(F, Upto(rules, k))
    <3>1. Upto(rules, k) \subseteq ToSet(rules)
      <4>1. \A i \in 1..k : i \in 1..Len(rules)
        BY <1>0
      <4> QED
        BY <4>1, SeqIs DEF Upto
    <3> QED
      BY <3>1 DEF Room
  <2>10. v.status # "ENOSPC" /\ v.status \in {"0", "ENOSPC"}
    BY <2>4, <2>5, <2>7, <2>8, <2>9, InstallTidy
  <2>11. Tidy(v.tbl, v.next_tbl8, Upto(rules, k))
    BY <2>4, <2>5, <2>7, <2>8, <2>10, InstallTidy
  <2> QED
    BY <2>3, <2>10, <2>11
<1> HIDE DEF P
<1>4. P(Len(rules))
  <2> DEFINE T == {k \in 0..Len(rules) : ~P(k)}
  <2> SUFFICES ASSUME T # {} PROVE FALSE
    BY <1>0
  <2>1. PICK k \in T : \A y \in T : k <= y
    <3>1. T \subseteq Nat
      OBVIOUS
    <3> QED
      BY <3>1, LeastNumber
  <2>2. k \in 0..Len(rules) /\ ~P(k)
    BY <2>1
  <2>3. k # 0
    BY <1>2, <2>2
  <2>4. k \in 1..Len(rules) /\ k-1 \in 0..Len(rules) /\ k-1 \notin T
    BY <1>0, <2>1, <2>2, <2>3
  <2>5. P(k-1)
    BY <2>4
  <2> QED
    BY <1>3, <2>2, <2>4, <2>5
<1>5. ToSet(rules) = Upto(rules, Len(rules))
  BY SeqIs
<1> QED
  BY <1>1, <1>4, <1>5 DEF P

-----------------------------------------------------------------------------
\* The rules table.

\* SelectInSeq takes the least index.
LEMMA MinOf ==
  ASSUME NEW T, T \subseteq Nat, T # {}
  PROVE  Min(T) \in T /\ \A y \in T : Min(T) <= y
<1>1. \E x \in T : \A y \in T : x <= y
  BY LeastNumber
<1> QED
  BY <1>1 DEF Min

\* No rule is for the prefix; the k-th one is.
Absent(rules, ip, d) == \A i \in 1..Len(rules) : ~(rules[i].ip = ip /\ rules[i].depth = d)
Found(rules, k, ip, d) == k \in 1..Len(rules) /\ rules[k].ip = ip /\ rules[k].depth = d

\* The rules of a rules table.
LEMMA MemberIs ==
  ASSUME NEW rules, SeqOK(rules), NEW n, n = Len(rules), NEW q
  PROVE  q \in ToSet(rules) <=> \E i \in 1..n : q = rules[i]
<1>1. ToSet(rules) = Upto(rules, n)
  BY SeqIs
<1> QED
  BY <1>1 DEF Upto

\* rule_find finds the rule of a prefix, if there is one.
LEMMA RuleFindIs ==
  ASSUME NEW rules, SeqOK(rules), NEW ip, NEW d, NEW k, k = rule_find(rules, ip, d)
  PROVE  /\ k = 0 => Absent(rules, ip, d)
         /\ k # 0 => Found(rules, k, ip, d)
<1>0. Len(rules) \in Nat
  BY SeqIs
<1> DEFINE T == {i \in 1..Len(rules) : rules[i].ip = ip /\ rules[i].depth = d}
<1>1. k = IF T # {} THEN Min(T) ELSE 0
  BY DEF rule_find, SelectInSeq
<1>2. T # {} => Min(T) \in T
  <2>1. T \subseteq Nat
    BY <1>0
  <2> QED
    BY <2>1, MinOf
<1>3. \A i \in T : i # 0
  BY <1>0
<1> QED
  BY <1>1, <1>2, <1>3 DEF Absent, Found

\* All but the last.
LEMMA FrontIs ==
  ASSUME NEW S, NEW m \in Seq(S), NEW n \in Nat, Len(m) = n + 1, NEW o, o = SubSeq(m, 1, Len(m) - 1)
  PROVE  o \in Seq(S) /\ Len(o) = n /\ \A i \in 1..n : o[i] = m[i]
<1>1. o = SubSeq(m, 1, n)
  OBVIOUS
<1>2. o \in Seq(S) /\ Len(o) = n
  BY <1>1
<1>3. ASSUME NEW i \in 1..n
      PROVE  o[i] = m[i]
  BY <1>1
<1> QED
  BY <1>2, <1>3

\* rule_delete leaves the other rules.
LEMMA RuleDeleteIs ==
  ASSUME NEW rules, SeqOK(rules), NEW k \in 1..Len(rules), NEW left, left = rule_delete(rules, k)
  PROVE  /\ SeqOK(left) /\ ToSet(left) \subseteq ToSet(rules)
         /\ Len(left) <= Len(rules) /\ Len(left) = Len(rules) - 1
         /\ \A i \in 1..Len(left) : left[i] = IF i = k THEN rules[Len(rules)] ELSE rules[i]
<1>0. Len(rules) \in Nat /\ DOMAIN rules = 1..Len(rules) /\ Len(rules) >= 1
  BY SeqIs
<1>1. PICK z : z = rules[Len(rules)]
  OBVIOUS
<1>2. z \in Rule
  BY <1>0, <1>1 DEF SeqOK
<1>3. PICK m : m = [rules EXCEPT ![k] = z]
  OBVIOUS
<1>4. m \in Seq(Rule) /\ Len(m) = Len(rules) /\ \A i \in 1..Len(rules) : m[i] = IF i = k THEN z ELSE rules[i]
  BY <1>0, <1>2, <1>3 DEF SeqOK
<1>5. left = SubSeq(m, 1, Len(m) - 1)
  BY <1>1, <1>3 DEF rule_delete, Front, Last
<1>n. PICK n \in Nat : n = Len(rules) - 1 /\ Len(rules) = n + 1 /\ Len(m) = n + 1
  <2>1. Len(rules) - 1 \in Nat /\ Len(rules) = (Len(rules) - 1) + 1
    BY <1>0
  <2>2. Len(m) = Len(rules)
    BY <1>4
  <2> QED
    BY <2>1, <2>2
<1>6. left \in Seq(Rule) /\ Len(left) = n /\ \A i \in 1..n : left[i] = m[i]
  BY <1>4, <1>5, <1>n, FrontIs
<1>7. ASSUME NEW i \in 1..Len(left)
      PROVE  i \in 1..Len(rules) /\ i # Len(rules) /\ left[i] = IF i = k THEN z ELSE rules[i]
  <2>1. i \in 1..n
    BY <1>6
  <2>2. i \in 1 .. n+1 /\ i # n+1
    BY <2>1
  <2> QED
    BY <1>4, <1>6, <1>n, <2>1, <2>2
<1>8. \A i \in 1..Len(left) : \E j \in 1..Len(rules) : left[i] = rules[j] /\ (i = k => j = Len(rules)) /\ (i # k => j = i)
  <2>1. Len(rules) \in 1..Len(rules)
    BY <1>0
  <2> QED
    BY <1>1, <1>7, <2>1
<1>9. ASSUME NEW i \in 1..Len(left), NEW j \in 1..Len(left),
             left[i].ip = left[j].ip, left[i].depth = left[j].depth
      PROVE  i = j
  <2>1. PICK a \in 1..Len(rules) : left[i] = rules[a] /\ (i = k => a = Len(rules)) /\ (i # k => a = i)
    BY <1>8
  <2>2. PICK b \in 1..Len(rules) : left[j] = rules[b] /\ (j = k => b = Len(rules)) /\ (j # k => b = j)
    BY <1>8
  <2>3. a = b
    BY <1>9, <2>1, <2>2 DEF SeqOK
  <2> QED
    BY <1>7, <2>1, <2>2, <2>3
<1>10. \A i \in 1..Len(left) : mask_ip(left[i].ip, left[i].depth) = left[i].ip
  BY <1>8 DEF SeqOK
<1>11. SeqOK(left)
  BY <1>6, <1>9, <1>10 DEF SeqOK
<1>12. ToSet(left) \subseteq ToSet(rules)
  <2>1. \A q \in ToSet(left) : \E i \in 1..Len(left) : q = left[i]
    BY <1>6 DEF ToSet
  <2> QED
    BY <1>8, <2>1, SeqIs
<1>13. Len(left) = Len(rules) - 1 /\ Len(left) <= Len(rules)
  BY <1>6, <1>n
<1> QED
  BY <1>1, <1>7, <1>11, <1>12, <1>13

-----------------------------------------------------------------------------
Kept(ps, rules, f, k) ==
  IF k = 0 THEN rules
  ELSE IF rule_find(f[k-1], mask_ip(ps[k][1], ps[k][2]), ps[k][2]) = 0 THEN f[k-1]
       ELSE rule_delete(f[k-1], rule_find(f[k-1], mask_ip(ps[k][1], ps[k][2]), ps[k][2]))

\* The recursive function of Removed exists.
LEMMA KeptExists ==
  ASSUME NEW ps, NEW rules, NEW m \in Nat
  PROVE  \E f : f = [k \in 0..m |-> Kept(ps, rules, f, k)]
<1> DEFINE T == {k \in Nat : ~\E f : f = [l \in 0..k |-> Kept(ps, rules, f, l)]}
<1> SUFFICES ASSUME T # {} PROVE FALSE
  OBVIOUS
<1>1. PICK k \in T : \A y \in T : k <= y
  BY LeastNumber
<1>2. k \in Nat /\ ~\E f : f = [l \in 0..k |-> Kept(ps, rules, f, l)]
  BY <1>1
<1>3. CASE k = 0
  <2> DEFINE e == [l \in 0..0 |-> rules]
  <2>1. e = [l \in 0..k |-> Kept(ps, rules, e, l)]
    BY <1>3 DEF Kept
  <2> QED
    BY <1>2, <2>1
<1>4. CASE k # 0
  <2>1. k - 1 \in Nat /\ k - 1 \notin T
    BY <1>1, <1>2, <1>4
  <2>2. PICK f : f = [l \in 0 .. k-1 |-> Kept(ps, rules, f, l)]
    BY <2>1
  <2> DEFINE e == [l \in 0..k |-> IF l = k THEN Kept(ps, rules, f, k) ELSE f[l]]
  <2>3. ASSUME NEW l \in 0..k
        PROVE  e[l] = Kept(ps, rules, e, l)
    <3>1. l # 0 => l-1 \in 0 .. k-1 /\ e[l-1] = f[l-1]
      BY <1>2
    <3>2. Kept(ps, rules, e, l) = Kept(ps, rules, f, l)
      BY <3>1 DEF Kept
    <3>3. l # k => l \in 0 .. k-1 /\ f[l] = Kept(ps, rules, f, l)
      BY <1>2, <2>2
    <3> QED
      BY <3>2, <3>3
  <2>4. e = [l \in 0..k |-> Kept(ps, rules, e, l)]
    BY <2>3
  <2> QED
    BY <1>2, <2>4
<1> QED
  BY <1>3, <1>4

\* A bulk delete leaves some of the rules.
LEMMA RemovedIs ==
  ASSUME SeqOK(rules_tbl), NEW ps, Len(ps) \in Nat, NEW left, left = Removed(ps)[Len(ps)]
  PROVE  SeqOK(left) /\ ToSet(left) \subseteq ToSet(rules_tbl) /\ Len(left) <= Len(rules_tbl)
<1>0. PICK rules : rules = rules_tbl /\ SeqOK(rules) /\ Len(rules) \in Nat
  BY SeqIs
<1> DEFINE u == CHOOSE f : f = [k \in 0..Len(ps) |-> Kept(ps, rules, f, k)]
<1>1. u = [k \in 0..Len(ps) |-> Kept(ps, rules, u, k)]
  BY KeptExists
<1>2. Removed(ps) = u
  BY <1>0 DEF Removed, Kept
<1> HIDE DEF u
<1> DEFINE P(k) == SeqOK(u[k]) /\ ToSet(u[k]) \subseteq ToSet(rules) /\ Len(u[k]) <= Len(rules)
<1>3. P(0)
  <2>1. u[0] = rules
    BY <1>1 DEF Kept
  <2> QED
    BY <1>0, <2>1
<1>4. ASSUME NEW k \in 1..Len(ps), P(k-1)
      PROVE  P(k)
  <2>1. PICK a : a = u[k-1]
    OBVIOUS
  <2>2. PICK b : b = u[k]
    OBVIOUS
  <2>3. PICK j : j = rule_find(a, mask_ip(ps[k][1], ps[k][2]), ps[k][2])
    OBVIOUS
  <2>4. SeqOK(a) /\ ToSet(a) \subseteq ToSet(rules) /\ Len(a) <= Len(rules) /\ Len(a) \in Nat
    BY <1>4, <2>1, SeqIs
  <2>5. b = IF j = 0 THEN a ELSE rule_delete(a, j)
    <3>1. k \in 0..Len(ps) /\ k # 0
      OBVIOUS
    <3> QED
      BY <1>1, <2>1, <2>2, <2>3, <3>1 DEF Kept
  <2>6. CASE j = 0
    BY <2>2, <2>4, <2>5, <2>6
  <2>7. CASE j # 0
    <3>1. j \in 1..Len(a)
      BY <2>3, <2>4, <2>7, RuleFindIs DEF Found
    <3>2. SeqOK(b) /\ ToSet(b) \subseteq ToSet(a) /\ Len(b) <= Len(a)
      BY <2>4, <2>5, <2>7, <3>1, RuleDeleteIs
    <3>3. Len(b) \in Nat
      BY <3>2, SeqIs
    <3> QED
      BY <1>0, <2>2, <2>4, <3>2, <3>3
  <2> QED
    BY <2>6, <2>7
<1> HIDE DEF P
<1>5. P(Len(ps))
  <2> DEFINE T == {k \in 0..Len(ps) : ~P(k)}
  <2> SUFFICES ASSUME T # {} PROVE FALSE
    OBVIOUS
  <2>1. PICK k \in T : \A y \in T : k <= y
    <3>1. T \subseteq Nat
      OBVIOUS
    <3> QED
      BY <3>1, LeastNumber
  <2>2. k \in 0..Len(ps) /\ ~P(k)
    BY <2>1
  <2>3. k # 0
    BY <1>3, <2>2
  <2>4. k \in 1..Len(ps) /\ k-1 \in 0..Len(ps) /\ k-1 \notin T
    BY <2>1, <2>2, <2>3
  <2>5. P(k-1)
    BY <2>4
  <2> QED
    BY <1>4, <2>2, <2>4, <2>5
<1> QED
  BY <1>0, <1>2, <1>5 DEF P

-----------------------------------------------------------------------------
(* The operations.                                                         *)

\* The inductive invariant of the tables.
TableInv ==
  /\ status \in {"0", "ENOSPC", "ENOENT", "assert"}
  /\ SeqOK(rules_tbl) /\ Len(rules_tbl) <= max_rules
  /\ Tidy(tbl, next_tbl8, ToSet(rules_tbl))

\* rte_lpm6_create
LEMMA InitTables ==
  ASSUME Init
  PROVE  TableInv
<1>1. rules_tbl = <<>> /\ tbl = Zeroed /\ next_tbl8 = 0 /\ status = "0"
  BY DEF Init
<1>2. SeqOK(<<>>) /\ Len(<<>>) <= max_rules
  BY Lpm6Assumption DEF SeqOK
<1>3. ToSet(<<>>) = {}
  BY DEF ToSet
<1> QED
  BY <1>1, <1>2, <1>3, EmptyTidy DEF TableInv

\* The rules that a delete leaves fit in again: the tables before it had room for them.
LEMMA DeletedKeeps ==
  ASSUME TableInv, NEW rules, SeqOK(rules), ToSet(rules) \subseteq ToSet(rules_tbl), Len(rules) <= max_rules,
         NEW st, st \in {"0", "ENOSPC"}, Deleted(rules, st)
  PROVE  TableInv' /\ status' = st /\ rules_tbl' = rules
<1>1. PICK s : s = Rebuild(rules)
  OBVIOUS
<1>2. /\ rules_tbl' = rules /\ tbl' = s.tbl /\ next_tbl8' = s.next_tbl8
      /\ status' = IF s.status = "ENOSPC" THEN "nested" ELSE st
  BY <1>1 DEF Deleted
<1>3. PICK f : Tree(f, next_tbl8) /\ Room(f, ToSet(rules_tbl))
  BY DEF TableInv, Tidy, Good
<1>4. Room(f, ToSet(rules))
  BY <1>3 DEF Room
<1>5. s.status # "ENOSPC" /\ Tidy(s.tbl, s.next_tbl8, ToSet(rules))
  BY <1>1, <1>3, <1>4, RebuildTidy
<1> QED
  BY <1>2, <1>5 DEF TableInv

\* rte_lpm6_delete
LEMMA DeleteKeeps ==
  ASSUME TableInv, NEW ip \in Addr, NEW d \in Depth, rte_lpm6_delete(ip, d)
  PROVE  TableInv' /\ status' # "ENOSPC"
<1>0. SeqOK(rules_tbl) /\ Len(rules_tbl) <= max_rules /\ Len(rules_tbl) \in Nat /\ max_rules \in Nat
  BY SeqIs, Lpm6Assumption DEF TableInv
<1>1. PICK k : k = rule_find(rules_tbl, mask_ip(ip, d), d)
  OBVIOUS
<1>2. CASE k = 0
  <2>1. status' = "ENOENT" /\ UNCHANGED <<rules_tbl, tbl, next_tbl8>>
    BY <1>1, <1>2 DEF rte_lpm6_delete
  <2> QED
    BY <2>1 DEF TableInv
<1>3. CASE k # 0
  <2>1. PICK left : left = rule_delete(rules_tbl, k)
    OBVIOUS
  <2>2. k \in 1..Len(rules_tbl)
    BY <1>0, <1>1, <1>3, RuleFindIs DEF Found
  <2>3. SeqOK(left) /\ ToSet(left) \subseteq ToSet(rules_tbl) /\ Len(left) <= Len(rules_tbl)
    BY <1>0, <2>1, <2>2, RuleDeleteIs
  <2>4. Len(left) <= max_rules
    BY <1>0, <2>3, SeqIs
  <2>5. Deleted(left, "0")
    BY <1>1, <1>3, <2>1 DEF rte_lpm6_delete
  <2> QED
    BY <2>3, <2>4, <2>5, DeletedKeeps
<1> QED
  BY <1>2, <1>3

\* rte_lpm6_delete_bulk_func
LEMMA DeleteBulkKeeps ==
  ASSUME TableInv, NEW ps, Len(ps) \in Nat, rte_lpm6_delete_bulk_func(ps)
  PROVE  TableInv' /\ status' # "ENOSPC"
<1>0. SeqOK(rules_tbl) /\ Len(rules_tbl) <= max_rules /\ Len(rules_tbl) \in Nat /\ max_rules \in Nat
  BY SeqIs, Lpm6Assumption DEF TableInv
<1>1. PICK left : left = Removed(ps)[Len(ps)]
  OBVIOUS
<1>2. SeqOK(left) /\ ToSet(left) \subseteq ToSet(rules_tbl) /\ Len(left) <= Len(rules_tbl)
  BY <1>0, <1>1, RemovedIs
<1>3. Len(left) <= max_rules
  BY <1>0, <1>2, SeqIs
<1>4. Deleted(left, "0")
  BY <1>1 DEF rte_lpm6_delete_bulk_func
<1> QED
  BY <1>2, <1>3, <1>4, DeletedKeeps

\* rte_lpm6_delete_all
LEMMA DeleteAllKeeps ==
  ASSUME rte_lpm6_delete_all
  PROVE  TableInv' /\ status' # "ENOSPC"
<1>1. rules_tbl' = <<>> /\ tbl' = Zeroed /\ next_tbl8' = 0 /\ status' = "0"
  BY DEF rte_lpm6_delete_all
<1>2. SeqOK(<<>>) /\ Len(<<>>) <= max_rules
  BY Lpm6Assumption DEF SeqOK
<1>3. ToSet(<<>>) = {}
  BY DEF ToSet
<1> QED
  BY <1>1, <1>2, <1>3, EmptyTidy DEF TableInv

-----------------------------------------------------------------------------
TheRule(ip, d, h) == [ip |-> mask_ip(ip, d), depth |-> d, next_hop |-> h]

\* rule_add
WithRule(r, k, h) == IF k # 0 THEN [rules_tbl EXCEPT ![k].next_hop = h] ELSE Append(rules_tbl, r)

\* The rule that is added is masked.
LEMMA TheRuleIs ==
  ASSUME NEW ip \in Addr, NEW d \in Depth, NEW h \in NextHops, NEW r, r = TheRule(ip, d, h)
  PROVE  Masked(r) /\ r.ip = mask_ip(ip, d) /\ r.depth = d /\ r.next_hop = h
<1>1. d \in 0..ADDR_BITS /\ d <= d
  BY Bits DEF Depth
<1>2. mask_ip(ip, d) \in Addr /\ mask_ip(mask_ip(ip, d), d) = mask_ip(ip, d)
  BY <1>1, MaskIs, MaskOfMask
<1>3. r.ip = mask_ip(ip, d) /\ r.depth = d /\ r.next_hop = h
  BY DEF TheRule
<1>4. r \in Rule
  BY <1>2 DEF TheRule, Rule
<1> QED
  BY <1>2, <1>3, <1>4 DEF Masked

Appended(rules, r, s) == s = Append(rules, r)
Updated(rules, k, h, s) == s = [rules EXCEPT ![k].next_hop = h]

\* A rules table with one more rule.
LEMMA AppendedIs ==
  ASSUME NEW rules, SeqOK(rules), NEW r, Masked(r), NEW s, Appended(rules, r, s),
         NEW n, n = Len(rules), NEW m, m = n + 1
  PROVE  /\ n \in Nat /\ s \in Seq(Rule) /\ Len(s) = m /\ s[m] = r /\ m \in 1..m
         /\ \A i \in 1..n : s[i] = rules[i] /\ i \in 1..m /\ i # m
         /\ \A i \in 1..m : i = m \/ i \in 1..n
<1>0. n \in Nat /\ rules \in Seq(Rule) /\ r \in Rule
  BY SeqIs DEF SeqOK, Masked
<1>1. s \in Seq(Rule) /\ Len(s) = m /\ s[m] = r
  BY <1>0 DEF Appended
<1>2. \A i \in 1..n : s[i] = rules[i]
  BY <1>0 DEF Appended
<1>3. m \in 1..m /\ (\A i \in 1..n : i \in 1..m /\ i # m) /\ (\A i \in 1..m : i = m \/ i \in 1..n)
  BY <1>0
<1> QED
  BY <1>0, <1>1, <1>2, <1>3

\* A rule for a new prefix is added at the end.
LEMMA AppendIs ==
  ASSUME NEW rules, SeqOK(rules), NEW r, Masked(r), Absent(rules, r.ip, r.depth),
         NEW s, Appended(rules, r, s)
  PROVE  SeqOK(s) /\ ToSet(s) = Replaced(ToSet(rules), r) /\ Len(s) = Len(rules) + 1
<1>1. PICK n : n = Len(rules)
  OBVIOUS
<1>2. PICK m : m = n + 1
  OBVIOUS
<1>3. /\ n \in Nat /\ s \in Seq(Rule) /\ Len(s) = m /\ s[m] = r /\ m \in 1..m
      /\ \A i \in 1..n : s[i] = rules[i] /\ i \in 1..m /\ i # m
      /\ \A i \in 1..m : i = m \/ i \in 1..n
  BY <1>1, <1>2, AppendedIs
<1>a. \A i \in 1..n : ~(rules[i].ip = r.ip /\ rules[i].depth = r.depth)
  BY <1>1 DEF Absent
<1>4. SeqOK(s)
  <2>1. \A i \in 1..m : mask_ip(s[i].ip, s[i].depth) = s[i].ip
    BY <1>1, <1>3 DEF SeqOK, Masked
  <2>2. ASSUME NEW i \in 1..m, NEW j \in 1..m, s[i].ip = s[j].ip, s[i].depth = s[j].depth
        PROVE  i = j
    <3>1. CASE i \in 1..n /\ j \in 1..n
      BY <1>1, <1>3, <2>2, <3>1 DEF SeqOK
    <3>2. CASE ~(i \in 1..n /\ j \in 1..n)
      BY <1>3, <1>a, <2>2, <3>2
    <3> QED
      BY <3>1, <3>2
  <2> QED
    BY <1>3, <2>1, <2>2 DEF SeqOK
<1>5. \A q : q \in ToSet(rules) <=> \E i \in 1..n : q = rules[i]
  BY <1>1, MemberIs
<1>6. \A q : q \in ToSet(s) <=> \E i \in 1..m : q = s[i]
  BY <1>3, <1>4, MemberIs
<1>7. \A q : q \in Replaced(ToSet(rules), r) <=>
               (q \in ToSet(rules) /\ ~(q.ip = r.ip /\ q.depth = r.depth)) \/ q = r
  BY DEF Replaced
<1>9. \A q : q \in ToSet(s) <=> q \in Replaced(ToSet(rules), r)
  BY <1>3, <1>5, <1>6, <1>7, <1>a
<1> QED
  BY <1>1, <1>2, <1>3, <1>4, <1>9

\* A rule for a known prefix gets its new next hop.
LEMMA UpdateIs ==
  ASSUME NEW rules, SeqOK(rules), NEW r, Masked(r), NEW k, Found(rules, k, r.ip, r.depth),
         NEW h, h = r.next_hop, NEW s, Updated(rules, k, h, s)
  PROVE  SeqOK(s) /\ ToSet(s) = Replaced(ToSet(rules), r) /\ Len(s) = Len(rules)
<1>0. PICK n \in Nat : /\ n = Len(rules) /\ DOMAIN rules = 1..n /\ rules \in Seq(Rule)
                       /\ k \in 1..n /\ rules[k].ip = r.ip /\ rules[k].depth = r.depth
  BY SeqIs DEF SeqOK, Found
<1>1. PICK q : q = rules[k]
  OBVIOUS
<1>2. [q EXCEPT !.next_hop = h] = r
  <2>1. q \in Rule /\ r \in Rule /\ q.ip = r.ip /\ q.depth = r.depth
    BY <1>0, <1>1 DEF Masked
  <2> QED
    BY <2>1 DEF Rule
<1>3. s = [rules EXCEPT ![k] = r]
  BY <1>0, <1>1, <1>2 DEF Updated
<1>4. s \in Seq(Rule) /\ Len(s) = n /\ \A i \in 1..n : s[i] = IF i = k THEN r ELSE rules[i]
  <2>1. r \in Rule
    BY DEF Masked
  <2> QED
    BY <1>0, <1>3, <2>1
<1> HIDE DEF Updated
<1>5. SeqOK(s)
  <2>1. \A i \in 1..n : mask_ip(s[i].ip, s[i].depth) = s[i].ip
    BY <1>0, <1>4 DEF SeqOK, Masked
  <2>2. \A i \in 1..n : s[i].ip = rules[i].ip /\ s[i].depth = rules[i].depth
    BY <1>0, <1>4
  <2>3. \A i, j \in 1..n : s[i].ip = s[j].ip /\ s[i].depth = s[j].depth => i = j
    BY <1>0, <2>2 DEF SeqOK
  <2> QED
    BY <1>4, <2>1, <2>3 DEF SeqOK
<1>6. \A p : p \in ToSet(rules) <=> \E i \in 1..n : p = rules[i]
  BY <1>0, MemberIs
<1>7. \A p : p \in ToSet(s) <=> \E i \in 1..n : p = s[i]
  BY <1>4, <1>5, MemberIs
<1>8. \A p : p \in Replaced(ToSet(rules), r) <=>
               (p \in ToSet(rules) /\ ~(p.ip = r.ip /\ p.depth = r.depth)) \/ p = r
  BY DEF Replaced
<1>9. \A i \in 1..n : i # k => ~(rules[i].ip = r.ip /\ rules[i].depth = r.depth)
  BY <1>0 DEF SeqOK
<1>10. \A p : p \in ToSet(s) <=> p \in Replaced(ToSet(rules), r)
  <2> SUFFICES ASSUME NEW p PROVE p \in ToSet(s) <=> p \in Replaced(ToSet(rules), r)
    OBVIOUS
  <2>1. ASSUME p \in ToSet(s) PROVE p \in Replaced(ToSet(rules), r)
    <3>1. PICK i \in 1..n : p = s[i]
      BY <1>7, <2>1
    <3>2. CASE i = k
      BY <1>4, <1>8, <3>1, <3>2
    <3>3. CASE i # k
      <4>1. p = rules[i]
        BY <1>4, <3>1, <3>3
      <4> QED
        BY <1>6, <1>8, <1>9, <3>3, <4>1
    <3> QED
      BY <3>2, <3>3
  <2>2. ASSUME p \in Replaced(ToSet(rules), r) PROVE p \in ToSet(s)
    <3>1. CASE p = r
      BY <1>0, <1>4, <1>7, <3>1
    <3>2. CASE p # r
      <4>1. p \in ToSet(rules) /\ ~(p.ip = r.ip /\ p.depth = r.depth)
        BY <1>8, <2>2, <3>2
      <4>2. PICK i \in 1..n : p = rules[i]
        BY <1>6, <4>1
      <4>3. i # k
        BY <1>0, <4>1, <4>2
      <4> QED
        BY <1>4, <1>7, <4>2, <4>3
    <3> QED
      BY <3>1, <3>2
  <2> QED
    BY <2>1, <2>2
<1> QED
  BY <1>0, <1>4, <1>5, <1>10

\* Taking back the rule just appended gives the rules as they were.
LEMMA TakenBack ==
  ASSUME NEW rules, SeqOK(rules), NEW r, Masked(r), Absent(rules, r.ip, r.depth),
         NEW s, Appended(rules, r, s), NEW ip, ip = r.ip, NEW d, d = r.depth
  PROVE  rule_delete(s, rule_find(s, ip, d)) = rules
<1>0. PICK n : n = Len(rules)
  OBVIOUS
<1>1. PICK m : m = n + 1
  OBVIOUS
<1>2. /\ n \in Nat /\ s \in Seq(Rule) /\ Len(s) = m /\ s[m] = r /\ m \in 1..m
      /\ \A i \in 1..n : s[i] = rules[i] /\ i \in 1..m /\ i # m
      /\ \A i \in 1..m : i = m \/ i \in 1..n
  BY <1>0, <1>1, AppendedIs
<1>3. SeqOK(s)
  BY AppendIs
<1>a. \A i \in 1..n : ~(s[i].ip = ip /\ s[i].depth = d)
  BY <1>0, <1>2 DEF Absent
<1>4. PICK k : k = rule_find(s, ip, d)
  OBVIOUS
<1>5. k = m
  <2>1. ~Absent(s, ip, d)
    BY <1>2 DEF Absent
  <2>2. Found(s, k, ip, d)
    BY <1>3, <1>4, <2>1, RuleFindIs
  <2>3. k \in 1..m /\ s[k].ip = ip /\ s[k].depth = d
    BY <1>2, <2>2 DEF Found
  <2> QED
    BY <1>2, <1>a, <2>3
<1>6. [s EXCEPT ![m] = s[m]] = s
  BY <1>2
<1>7. rule_delete(s, k) = SubSeq(s, 1, Len(s) - 1)
  BY <1>2, <1>5, <1>6 DEF rule_delete, Front, Last
<1>8. PICK left : left = rule_delete(s, k)
  OBVIOUS
<1>9. left \in Seq(Rule) /\ Len(left) = n /\ \A i \in 1..n : left[i] = s[i]
  BY <1>1, <1>2, <1>7, <1>8, FrontIs
<1>10. rules \in Seq(Rule) /\ Len(rules) = n /\ \A i \in 1..n : left[i] = rules[i]
  BY <1>0, <1>2, <1>9 DEF SeqOK
<1>11. left = rules
  BY <1>2, <1>9, <1>10
<1> QED
  BY <1>4, <1>8, <1>11

\* rte_lpm6_add
LEMMA AddKeeps ==
  ASSUME TableInv, NEW ip \in Addr, NEW d \in Depth, NEW h \in NextHops, rte_lpm6_add(ip, d, h)
  PROVE  TableInv' /\ (status' = "ENOSPC" => rules_tbl' = rules_tbl)
<1>0. SeqOK(rules_tbl) /\ Len(rules_tbl) <= max_rules /\ Len(rules_tbl) \in Nat /\ max_rules \in Nat
  BY SeqIs, Lpm6Assumption DEF TableInv
<1>1. PICK r : r = TheRule(ip, d, h)
  OBVIOUS
<1>2. Masked(r) /\ r.ip = mask_ip(ip, d) /\ r.depth = d /\ r.next_hop = h
  BY <1>1, TheRuleIs
<1>3. PICK k : k = rule_find(rules_tbl, r.ip, d)
  OBVIOUS
<1>4. PICK rules : rules = WithRule(r, k, h)
  OBVIOUS
<1>5. PICK b : b = Begin(tbl, next_tbl8)
  OBVIOUS
<1>6. PICK s : s = Install(b, r)
  OBVIOUS
<1>7. \/ /\ k = 0 /\ status' = "assert" /\ UNCHANGED <<rules_tbl, tbl, next_tbl8>>
      \/ /\ k # 0 \/ Len(rules_tbl) < max_rules
         /\ s.status = "0" /\ rules_tbl' = rules /\ tbl' = s.tbl /\ next_tbl8' = s.next_tbl8 /\ status' = "0"
      \/ /\ k # 0 \/ Len(rules_tbl) < max_rules
         /\ s.status = "ENOSPC"
         /\ Deleted(rule_delete(rules, rule_find(rules, r.ip, d)), "ENOSPC")
  BY <1>1, <1>3, <1>4, <1>5, <1>6 DEF rte_lpm6_add, TheRule, WithRule
<1>8. PICK R : R = ToSet(rules_tbl)
  OBVIOUS
<1>9. b.tbl = tbl /\ b.next_tbl8 = next_tbl8
  BY <1>5 DEF Begin
<1>10. Tidy(b.tbl, b.next_tbl8, R)
  BY <1>8, <1>9 DEF TableInv
<1>11. /\ s.status = "0" => Tidy(s.tbl, s.next_tbl8, Replaced(R, r))
       /\ s.status = "ENOSPC" => ~\E F, n : Tree(F, n) /\ Room(F, Replaced(R, r))
  BY <1>2, <1>6, <1>10, InstallTidy
<1>12. k = 0 => Absent(rules_tbl, r.ip, r.depth)
  BY <1>0, <1>2, <1>3, RuleFindIs
<1>13. k # 0 => Found(rules_tbl, k, r.ip, r.depth)
  BY <1>0, <1>2, <1>3, RuleFindIs
<1>14. ASSUME k # 0 \/ Len(rules_tbl) < max_rules
       PROVE  SeqOK(rules) /\ ToSet(rules) = Replaced(R, r) /\ Len(rules) <= max_rules
  <2>1. CASE k = 0
    <3>1. Appended(rules_tbl, r, rules)
      BY <1>4, <2>1 DEF WithRule, Appended
    <3>2. SeqOK(rules) /\ ToSet(rules) = Replaced(R, r) /\ Len(rules) = Len(rules_tbl) + 1
      BY <1>0, <1>2, <1>8, <1>12, <2>1, <3>1, AppendIs
    <3> QED
      BY <1>0, <1>14, <2>1, <3>2
  <2>2. CASE k # 0
    <3>1. Updated(rules_tbl, k, h, rules)
      BY <1>4, <2>2 DEF WithRule, Updated
    <3>2. SeqOK(rules) /\ ToSet(rules) = Replaced(R, r) /\ Len(rules) = Len(rules_tbl)
      BY <1>0, <1>2, <1>8, <1>13, <2>2, <3>1, UpdateIs
    <3> QED
      BY <1>0, <3>2
  <2> QED
    BY <2>1, <2>2
<1>15. CASE k = 0 /\ status' = "assert" /\ UNCHANGED <<rules_tbl, tbl, next_tbl8>>
  BY <1>15 DEF TableInv
<1>16. CASE /\ k # 0 \/ Len(rules_tbl) < max_rules
            /\ s.status = "0" /\ rules_tbl' = rules /\ tbl' = s.tbl /\ next_tbl8' = s.next_tbl8 /\ status' = "0"
  <2>1. SeqOK(rules) /\ Len(rules) <= max_rules /\ Tidy(s.tbl, s.next_tbl8, ToSet(rules))
    BY <1>11, <1>14, <1>16
  <2> QED
    BY <1>16, <2>1 DEF TableInv
<1>17. CASE /\ k # 0 \/ Len(rules_tbl) < max_rules
            /\ s.status = "ENOSPC"
            /\ Deleted(rule_delete(rules, rule_find(rules, r.ip, d)), "ENOSPC")
  <2>1. PICK f : Tree(f, next_tbl8) /\ Room(f, R)
    BY <1>8 DEF TableInv, Tidy, Good
  <2>2. k = 0
    <3> SUFFICES ASSUME k # 0 PROVE FALSE
      OBVIOUS
    <3>1. PICK q \in R : q.ip = r.ip /\ q.depth = r.depth
      BY <1>0, <1>8, <1>13, SeqIs DEF Found
    <3>2. \A p : p \in Replaced(R, r) <=> (p \in R /\ ~(p.ip = r.ip /\ p.depth = r.depth)) \/ p = r
      BY DEF Replaced
    <3>3. Room(f, Replaced(R, r))
      BY <2>1, <3>1, <3>2 DEF Room
    <3> QED
      BY <1>11, <1>17, <2>1, <3>3
  <2>3. Appended(rules_tbl, r, rules)
    BY <1>4, <2>2 DEF WithRule, Appended
  <2>4. rule_delete(rules, rule_find(rules, r.ip, d)) = rules_tbl
    BY <1>0, <1>2, <1>12, <2>2, <2>3, TakenBack
  <2>5. PICK left : left = rules_tbl /\ Deleted(left, "ENOSPC")
    BY <1>17, <2>4
  <2>6. SeqOK(left) /\ ToSet(left) \subseteq ToSet(rules_tbl) /\ Len(left) <= max_rules
    BY <1>0, <2>5
  <2> QED
    BY <2>5, <2>6, DeletedKeeps
<1> QED
  BY <1>7, <1>15, <1>16, <1>17

\* Every operation keeps the invariant, and one that returns -ENOSPC leaves
\* the rules table as it was.
LEMMA NextKeeps ==
  ASSUME TableInv, Next
  PROVE  TableInv' /\ (status' = "ENOSPC" => rules_tbl' = rules_tbl)
<1>1. CASE \E ip \in Addr, d \in Depth, h \in NextHops : rte_lpm6_add(ip, d, h)
  BY <1>1, AddKeeps
<1>2. CASE \E ip \in Addr, d \in Depth : rte_lpm6_delete(ip, d)
  BY <1>2, DeleteKeeps
<1>3. CASE \E p, q \in {<<r.ip, r.depth>> : r \in ToSet(rules_tbl)} : rte_lpm6_delete_bulk_func(<<p, q>>)
  <2>1. PICK p, q : rte_lpm6_delete_bulk_func(<<p, q>>)
    BY <1>3
  <2>2. PICK ps : ps = <<p, q>>
    OBVIOUS
  <2>3. Len(ps) \in Nat
    BY <2>2
  <2>4. rte_lpm6_delete_bulk_func(ps)
    BY <2>1, <2>2
  <2> QED
    BY <2>3, <2>4, DeleteBulkKeeps
<1>4. CASE rte_lpm6_delete_all
  BY <1>4, DeleteAllKeeps
<1> QED
  BY <1>1, <1>2, <1>3, <1>4 DEF Next

-----------------------------------------------------------------------------
(* What a lookup finds.                                                    *)

\* v is the next hop of the longest of the rules that match, -1 if none does.
Answer(R, ip, v) ==
  \/ v = -1 /\ \A q \in R : mask_ip(ip, q.depth) # q.ip
  \/ \E r \in R : /\ mask_ip(ip, r.depth) = r.ip /\ v = r.next_hop
                  /\ \A q \in R : mask_ip(ip, q.depth) = q.ip => q.depth <= r.depth

\* LongestMatch is such a next hop, and there is only one.
LEMMA LongestMatchIs ==
  ASSUME NEW rules, SeqOK(rules), NEW ip \in Addr, NEW v, Answer(ToSet(rules), ip, v)
  PROVE  LongestMatch(rules, ip) = v
<1>1. PICK R : R = ToSet(rules) /\ RulesOK(R)
  BY SeqIs
<1>2. PICK m : m = Matches(rules, ip)
  OBVIOUS
<1>3. \A q : q \in m <=> q \in R /\ mask_ip(ip, q.depth) = q.ip
  BY <1>1, <1>2 DEF Matches
<1>4. LongestMatch(rules, ip) = IF m = {} THEN -1
                                ELSE (CHOOSE r \in m : \A q \in m : q.depth <= r.depth).next_hop
  BY <1>2 DEF LongestMatch
<1>5. CASE v = -1 /\ \A q \in R : mask_ip(ip, q.depth) # q.ip
  BY <1>3, <1>4, <1>5
<1>6. CASE \E r \in R : /\ mask_ip(ip, r.depth) = r.ip /\ v = r.next_hop
                        /\ \A q \in R : mask_ip(ip, q.depth) = q.ip => q.depth <= r.depth
  <2>1. PICK r \in R : /\ mask_ip(ip, r.depth) = r.ip /\ v = r.next_hop
                       /\ \A q \in R : mask_ip(ip, q.depth) = q.ip => q.depth <= r.depth
    BY <1>6
  <2>2. r \in m /\ \A q \in m : q.depth <= r.depth
    BY <1>3, <2>1
  <2>3. PICK c : c = CHOOSE p \in m : \A q \in m : q.depth <= p.depth
    OBVIOUS
  <2>4. c \in m /\ \A q \in m : q.depth <= c.depth
    BY <2>2, <2>3
  <2>5. c \in R /\ c.depth \in Nat /\ r.depth \in Nat
    BY <1>1, <1>3, <2>4, Bits DEF RulesOK, Rule, Depth
  <2>6. c.depth = r.depth
    BY <2>2, <2>4, <2>5
  <2>7. c.ip = r.ip
    BY <1>3, <2>1, <2>4, <2>6
  <2>8. c = r
    BY <1>1, <2>5, <2>6, <2>7 DEF RulesOK
  <2> QED
    BY <1>4, <2>1, <2>2, <2>3, <2>8
<1> QED
  BY <1>1, <1>5, <1>6 DEF Answer

\* An entry with no table below it answers for its addresses.
LEMMA LeafAnswers ==
  ASSUME NEW t, NEW f, NEW n, NEW R, Good(t, n, R, f), RulesOK(R),
         NEW ip \in Addr, NEW l \in Level, In(f, ip, l), ~In(f, ip, l+1),
         NEW e, e = Cell(t, f, ip, l), NEW v, v = IF e.valid THEN e.next_hop ELSE -1
  PROVE  Answer(R, ip, v)
<1>1. Holds(R, ip, l, e) /\ Room(f, R)
  BY DEF Good, Contents
<1>2. ASSUME NEW q \in R, mask_ip(ip, q.depth) = q.ip
      PROVE  Applies(q, ip, l)
  <2>1. Masked(q)
    BY DEF RulesOK, Masked
  <2>2. PICK p \in Addr : p = q.ip
    BY <2>1, RuleIs
  <2>3. PICK d \in 0..ADDR_BITS : d = q.depth /\ mask_ip(p, d) = p /\ mask_ip(ip, d) = p
    BY <1>2, <2>1, <2>2, RuleIs
  <2>4. Start(l+1) = bits_covered(l) /\ Start(l+1) \in 0..ADDR_BITS /\ l+1 \in 0 .. LEVELS+1
    BY Levels DEF Level
  <2>5. d <= bits_covered(l)
    <3> SUFFICES ASSUME ~(d <= bits_covered(l)) PROVE FALSE
      OBVIOUS
    <3>1. l+1 \in Level /\ Start(l+1) < d /\ Start(l+1) <= d
      BY <2>1, <2>3, <2>4, NextLevel, Bits
    <3>2. In(f, p, l+1)
      BY <1>1, <2>2, <2>3, <3>1 DEF Room
    <3>3. Place(ip, l+1) = Place(p, l+1)
      BY <2>3, <2>4, <3>1, MaskPlace
    <3> QED
      BY <3>2, <3>3, SameIn
  <2> QED
    BY <1>2, <2>3, <2>5 DEF Applies
<1>3. CASE e.valid
  <2>1. PICK r \in R : /\ Applies(r, ip, l) /\ e.next_hop = r.next_hop
                       /\ \A q \in R : Applies(q, ip, l) => q.depth <= r.depth
    BY <1>1, <1>3 DEF Holds
  <2>2. mask_ip(ip, r.depth) = r.ip
    BY <2>1 DEF Applies
  <2>3. v = r.next_hop
    BY <1>3, <2>1
  <2>4. \A q \in R : mask_ip(ip, q.depth) = q.ip => q.depth <= r.depth
    BY <1>2, <2>1
  <2> QED
    BY <2>2, <2>3, <2>4 DEF Answer
<1>4. CASE ~e.valid
  <2>1. \A q \in R : ~Applies(q, ip, l)
    BY <1>1, <1>4 DEF Holds
  <2>2. \A q \in R : mask_ip(ip, q.depth) # q.ip
    BY <1>2, <2>1
  <2>3. v = -1
    BY <1>4
  <2> QED
    BY <2>2, <2>3 DEF Answer
<1> QED
  BY <1>3, <1>4

-----------------------------------------------------------------------------
Follow(t, ip, l, p) == IF p.valid /\ p.ext_entry THEN t[p.next_hop][tbl_index(ip, l)] ELSE p
Walked(t, ip, f, l) == IF l = 0 THEN t[TBL24][tbl_index(ip, 0)] ELSE Follow(t, ip, l, f[l-1])

\* A step of the walk uses the one before only.
LEMMA SameWalk ==
  ASSUME NEW t, NEW ip, NEW e, NEW f, NEW l, l # 0 => e[l-1] = f[l-1]
  PROVE  Walked(t, ip, e, l) = Walked(t, ip, f, l)
BY DEF Walked

\* The recursive function of lookup_step exists.
LEMMA WalkedExists ==
  ASSUME NEW t, NEW ip, NEW m \in Nat
  PROVE  \E f : f = [l \in 0..m |-> Walked(t, ip, f, l)]
<1> DEFINE T == {k \in Nat : ~\E f : f = [l \in 0..k |-> Walked(t, ip, f, l)]}
<1> SUFFICES ASSUME T # {} PROVE FALSE
  OBVIOUS
<1>1. PICK k \in T : \A y \in T : k <= y
  BY LeastNumber
<1>2. k \in Nat /\ ~\E f : f = [l \in 0..k |-> Walked(t, ip, f, l)]
  BY <1>1
<1>3. CASE k = 0
  <2> DEFINE e == [l \in 0..0 |-> t[TBL24][tbl_index(ip, 0)]]
  <2>1. e = [l \in 0..k |-> Walked(t, ip, e, l)]
    BY <1>3 DEF Walked
  <2> QED
    BY <1>2, <2>1
<1>4. CASE k # 0
  <2>1. k - 1 \in Nat /\ k - 1 \notin T
    BY <1>1, <1>2, <1>4
  <2>2. PICK f : f = [l \in 0 .. k-1 |-> Walked(t, ip, f, l)]
    BY <2>1
  <2> DEFINE e == [l \in 0..k |-> IF l = k THEN Walked(t, ip, f, k) ELSE f[l]]
  <2>3. ASSUME NEW l \in 0..k
        PROVE  e[l] = Walked(t, ip, e, l)
    <3>1. l # 0 => l-1 \in 0 .. k-1 /\ e[l-1] = f[l-1]
      BY <1>2
    <3>2. Walked(t, ip, e, l) = Walked(t, ip, f, l)
      BY <3>1, SameWalk
    <3>3. l # k => l \in 0 .. k-1 /\ f[l] = Walked(t, ip, f, l)
      BY <1>2, <2>2
    <3> QED
      BY <3>2, <3>3
  <2>4. e = [l \in 0..k |-> Walked(t, ip, e, l)]
    BY <2>3
  <2> QED
    BY <1>2, <2>4
<1> QED
  BY <1>3, <1>4

\* lookup_step, level by level.
LEMMA LookupStepIs ==
  ASSUME NEW t, NEW ip
  PROVE  \E u : /\ lookup_step(t, ip)[LEVELS] = u[LEVELS]
                /\ u[0] = t[TBL24][tbl_index(ip, 0)]
                /\ \A l \in 1..LEVELS :
                     u[l] = IF u[l-1].valid /\ u[l-1].ext_entry THEN t[u[l-1].next_hop][tbl_index(ip, l)]
                            ELSE u[l-1]
<1>0. LEVELS \in Nat
  BY Levels
<1> DEFINE u == CHOOSE f : f = [l \in 0..LEVELS |-> Walked(t, ip, f, l)]
<1>1. u = [l \in 0..LEVELS |-> Walked(t, ip, u, l)]
  BY <1>0, WalkedExists
<1>2. lookup_step(t, ip) = u
  BY DEF lookup_step, Walked, Follow
<1> HIDE DEF u
<1>3. u[0] = t[TBL24][tbl_index(ip, 0)]
  BY <1>0, <1>1 DEF Walked
<1>4. ASSUME NEW l \in 1..LEVELS
      PROVE  u[l] = IF u[l-1].valid /\ u[l-1].ext_entry THEN t[u[l-1].next_hop][tbl_index(ip, l)]
                    ELSE u[l-1]
  <2>1. l \in 0..LEVELS /\ l # 0
    BY <1>0
  <2> QED
    BY <1>1, <2>1 DEF Walked, Follow
<1> QED
  BY <1>2, <1>3, <1>4

\* The cell of the last place of an address.
LeafCell(t, f, ip, e) ==
  \E m \in Level : In(f, ip, m) /\ ~In(f, ip, m+1) /\ e = Cell(t, f, ip, m)

\* A lookup follows the places of its address to the last one.
LEMMA WalkEnds ==
  ASSUME NEW t, NEW f, NEW n, NEW R, Good(t, n, R, f), NEW ip \in Addr
  PROVE  LeafCell(t, f, ip, lookup_step(t, ip)[LEVELS])
<1>0. LEVELS \in Nat /\ Tree(f, n)
  BY Levels DEF Good
<1>1. PICK u : /\ lookup_step(t, ip)[LEVELS] = u[LEVELS]
               /\ u[0] = t[TBL24][tbl_index(ip, 0)]
               /\ \A l \in 1..LEVELS :
                    u[l] = IF u[l-1].valid /\ u[l-1].ext_entry THEN t[u[l-1].next_hop][tbl_index(ip, l)]
                           ELSE u[l-1]
  BY LookupStepIs
<1> DEFINE P(l) == (In(f, ip, l) /\ u[l] = Cell(t, f, ip, l)) \/ LeafCell(t, f, ip, u[l])
<1>2. P(0)
  <2>1. In(f, ip, 0) /\ TableOf(f, ip, 0) = TBL24
    BY <1>0 DEF Tree, Root
  <2> QED
    BY <1>1, <2>1 DEF Cell
<1>3. ASSUME NEW l \in 1..LEVELS, P(l-1)
      PROVE  P(l)
  <2>0. l-1 \in Level /\ (l-1)+1 = l
    BY <1>0 DEF Level
  <2>1. PICK k \in Level : k = l-1 /\ l = k+1
    BY <2>0
  <2>2. PICK e : e = u[k]
    OBVIOUS
  <2>3. PICK c : c = u[l]
    OBVIOUS
  <2>4. c = IF e.valid /\ e.ext_entry THEN t[e.next_hop][tbl_index(ip, l)] ELSE e
    BY <1>1, <2>1, <2>2, <2>3
  <2>5. CASE In(f, ip, k) /\ e = Cell(t, f, ip, k)
    <3>1. CASE In(f, ip, k+1)
      <4>1. e.valid /\ e.ext_entry /\ e.next_hop = TableOf(f, ip, k+1)
        BY <2>5, <3>1, ExtMeans
      <4>2. c = Cell(t, f, ip, l)
        BY <2>1, <2>4, <4>1 DEF Cell
      <4> QED
        BY <2>1, <2>3, <3>1, <4>2
    <3>2. CASE ~In(f, ip, k+1)
      <4>1. ~e.ext_entry
        BY <2>5, <3>2, ExtMeans
      <4>2. c = e
        BY <2>4, <4>1
      <4>3. LeafCell(t, f, ip, c)
        BY <2>5, <3>2, <4>2 DEF LeafCell
      <4> QED
        BY <2>3, <4>3
    <3> QED
      BY <3>1, <3>2
  <2>6. CASE LeafCell(t, f, ip, e)
    <3>1. PICK m \in Level : In(f, ip, m) /\ ~In(f, ip, m+1) /\ e = Cell(t, f, ip, m)
      BY <2>6 DEF LeafCell
    <3>2. ~e.ext_entry
      BY <3>1, ExtMeans
    <3>3. c = e
      BY <2>4, <3>2
    <3> QED
      BY <2>3, <2>6, <3>3
  <2> QED
    BY <1>3, <2>1, <2>2, <2>5, <2>6
<1> HIDE DEF P
<1>4. P(LEVELS)
  <2> DEFINE T == {k \in 0..LEVELS : ~P(k)}
  <2> SUFFICES ASSUME T # {} PROVE FALSE
    BY <1>0
  <2>1. PICK k \in T : \A y \in T : k <= y
    <3>1. T \subseteq Nat
      OBVIOUS
    <3> QED
      BY <3>1, LeastNumber
  <2>2. k \in 0..LEVELS /\ ~P(k)
    BY <2>1
  <2>3. k # 0
    BY <1>2, <2>2
  <2>4. k \in 1..LEVELS /\ k-1 \in 0..LEVELS /\ k-1 \notin T
    BY <1>0, <2>1, <2>2, <2>3
  <2>5. P(k-1)
    BY <2>4
  <2> QED
    BY <1>3, <2>2, <2>4, <2>5
<1>5. ~In(f, ip, LEVELS+1)
  <2>1. LEVELS+1 \notin Level
    BY <1>0 DEF Level
  <2> QED
    BY <1>0, <2>1, InLevel
<1>6. LEVELS \in Level
  BY Levels
<1> QED
  BY <1>1, <1>4, <1>5, <1>6 DEF P, LeafCell

\* What rte_lpm6_lookup returns is the answer.
LEMMA LookupAnswers ==
  ASSUME NEW t, NEW n, NEW R, Tidy(t, n, R), NEW ip \in Addr
  PROVE  Answer(R, ip, rte_lpm6_lookup(t, ip))
<1>1. PICK f : Good(t, n, R, f) /\ RulesOK(R)
  BY DEF Tidy
<1>2. PICK e : e = lookup_step(t, ip)[LEVELS]
  OBVIOUS
<1>3. PICK l \in Level : In(f, ip, l) /\ ~In(f, ip, l+1) /\ e = Cell(t, f, ip, l)
  BY <1>1, <1>2, WalkEnds DEF LeafCell
<1>4. PICK v : v = IF e.valid THEN e.next_hop ELSE -1
  OBVIOUS
<1>5. Answer(R, ip, v)
  BY <1>1, <1>3, <1>4, LeafAnswers
<1>6. rte_lpm6_lookup(t, ip) = v
  BY <1>2, <1>4 DEF rte_lpm6_lookup
<1> QED
  BY <1>5, <1>6

\* The invariant makes the tables answer for the rules.
LEMMA TablesAnswer ==
  ASSUME TableInv, NEW ip \in Addr
  PROVE  rte_lpm6_lookup(tbl, ip) = LongestMatch(rules_tbl, ip)
BY LookupAnswers, LongestMatchIs DEF TableInv

-----------------------------------------------------------------------------
\* The invariant gives the types.
LEMMA InvTypeOK ==
  ASSUME TableInv
  PROVE  TypeOK
<1>1. PICK f : Good(tbl, next_tbl8, ToSet(rules_tbl), f)
  BY DEF TableInv, Tidy
<1>2. next_tbl8 \in 0..number_tbl8s /\ TablesOK(tbl, next_tbl8)
  BY <1>1 DEF Good, Tree
<1> QED
  BY <1>2 DEF TypeOK, TableInv, TablesOK, SeqOK

\* The entries that point to group g.
Parents(g) == {p \in UNION {{x} \X Index(x) : x \in Table} :
                 tbl[p[1]][p[2]].ext_entry /\ tbl[p[1]][p[2]].next_hop = g}

\* They are the entries above the place of the group.
LEMMA ParentsAre ==
  ASSUME TableInv, NEW g \in Group, NEW f, Good(tbl, next_tbl8, ToSet(rules_tbl), f),
         NEW x, NEW i
  PROVE  <<x, i>> \in Parents(g) <=>
           \E ip \in Addr, l \in Level : /\ In(f, ip, l) /\ In(f, ip, l+1) /\ TableOf(f, ip, l+1) = g
                                         /\ x = TableOf(f, ip, l) /\ i = tbl_index(ip, l)
<1>0. Tree(f, next_tbl8) /\ TablesOK(tbl, next_tbl8) /\ next_tbl8 \in Nat
  BY Lpm6Assumption DEF Good, Tree
<1>1. <<x, i>> \in Parents(g) <=> x \in Table /\ i \in Index(x) /\ tbl[x][i].ext_entry /\ tbl[x][i].next_hop = g
  BY DEF Parents
<1>2. ASSUME NEW ip \in Addr, NEW l \in Level, In(f, ip, l), In(f, ip, l+1), TableOf(f, ip, l+1) = g,
             x = TableOf(f, ip, l), i = tbl_index(ip, l)
      PROVE  x \in Table /\ i \in Index(x) /\ tbl[x][i].ext_entry /\ tbl[x][i].next_hop = g
  <2>1. x \in Table /\ i \in Index(x)
    BY <1>0, <1>2, TableOfIs
  <2>2. Cell(tbl, f, ip, l) = tbl[x][i]
    BY <1>2 DEF Cell
  <2>3. Cell(tbl, f, ip, l).ext_entry /\ Cell(tbl, f, ip, l).next_hop = g
    BY <1>2, ExtMeans
  <2> QED
    BY <2>1, <2>2, <2>3
<1>3. ASSUME x \in Table, i \in Index(x), tbl[x][i].ext_entry, tbl[x][i].next_hop = g
      PROVE  \E ip \in Addr, l \in Level : /\ In(f, ip, l) /\ In(f, ip, l+1) /\ TableOf(f, ip, l+1) = g
                                           /\ x = TableOf(f, ip, l) /\ i = tbl_index(ip, l)
  <2>1. \E jp \in Addr, l \in Level : In(f, jp, l) /\ TableOf(f, jp, l) = x
    <3>1. CASE x = TBL24
      <4>1. 0 \in Addr /\ 0 \in Level
        BY AddrIs, Levels
      <4> QED
        BY <1>0, <3>1, <4>1 DEF Tree, Root
    <3>2. CASE x # TBL24 /\ x < next_tbl8
      <4>1. x \in 0..next_tbl8-1
        BY <1>0, <1>3, <3>2 DEF Table, Group
      <4> QED
        BY <1>0, <4>1 DEF Tree, Onto
    <3>3. CASE x # TBL24 /\ ~(x < next_tbl8)
      <4>1. x \in Group /\ x >= next_tbl8
        BY <1>0, <1>3, <3>3 DEF Table, Group
      <4>2. tbl[x] = Zeroed[x]
        BY <1>0, <4>1 DEF TablesOK
      <4>3. Zeroed[x][i] = NoEntry
        BY <1>3 DEF Zeroed
      <4>4. NoEntry.ext_entry = FALSE
        BY DEF NoEntry
      <4> QED
        BY <1>3, <4>2, <4>3, <4>4
    <3> QED
      BY <3>1, <3>2, <3>3
  <2>2. PICK jp \in Addr, l \in Level : In(f, jp, l) /\ TableOf(f, jp, l) = x
    BY <2>1
  <2>3. PICK ip \in Addr : /\ tbl_index(ip, l) = i /\ In(f, ip, l) /\ TableOf(f, ip, l) = x
                           /\ Cell(tbl, f, ip, l) = tbl[x][i]
    BY <1>0, <1>3, <2>2, CellOf
  <2>4. In(f, ip, l+1) /\ TableOf(f, ip, l+1) = g
    BY <1>3, <2>3, ExtMeans
  <2> QED
    BY <2>3, <2>4
<1> QED
  BY <1>1, <1>2, <1>3

\* A group in use has one, and no other group has any.
LEMMA ParentCount ==
  ASSUME TableInv, NEW g \in Group
  PROVE  Cardinality(Parents(g)) = IF g < next_tbl8 THEN 1 ELSE 0
<1>1. PICK f : Good(tbl, next_tbl8, ToSet(rules_tbl), f)
  BY DEF TableInv, Tidy
<1>0. Tree(f, next_tbl8) /\ next_tbl8 \in Nat /\ g \in Nat
  BY <1>1, Lpm6Assumption DEF Good, Tree, Group
<1>2. \A p \in Parents(g) : p = <<p[1], p[2]>>
  BY DEF Parents
<1>3. CASE g < next_tbl8
  <2>1. PICK ip \in Addr, k \in Level : k # 0 /\ In(f, ip, k) /\ TableOf(f, ip, k) = g
    <3>1. g \in 0..next_tbl8-1
      BY <1>0, <1>3
    <3> QED
      BY <1>0, <3>1 DEF Tree, Onto
  <2>2. PICK l \in Level : l+1 = k /\ l <= k
    <3>1. k-1 \in Level /\ (k-1)+1 = k /\ k-1 <= k
      BY <2>1, Levels DEF Level
    <3> QED
      BY <3>1
  <2>3. In(f, ip, l)
    BY <1>0, <2>1, <2>2 DEF Tree, Closed
  <2>4. PICK x : x = TableOf(f, ip, l)
    OBVIOUS
  <2>5. PICK i : i = tbl_index(ip, l)
    OBVIOUS
  <2>6. <<x, i>> \in Parents(g)
    BY <1>1, <2>1, <2>2, <2>3, <2>4, <2>5, ParentsAre
  <2>7. ASSUME NEW p \in Parents(g)
        PROVE  p = <<x, i>>
    <3>1. PICK y : y = p[1]
      OBVIOUS
    <3>2. PICK j : j = p[2]
      OBVIOUS
    <3>3. p = <<y, j>>
      BY <1>2, <3>1, <3>2
    <3>4. <<y, j>> \in Parents(g)
      BY <3>3
    <3>5. PICK jp \in Addr, m \in Level : /\ In(f, jp, m) /\ In(f, jp, m+1) /\ TableOf(f, jp, m+1) = g
                                          /\ y = TableOf(f, jp, m) /\ j = tbl_index(jp, m)
      BY <1>1, <3>4, ParentsAre
    <3>6. m+1 \in Level
      BY <1>0, <3>5, InLevel
    <3>7. Place(jp, m+1) = Place(ip, k)
      BY <1>0, <2>1, <3>5, <3>6, OnePlace
    <3>8. m = l
      <4>1. m+1 = l+1
        BY <2>2, <3>7, PlaceIs
      <4> QED
        BY <4>1, Levels
    <3>9. Place(jp, l) = Place(ip, l) /\ tbl_index(jp, l) = tbl_index(ip, l)
      BY <2>2, <3>7, <3>8, PlaceDown
    <3>10. y = x /\ j = i
      BY <2>4, <2>5, <3>5, <3>8, <3>9, SameIn
    <3> QED
      BY <3>3, <3>10
  <2>8. Parents(g) = {<<x, i>>}
    BY <2>6, <2>7
  <2>9. Cardinality({<<x, i>>}) = 1
    BY FS_Singleton
  <2> QED
    BY <1>3, <2>8, <2>9
<1>4. CASE ~(g < next_tbl8)
  <2>1. ASSUME NEW p \in Parents(g)
        PROVE  FALSE
    <3>1. PICK y : y = p[1]
      OBVIOUS
    <3>2. PICK j : j = p[2]
      OBVIOUS
    <3>3. <<y, j>> \in Parents(g)
      BY <1>2, <3>1, <3>2
    <3>4. PICK jp \in Addr, m \in Level : In(f, jp, m+1) /\ TableOf(f, jp, m+1) = g
      BY <1>1, <3>3, ParentsAre
    <3>5. m+1 \in Level
      BY <1>0, <3>4, InLevel
    <3>6. g < next_tbl8
      BY <1>0, <3>4, <3>5, TableOfIs
    <3> QED
      BY <1>4, <3>6
  <2>2. Parents(g) = {}
    BY <2>1
  <2> QED
    BY <1>4, <2>2, FS_EmptySet
<1> QED
  BY <1>3, <1>4

\* The invariant gives GroupsFormTree.
LEMMA InvTree ==
  ASSUME TableInv
  PROVE  GroupsFormTree
<1>1. TypeOK
  BY InvTypeOK
<1>2. \A g \in Group : Cardinality(Parents(g)) = IF g < next_tbl8 THEN 1 ELSE 0
  BY ParentCount
<1>3. \A g \in Group : g >= next_tbl8 => tbl[g] = Zeroed[g]
  BY DEF TableInv, Tidy, Good, TablesOK
<1> QED
  BY <1>1, <1>2, <1>3 DEF GroupsFormTree, Parents

-----------------------------------------------------------------------------
Inner(rules) == UNION {{<<l, mask_ip(r.ip, bits_covered(l))>> :
                          l \in {k \in 0..LEVELS : bits_covered(k) < r.depth}} :
                       r \in ToSet(rules)}

\* The prefixes that need a group.
LEMMA InnerIs ==
  ASSUME NEW rules, SeqOK(rules), NEW l, NEW v
  PROVE  <<l, v>> \in Inner(rules) <=>
           l \in Level /\ \E r \in ToSet(rules) : bits_covered(l) < r.depth /\ v = mask_ip(r.ip, bits_covered(l))
BY DEF Inner, Level

\* They are the places other than tbl24, one for one.
LEMMA InvNeeded ==
  ASSUME TableInv
  PROVE  GroupsNeeded
<1>1. PICK R : R = ToSet(rules_tbl) /\ RulesOK(R)
  BY DEF TableInv, Tidy
<1>2. PICK f : Good(tbl, next_tbl8, R, f) /\ Tight(f, R)
  BY <1>1 DEF TableInv, Tidy
<1>3. Tree(f, next_tbl8) /\ Room(f, R) /\ next_tbl8 \in Nat /\ SeqOK(rules_tbl)
  BY <1>2, Lpm6Assumption DEF Good, Tree, TableInv
<1>4. PICK D : D = DOMAIN f \ {Place(0, 0)}
  OBVIOUS
<1>5. IsFiniteSet(D) /\ Cardinality(D) = next_tbl8
  <2>1. PICK z : z = Place(0, 0)
    OBVIOUS
  <2>2. PICK E : E = DOMAIN f
    OBVIOUS
  <2>3. IsFiniteSet(E) /\ Cardinality(E) = next_tbl8 + 1
    BY <1>3, <2>2, TreeSize
  <2>4. z \in E
    <3>1. 0 \in Addr
      BY AddrIs
    <3> QED
      BY <1>3, <2>1, <2>2, <3>1 DEF Tree, Root, In
  <2>5. IsFiniteSet(E \ {z}) /\ Cardinality(E \ {z}) = IF z \in E THEN Cardinality(E) - 1 ELSE Cardinality(E)
    BY <2>3, FS_RemoveElement
  <2> QED
    BY <1>3, <1>4, <2>1, <2>2, <2>3, <2>4, <2>5
<1>6. PICK N : N = Inner(rules_tbl)
  OBVIOUS
<1> DEFINE b == [x \in D |-> <<x[1]-1, x[2]>>]
<1>7. ASSUME NEW x \in D
      PROVE  \E ip \in Addr, l \in Level : /\ x = Place(ip, l+1) /\ l+1 \in Level /\ In(f, ip, l+1)
                                           /\ x[1] = l+1 /\ x[2] = mask_ip(ip, bits_covered(l))
                                           /\ b[x] = <<l, mask_ip(ip, bits_covered(l))>>
  <2>1. x \in DOMAIN f /\ x # Place(0, 0)
    BY <1>4
  <2>2. PICK ip \in Addr, k \in Level : x = Place(ip, k)
    BY <1>3, <2>1 DEF Tree, Places
  <2>3. In(f, ip, k)
    BY <2>1, <2>2 DEF In
  <2>4. k # 0
    <3> SUFFICES ASSUME k = 0 PROVE FALSE
      OBVIOUS
    <3>1. 0 \in Addr
      BY AddrIs
    <3>2. In(f, ip, 0) /\ In(f, 0, 0) /\ TableOf(f, ip, 0) = TableOf(f, 0, 0)
      BY <1>3, <3>1 DEF Tree, Root
    <3>3. Place(ip, 0) = Place(0, 0)
      BY <1>3, <3>1, <3>2, Levels, OnePlace
    <3> QED
      BY <2>1, <2>2, <3>3
  <2>5. PICK l \in Level : k = l+1 /\ l = k-1
    <3>1. k-1 \in Level /\ (k-1)+1 = k
      BY <2>4, Levels DEF Level
    <3> QED
      BY <3>1
  <2>6. Start(k) = bits_covered(l)
    BY <2>5, Levels
  <2>7. x[1] = k /\ x[2] = mask_ip(ip, bits_covered(l))
    BY <2>2, <2>6 DEF Place
  <2> QED
    BY <2>2, <2>3, <2>5, <2>7
<1>8. ASSUME NEW x \in D
      PROVE  b[x] \in N
  <2>1. PICK ip \in Addr, l \in Level : /\ l+1 \in Level /\ In(f, ip, l+1)
                                        /\ b[x] = <<l, mask_ip(ip, bits_covered(l))>>
    BY <1>7
  <2>2. l+1 # 0 /\ Start(l+1) = bits_covered(l)
    BY Levels
  <2>3. PICK r \in R : Start(l+1) < r.depth /\ Place(ip, l+1) = Place(r.ip, l+1)
    BY <1>2, <2>1, <2>2 DEF Tight
  <2>4. mask_ip(ip, bits_covered(l)) = mask_ip(r.ip, bits_covered(l))
    BY <2>2, <2>3, PlaceIs
  <2>5. <<l, mask_ip(ip, bits_covered(l))>> \in N
    BY <1>1, <1>3, <1>6, <2>2, <2>3, <2>4, InnerIs
  <2> QED
    BY <2>1, <2>5
<1>9. ASSUME NEW x \in D, NEW y \in D, b[x] = b[y]
      PROVE  x = y
  <2>1. PICK ip \in Addr, l \in Level : x = Place(ip, l+1) /\ b[x] = <<l, mask_ip(ip, bits_covered(l))>>
    BY <1>7
  <2>2. PICK jp \in Addr, m \in Level : y = Place(jp, m+1) /\ b[y] = <<m, mask_ip(jp, bits_covered(m))>>
    BY <1>7
  <2>3. l = m /\ mask_ip(ip, bits_covered(l)) = mask_ip(jp, bits_covered(l))
    BY <1>9, <2>1, <2>2
  <2>4. Start(l+1) = bits_covered(l)
    BY Levels
  <2> QED
    BY <2>1, <2>2, <2>3, <2>4, PlaceIs
<1>10. ASSUME NEW y \in N
       PROVE  \E x \in D : b[x] = y
  <2>1. PICK l, v : y = <<l, v>>
    BY <1>6 DEF Inner
  <2>2. l \in Level /\ \E r \in R : bits_covered(l) < r.depth /\ v = mask_ip(r.ip, bits_covered(l))
    BY <1>1, <1>3, <1>6, <2>1, InnerIs
  <2>3. PICK r \in R : bits_covered(l) < r.depth /\ v = mask_ip(r.ip, bits_covered(l))
    BY <2>2
  <2>4. Masked(r)
    BY <1>1 DEF RulesOK, Masked
  <2>5. ~(r.depth <= bits_covered(l))
    <3>1. bits_covered(l) \in 0..ADDR_BITS /\ r.depth \in Nat
      BY <2>2, <2>4, RuleIs, Levels
    <3> QED
      BY <2>3, <3>1, Bits
  <2>6. l+1 \in Level /\ Start(l+1) < r.depth /\ Start(l+1) = bits_covered(l) /\ l+1 # 0
    BY <2>2, <2>4, <2>5, NextLevel, Levels
  <2>7. In(f, r.ip, l+1)
    BY <1>3, <2>6 DEF Room
  <2>8. PICK x : x = Place(r.ip, l+1)
    OBVIOUS
  <2>9. x \in D
    <3>1. Place(r.ip, l+1) # Place(0, 0)
      BY <2>6, PlaceIs
    <3> QED
      BY <1>4, <2>7, <2>8, <3>1 DEF In
  <2>10. x[1] = l+1 /\ x[2] = v
    BY <2>3, <2>6, <2>8 DEF Place
  <2>11. (l+1)-1 = l
    BY <2>2, Levels
  <2>12. b[x] = <<l, v>>
    BY <2>9, <2>10, <2>11
  <2> QED
    BY <2>1, <2>9, <2>12
<1>11. b \in [D -> N]
  BY <1>8
<1> HIDE DEF b
<1>12. b \in Bijection(D, N)
  BY <1>9, <1>10, <1>11 DEF Bijection, Injection, Surjection, IsInjective
<1>13. ExistsBijection(D, N)
  BY <1>12 DEF ExistsBijection
<1>14. Cardinality(N) = Cardinality(D)
  BY <1>5, <1>13, FS_Bijection
<1> QED
  BY <1>5, <1>6, <1>14 DEF GroupsNeeded, Inner

-----------------------------------------------------------------------------
(* The theorems about the tables.                                          *)

\* The steps of the application: only Update changes the tables.
LEMMA StepKeeps ==
  ASSUME TableInv, [LookupNext]_allVars
  PROVE  TableInv' /\ (UNCHANGED vars \/ Next)
<1>1. CASE UNCHANGED vars
  BY <1>1 DEF vars, TableInv
<1>2. CASE Update
  <2>1. Next
    BY <1>2 DEF Update
  <2> QED
    BY <2>1, NextKeeps
<1>3. CASE UNCHANGED allVars
  BY <1>1, <1>3 DEF allVars
<1>4. ASSUME NEW n \in NbPkts, NEW as \in [0..n-1 -> Addr], Call(n, as)
      PROVE  UNCHANGED vars
  BY <1>4 DEF Call
<1>5. CASE Lookup
  <2>1. UNCHANGED vars
    BY <1>5 DEF Lookup, FirstEntry, InspectEntry, Finish, Skip
  <2> QED
    BY <1>1, <2>1
<1> QED
  BY <1>1, <1>2, <1>3, <1>4, <1>5 DEF LookupNext

(* Every operation on the tables, in any order, leaves a tree of groups that*)
(* holds the rules of the rules table and nothing else: TableInv is an     *)
(* invariant of the application.                                           *)
THEOREM TablesKept == LookupSpec => []TableInv
<1>1. LookupInit => TableInv
  BY InitTables DEF LookupInit
<1>2. TableInv /\ [LookupNext]_allVars => TableInv'
  BY StepKeeps
<1> QED
  BY <1>1, <1>2, PTL DEF LookupSpec

(* rte_lpm6_lookup returns the next hop of the longest rule that matches, for*)
(* every address and after any sequence of adds, failed adds and deletes.  *)
THEOREM LookupCorrect == LookupSpec => []LookupIsLongestMatch
<1>1. TableInv => LookupIsLongestMatch
  BY TablesAnswer DEF LookupIsLongestMatch
<1> QED
  BY <1>1, TablesKept, PTL

(* The rte_lpm6_add calls in the loops of rte_lpm6_delete and delete_bulk_func*)
(* never run out of groups.                                                *)
THEOREM RebuildFits == LookupSpec => []RebuildNeverFails
<1>1. TableInv => RebuildNeverFails
  BY DEF TableInv, RebuildNeverFails
<1> QED
  BY <1>1, TablesKept, PTL

(* The groups handed out form a tree under tbl24 and the free ones are zero.*)
THEOREM TreeKept == LookupSpec => []GroupsFormTree
<1>1. TableInv => GroupsFormTree
  BY InvTree
<1> QED
  BY <1>1, TablesKept, PTL

(* The groups in use are as many as the rules have level-aligned proper    *)
(* prefixes.                                                               *)
THEOREM NoGroupWasted == LookupSpec => []GroupsNeeded
<1>1. TableInv => GroupsNeeded
  BY InvNeeded
<1> QED
  BY <1>1, TablesKept, PTL

(* An rte_lpm6_add that returns -ENOSPC changes neither the rules nor what any*)
(* lookup returns.                                                         *)
THEOREM FailedAddTakenBack == LookupSpec => FailedAddChangesNothing
<1> DEFINE A == status' = "ENOSPC" =>
                  /\ ToSet(rules_tbl') = ToSet(rules_tbl)
                  /\ \A ip \in Addr : rte_lpm6_lookup(tbl', ip) = rte_lpm6_lookup(tbl, ip)
<1>1. ASSUME TableInv, [LookupNext]_allVars
      PROVE  [A]_vars
  <2>1. CASE UNCHANGED vars
    BY <2>1
  <2>2. CASE Next
    <3> SUFFICES ASSUME status' = "ENOSPC" PROVE A
      OBVIOUS
    <3>1. TableInv' /\ rules_tbl' = rules_tbl
      BY <1>1, <2>2, NextKeeps
    <3>2. Tidy(tbl', next_tbl8', ToSet(rules_tbl)) /\ SeqOK(rules_tbl)
      BY <1>1, <3>1 DEF TableInv
    <3>3. ASSUME NEW ip \in Addr
          PROVE  rte_lpm6_lookup(tbl', ip) = rte_lpm6_lookup(tbl, ip)
      <4>1. Answer(ToSet(rules_tbl), ip, rte_lpm6_lookup(tbl', ip))
        BY <3>2, LookupAnswers
      <4>2. LongestMatch(rules_tbl, ip) = rte_lpm6_lookup(tbl', ip)
        BY <3>2, <4>1, LongestMatchIs
      <4> QED
        BY <1>1, <4>2, TablesAnswer
    <3> QED
      BY <3>1, <3>3
  <2> QED
    BY <1>1, <2>1, <2>2, StepKeeps
<1> QED
  BY <1>1, TablesKept, PTL DEF LookupSpec, FailedAddChangesNothing

-----------------------------------------------------------------------------
(* A slot of a batched lookup.                                             *)

\* A slot is at the entry of its address at level l.
Reached(f, ip, l, p) == In(f, ip, l) /\ p = <<TableOf(f, ip, l), tbl_index(ip, l)>>

\* What inspecting the entry reached finds.
LEMMA InspectFinds ==
  ASSUME NEW t, NEW n, NEW R, NEW f, Good(t, n, R, f), RulesOK(R), NEW ip \in Addr,
         NEW l, NEW p, Reached(f, ip, l, p), NEW e, e = t[p[1]][p[2]],
         NEW v, v = IF e.valid THEN e.next_hop ELSE -1, NEW m, m = l + 1
  PROVE  /\ l \in Level /\ p \in Pointer /\ p[1] < n
         /\ l = LEVELS => ~e.ext_entry
         /\ e.valid /\ e.ext_entry => Reached(f, ip, m, <<e.next_hop, tbl_index(ip, m)>>)
         /\ ~(e.valid /\ e.ext_entry) => Answer(R, ip, v) /\ ~e.ext_entry
<1>0. Tree(f, n) /\ In(f, ip, l)
  BY DEF Good, Reached
<1>1. l \in Level
  BY <1>0, InLevel
<1>2. PICK x, i : x = TableOf(f, ip, l) /\ i = tbl_index(ip, l) /\ p = <<x, i>>
  BY DEF Reached
<1>3. x \in Table /\ x < n /\ i \in Index(x)
  BY <1>0, <1>1, <1>2, TableOfIs
<1>4. p \in Pointer
  BY <1>2, <1>3 DEF Pointer
<1>5. e = Cell(t, f, ip, l)
  BY <1>2 DEF Cell
<1>6. e \in Entry /\ (e.ext_entry <=> In(f, ip, l+1))
      /\ (In(f, ip, l+1) => e.valid /\ e.next_hop = TableOf(f, ip, l+1) /\ l+1 \in Level)
  BY <1>0, <1>1, <1>5, ExtMeans
<1>7. e.ext_entry \in BOOLEAN /\ e.valid \in BOOLEAN
  BY <1>6 DEF Entry
<1>8. l = LEVELS => ~e.ext_entry
  BY <1>6, Levels DEF Level
<1>9. CASE In(f, ip, m)
  <2>1. e.valid /\ e.ext_entry /\ e.next_hop = TableOf(f, ip, m)
    BY <1>6, <1>9
  <2>2. Reached(f, ip, m, <<e.next_hop, tbl_index(ip, m)>>)
    BY <1>9, <2>1 DEF Reached
  <2>3. p[1] < n
    BY <1>2, <1>3
  <2> QED
    BY <1>1, <1>4, <1>8, <2>1, <2>2, <2>3
<1>10. CASE ~In(f, ip, m)
  <2>1. ~e.ext_entry
    BY <1>6, <1>10
  <2>2. Answer(R, ip, v)
    BY <1>0, <1>1, <1>5, <1>10, LeafAnswers
  <2>3. p[1] < n
    BY <1>2, <1>3
  <2> QED
    BY <1>1, <1>4, <1>8, <2>1, <2>2, <2>3
<1> QED
  BY <1>9, <1>10

\* Every lookup starts at its entry of tbl24.
LEMMA StartReached ==
  ASSUME NEW f, NEW n, Tree(f, n), NEW ip \in Addr
  PROVE  Reached(f, ip, 0, <<TBL24, tbl_index(ip, 0)>>)
BY DEF Tree, Root, Reached

\* The type of an answer.
LEMMA AnswerIs ==
  ASSUME NEW R, RulesOK(R), NEW ip, NEW v, Answer(R, ip, v)
  PROVE  v \in {Unset, -1} \union NextHops
BY DEF Answer, RulesOK, Rule

-----------------------------------------------------------------------------
\* The hand-optimised lookup, a slot at a time.
Pending(p, l) == [entry |-> p, steps |-> l, done |-> FALSE, res |-> Unset]
DoneWith(R, ip, s) == s.done = TRUE /\ Answer(R, ip, s.res)

\* A slot after round k.
AfterRound(R, f, ip, k, s) ==
  DoneWith(R, ip, s) \/ \E p : Reached(f, ip, k, p) /\ s = Pending(p, k)

Advanced(s, q, m, x) == x = [s EXCEPT !.entry = q, !.steps = m]

\* A slot that goes one level down.
LEMMA PendingNext ==
  ASSUME NEW p, NEW k, NEW q, NEW m, NEW s, s = Pending(p, k),
         NEW x, Advanced(s, q, m, x)
  PROVE  x = Pending(q, m)
<1> DEFINE S == [entry : {p, q}, steps : {k, m}, done : {FALSE}, res : {Unset}]
<1>1. s \in S /\ s.done = FALSE /\ s.res = Unset
  BY DEF Pending
<1>3. x \in S /\ x.entry = q /\ x.steps = m /\ x.done = FALSE /\ x.res = Unset
  BY <1>1 DEF Advanced
<1>4. x = [entry |-> q, steps |-> m, done |-> FALSE, res |-> Unset]
  BY <1>3
<1> QED
  BY <1>4 DEF Pending

\* A round takes a slot one level down or gives its answer.
LEMMA InspectKeeps ==
  ASSUME NEW t, NEW n, NEW R, NEW f, Good(t, n, R, f), RulesOK(R), NEW ip \in Addr,
         NEW k, NEW m, m = k + 1, NEW s, AfterRound(R, f, ip, k, s)
  PROVE  AfterRound(R, f, ip, m, inspect(t, ip, s))
<1>1. CASE DoneWith(R, ip, s)
  <2>1. inspect(t, ip, s) = s
    BY <1>1 DEF inspect, DoneWith
  <2> QED
    BY <1>1, <2>1 DEF AfterRound
<1>2. CASE \E p : Reached(f, ip, k, p) /\ s = Pending(p, k)
  <2>1. PICK p : Reached(f, ip, k, p) /\ s = Pending(p, k)
    BY <1>2
  <2>2. PICK e : e = t[p[1]][p[2]]
    OBVIOUS
  <2>3. PICK v : v = IF e.valid THEN e.next_hop ELSE -1
    OBVIOUS
  <2>4. /\ e.valid /\ e.ext_entry => Reached(f, ip, m, <<e.next_hop, tbl_index(ip, m)>>)
        /\ ~(e.valid /\ e.ext_entry) => Answer(R, ip, v)
    BY <2>1, <2>2, <2>3, InspectFinds
  <2>5. CASE e.valid /\ e.ext_entry
    <3>1. PICK q : q = <<e.next_hop, tbl_index(ip, m)>>
      OBVIOUS
    <3>2. s.entry = p /\ s.steps = k /\ s.done = FALSE
      BY <2>1 DEF Pending
    <3>3. PICK x : x = inspect(t, ip, s)
      OBVIOUS
    <3>4. Advanced(s, q, m, x)
      BY <2>2, <2>5, <3>1, <3>2, <3>3 DEF inspect, Advanced
    <3>5. x = Pending(q, m)
      BY <2>1, <3>4, PendingNext
    <3> QED
      BY <2>4, <2>5, <3>1, <3>3, <3>5 DEF AfterRound
  <2>6. CASE ~(e.valid /\ e.ext_entry)
    <3>1. s.entry = p /\ s.done = FALSE
      BY <2>1 DEF Pending
    <3>2. inspect(t, ip, s) = [s EXCEPT !.done = TRUE, !.res = v]
      BY <2>2, <2>3, <2>6, <3>1 DEF inspect
    <3>3. [s EXCEPT !.done = TRUE, !.res = v].done = TRUE /\ [s EXCEPT !.done = TRUE, !.res = v].res = v
      BY <2>1 DEF Pending
    <3> QED
      BY <2>4, <2>6, <3>2, <3>3 DEF AfterRound, DoneWith
  <2> QED
    BY <2>5, <2>6
<1> QED
  BY <1>1, <1>2 DEF AfterRound

FirstRound(i) == Pending(<<TBL24, tbl_index(ips[i], 0)>>, 0)
RoundStep(t, g, k) == [i \in Slot |-> IF k = 0 THEN FirstRound(i) ELSE inspect(t, ips[i], g[k-1][i])]

\* A round uses the one before only.
LEMMA SameRound ==
  ASSUME NEW t, NEW e, NEW g, NEW k, k # 0 => e[k-1] = g[k-1]
  PROVE  RoundStep(t, e, k) = RoundStep(t, g, k)
BY DEF RoundStep

\* The recursive function of rounds exists.
LEMMA RoundsExist ==
  ASSUME NEW t, NEW m \in Nat
  PROVE  \E g : g = [k \in 0..m |-> RoundStep(t, g, k)]
<1> DEFINE T == {k \in Nat : ~\E g : g = [l \in 0..k |-> RoundStep(t, g, l)]}
<1> SUFFICES ASSUME T # {} PROVE FALSE
  OBVIOUS
<1>1. PICK k \in T : \A y \in T : k <= y
  BY LeastNumber
<1>2. k \in Nat /\ ~\E g : g = [l \in 0..k |-> RoundStep(t, g, l)]
  BY <1>1
<1>3. CASE k = 0
  <2> DEFINE e == [l \in 0..0 |-> [i \in Slot |-> FirstRound(i)]]
  <2>1. e = [l \in 0..k |-> RoundStep(t, e, l)]
    BY <1>3 DEF RoundStep
  <2> QED
    BY <1>2, <2>1
<1>4. CASE k # 0
  <2>1. k - 1 \in Nat /\ k - 1 \notin T
    BY <1>1, <1>2, <1>4
  <2>2. PICK g : g = [l \in 0 .. k-1 |-> RoundStep(t, g, l)]
    BY <2>1
  <2> DEFINE e == [l \in 0..k |-> IF l = k THEN RoundStep(t, g, k) ELSE g[l]]
  <2>3. ASSUME NEW l \in 0..k
        PROVE  e[l] = RoundStep(t, e, l)
    <3>1. l # 0 => l-1 \in 0 .. k-1 /\ e[l-1] = g[l-1]
      BY <1>2
    <3>2. RoundStep(t, e, l) = RoundStep(t, g, l)
      BY <3>1, SameRound
    <3>3. l # k => l \in 0 .. k-1 /\ g[l] = RoundStep(t, g, l)
      BY <1>2, <2>2
    <3> QED
      BY <3>2, <3>3
  <2>4. e = [l \in 0..k |-> RoundStep(t, e, l)]
    BY <2>3
  <2> QED
    BY <1>2, <2>4
<1> QED
  BY <1>3, <1>4

\* rounds, round by round.
LEMMA RoundsAre ==
  ASSUME NEW t
  PROVE  \E g : /\ rounds(t) = g
                /\ \A i \in Slot : g[0][i] = FirstRound(i)
                /\ \A k \in 1 .. LEVELS+1, i \in Slot : g[k][i] = inspect(t, ips[i], g[k-1][i])
<1>0. LEVELS + 1 \in Nat
  BY Levels
<1> DEFINE g == CHOOSE h : h = [k \in 0 .. LEVELS+1 |-> RoundStep(t, h, k)]
<1>1. g = [k \in 0 .. LEVELS+1 |-> RoundStep(t, g, k)]
  BY <1>0, RoundsExist
<1>2. rounds(t) = g
  BY DEF rounds, RoundStep, FirstRound, Pending
<1> HIDE DEF g
<1>3. g[0] = RoundStep(t, g, 0)
  BY <1>0, <1>1
<1>4. \A i \in Slot : g[0][i] = FirstRound(i)
  BY <1>3 DEF RoundStep
<1>5. ASSUME NEW k \in 1 .. LEVELS+1, NEW i \in Slot
      PROVE  g[k][i] = inspect(t, ips[i], g[k-1][i])
  <2>1. k \in 0 .. LEVELS+1 /\ k # 0
    BY <1>0
  <2>2. g[k] = RoundStep(t, g, k)
    BY <1>1, <2>1
  <2> QED
    BY <2>1, <2>2 DEF RoundStep
<1> QED
  BY <1>2, <1>4, <1>5

\* The hand-optimised lookup gives the answer in every slot.
LEMMA HandoptAnswers ==
  ASSUME NEW t, NEW n, NEW R, NEW f, Good(t, n, R, f), RulesOK(R),
         NEW i \in Slot, ips[i] \in Addr
  PROVE  Answer(R, ips[i], rte_lpm6_lookup_handopt(t)[i])
<1>0. LEVELS \in Nat /\ Tree(f, n)
  BY Levels DEF Good
<1>1. PICK g : /\ rounds(t) = g
               /\ \A j \in Slot : g[0][j] = FirstRound(j)
               /\ \A k \in 1 .. LEVELS+1, j \in Slot : g[k][j] = inspect(t, ips[j], g[k-1][j])
  BY RoundsAre
<1>2. PICK ip \in Addr : ip = ips[i]
  OBVIOUS
<1> DEFINE P(k) == AfterRound(R, f, ip, k, g[k][i])
<1>3. P(0)
  <2>1. PICK p : p = <<TBL24, tbl_index(ip, 0)>>
    OBVIOUS
  <2>2. g[0][i] = Pending(p, 0)
    BY <1>1, <1>2, <2>1 DEF FirstRound
  <2>3. Reached(f, ip, 0, p)
    BY <1>0, <2>1, StartReached
  <2> QED
    BY <2>2, <2>3 DEF AfterRound
<1>4. ASSUME NEW k \in 1 .. LEVELS+1, P(k-1)
      PROVE  P(k)
  <2>1. PICK s : s = g[k-1][i]
    OBVIOUS
  <2>2. g[k][i] = inspect(t, ip, s)
    BY <1>1, <1>2, <2>1
  <2>3. PICK h : h = k-1
    OBVIOUS
  <2>4. k = h+1
    BY <1>0, <2>3
  <2>5. AfterRound(R, f, ip, h, s)
    BY <1>4, <2>1, <2>3
  <2>6. AfterRound(R, f, ip, k, inspect(t, ip, s))
    BY <2>4, <2>5, InspectKeeps
  <2> QED
    BY <2>2, <2>6
<1> HIDE DEF P
<1>5. P(LEVELS+1)
  <2> DEFINE T == {k \in 0 .. LEVELS+1 : ~P(k)}
  <2> SUFFICES ASSUME T # {} PROVE FALSE
    BY <1>0
  <2>1. PICK k \in T : \A y \in T : k <= y
    <3>1. T \subseteq Nat
      BY <1>0
    <3> QED
      BY <3>1, LeastNumber
  <2>2. k \in 0 .. LEVELS+1 /\ ~P(k)
    BY <2>1
  <2>3. k # 0
    BY <1>3, <2>2
  <2>4. k \in 1 .. LEVELS+1 /\ k-1 \in 0 .. LEVELS+1 /\ k-1 \notin T
    BY <1>0, <2>1, <2>2, <2>3
  <2>5. P(k-1)
    BY <2>4
  <2> QED
    BY <1>4, <2>2, <2>4, <2>5
<1>6. PICK s : s = g[LEVELS+1][i]
  OBVIOUS
<1>7. DoneWith(R, ip, s)
  <2>1. ASSUME NEW p, Reached(f, ip, LEVELS+1, p)
        PROVE  FALSE
    <3>1. In(f, ip, LEVELS+1)
      BY <2>1 DEF Reached
    <3>2. LEVELS+1 \in Level
      BY <1>0, <3>1, InLevel
    <3> QED
      BY <1>0, <3>2 DEF Level
  <2> QED
    BY <1>5, <1>6, <2>1 DEF P, AfterRound
<1>8. rte_lpm6_lookup_handopt(t)[i] = s.res
  BY <1>1, <1>6 DEF rte_lpm6_lookup_handopt
<1> QED
  BY <1>2, <1>7, <1>8 DEF DoneWith

-----------------------------------------------------------------------------
(* The batched lookup.                                                     *)

\* A slot that waits to be resumed, and the current one at fpp_end.
Parked(R, f, rip, ip, l, p, v) ==
  /\ rip = fpp_start => v = Unset
  /\ rip = 1 => Reached(f, ip, l, p)
  /\ rip = fpp_end => Answer(R, ip, v)
Ended(t, n, R, rip, ip, p, v) ==
  /\ Answer(R, ip, v) /\ rip # fpp_start
  /\ rip = 1 => p[1] < n /\ ~t[p[1]][p[2]].ext_entry

Slots(t, n, R, f) ==
  \A i \in Slot :
    IF pc = "fpp_end" /\ i = I
    THEN Ended(t, n, R, batch_rips[i], ips[i], entry[i], next_hops[i])
    ELSE Parked(R, f, batch_rips[i], ips[i], first_byte[i], entry[i], next_hops[i])

Sched ==
  /\ LookupTypeOK
  /\ pc # "caller" => looking /\ I < nb_pkts
  /\ \A i \in Slot : i \in iMask <=> batch_rips[i] = fpp_end
  /\ \A i \in Slot : i >= nb_pkts => batch_rips[i] = fpp_start
  /\ pc = "caller" /\ looking => iMask = 0..nb_pkts-1

\* The inductive invariant of the batched lookup.
Walk(t, n, R) == \E f : Good(t, n, R, f) /\ Slots(t, n, R, f)
BatchInv ==
  /\ TableInv /\ Sched
  /\ looking => Walk(tbl, next_tbl8, ToSet(rules_tbl))

\* What the assumptions say of the batch.
LEMMA SlotIs ==
  /\ BATCH_SIZE \in Nat /\ BATCH_SIZE >= 1 /\ PssWrap = "nb_pkts" /\ EndWrap = "nb_pkts"
  /\ \A i \in Slot : i \in Nat /\ i < BATCH_SIZE /\ i >= 0
  /\ fpp_start = 0 /\ fpp_end = -1 /\ 0 \in Slot
  /\ TBL24 = -1 /\ <<TBL24, 0>> \in Pointer
<1>1. BATCH_SIZE \in Nat /\ BATCH_SIZE >= 1 /\ PssWrap = "nb_pkts" /\ EndWrap = "nb_pkts"
  BY FppAssumption, Lpm6LookupAssumption
<1>2. 0 \in Slot /\ \A i \in Slot : i \in Nat /\ i < BATCH_SIZE /\ i >= 0
  BY <1>1 DEF Slot
<1>3. 0 \in Index(TBL24)
  <2>1. Pow(TBL24_BITS) \in Nat \ {0}
    BY PowNat, Lpm6Assumption
  <2> QED
    BY <2>1 DEF Index, Pow
<1>4. <<TBL24, 0>> \in Pointer
  BY <1>3 DEF Pointer, Table
<1> QED
  BY <1>1, <1>2, <1>4 DEF fpp_start, fpp_end, TBL24

\* The switch stays among the packets passed.
LEMMA NextSlotIs ==
  ASSUME Sched, pc # "caller"
  PROVE  NextBelow(nb_pkts) \in Slot /\ NextBelow(nb_pkts) < nb_pkts
<1>1. nb_pkts \in Nat /\ nb_pkts >= 1 /\ nb_pkts <= BATCH_SIZE /\ I \in Nat
  BY SlotIs DEF Sched, LookupTypeOK
<1> QED
  BY <1>1, SlotIs DEF NextBelow, Slot

\* At the start no lookup runs.
LEMMA InitBatch ==
  ASSUME LookupInit
  PROVE  BatchInv
<1>1. TableInv
  BY InitTables DEF LookupInit
<1>2. LookupTypeOK
  <2>1. 0 \in Addr /\ 0 \in 0 .. LEVELS+1 /\ BATCH_SIZE \in 1..BATCH_SIZE
    BY AddrIs, Levels, SlotIs
  <2> QED
    BY <2>1, SlotIs DEF LookupInit, LookupTypeOK
<1>3. Sched
  BY <1>2, SlotIs DEF LookupInit, Sched
<1> QED
  BY <1>1, <1>3 DEF LookupInit, BatchInv

\* Changes of the tables come before the lookups.
LEMMA UpdateBatch ==
  ASSUME BatchInv, Update
  PROVE  BatchInv'
<1>1. TableInv'
  BY NextKeeps DEF BatchInv, Update
<1>2. Sched'
  BY DEF BatchInv, Update, Sched, LookupTypeOK, fppVars, lookupVars
<1>3. ~looking'
  BY DEF Update, lookupVars
<1> QED
  BY <1>1, <1>2, <1>3 DEF BatchInv

\* The first lines of rte_lpm6_lookup_goto.
LEMMA CallBatch ==
  ASSUME BatchInv, NEW n \in NbPkts, NEW as \in [0..n-1 -> Addr], Call(n, as)
  PROVE  BatchInv'
<1>0. n \in 1..BATCH_SIZE /\ n \in Nat
  BY Lpm6LookupAssumption, SlotIs
<1>1. TableInv'
  BY DEF Call, BatchInv, TableInv, vars
<1>2. LookupTypeOK'
  <2>1. ips' \in [Slot -> Addr]
    <3>0. \A i \in Slot : i < n => i \in 0..n-1
      BY <1>0, SlotIs
    <3>1. \A i \in Slot : i < n => as[i] \in Addr
      BY <3>0
    <3>2. 0 \in Addr
      BY AddrIs
    <3> QED
      BY <3>1, <3>2 DEF Call
  <2>2. 0 \in 0 .. LEVELS+1
    BY Levels
  <2>3. /\ pc' = "goto" /\ nb_pkts' = n /\ I' = 0 /\ iMask' = {} /\ looking' = TRUE
        /\ batch_rips' = [i \in Slot |-> fpp_start] /\ next_hops' = [i \in Slot |-> Unset]
        /\ first_byte' = [i \in Slot |-> 0] /\ entry' = [i \in Slot |-> <<TBL24, 0>>]
    BY DEF Call, FppEnter
  <2> QED
    BY <1>0, <2>1, <2>2, <2>3, SlotIs DEF LookupTypeOK
<1>3. /\ pc' = "goto" /\ nb_pkts' = n /\ I' = 0 /\ iMask' = {} /\ looking' = TRUE
      /\ batch_rips' = [i \in Slot |-> fpp_start] /\ next_hops' = [i \in Slot |-> Unset]
  BY DEF Call, FppEnter
<1>4. Sched'
  BY <1>0, <1>2, <1>3, SlotIs DEF Sched
<1>5. PICK R : R = ToSet(rules_tbl)
  OBVIOUS
<1>6. PICK f : Good(tbl, next_tbl8, R, f)
  BY <1>5 DEF BatchInv, TableInv, Tidy
<1>7. \A i \in Slot : Parked(R, f, batch_rips'[i], ips'[i], first_byte'[i], entry'[i], next_hops'[i])
  BY <1>3, SlotIs DEF Parked
<1>8. Slots(tbl, next_tbl8, R, f)'
  BY <1>3, <1>7 DEF Slots
<1>9. tbl' = tbl /\ next_tbl8' = next_tbl8 /\ rules_tbl' = rules_tbl
  BY DEF Call, vars
<1> QED
  BY <1>1, <1>4, <1>5, <1>6, <1>8, <1>9 DEF BatchInv, Walk

\* What the steps of the lookup leave alone.
Still == UNCHANGED vars /\ UNCHANGED <<looking, ips, nb_pkts>>

\* A step of a lookup that keeps its slots right keeps the invariant.
LEMMA StillBatch ==
  ASSUME BatchInv, Still, LookupTypeOK', looking, I' < nb_pkts', pc' # "caller" \/ iMask' = 0..nb_pkts-1,
         \A i \in Slot : i \in iMask' <=> batch_rips'[i] = fpp_end,
         \A i \in Slot : i >= nb_pkts => batch_rips'[i] = fpp_start,
         NEW R, R = ToSet(rules_tbl), NEW f, Good(tbl, next_tbl8, R, f),
         NEW t, t = tbl, NEW n, n = next_tbl8, Slots(t, n, R, f)'
  PROVE  BatchInv'
<1>1. tbl' = tbl /\ next_tbl8' = next_tbl8 /\ rules_tbl' = rules_tbl /\ status' = status
  BY DEF Still, vars
<1>2. TableInv'
  BY <1>1 DEF BatchInv, TableInv
<1>3. nb_pkts' = nb_pkts /\ looking' = looking
  BY DEF Still
<1>4. Sched'
  BY <1>3 DEF Sched
<1>5. Good(t, n, R, f)
  OBVIOUS
<1>6. Walk(t, n, R)'
  BY <1>5 DEF Walk
<1>7. Walk(tbl, next_tbl8, ToSet(rules_tbl))'
  BY <1>1, <1>6
<1> QED
  BY <1>2, <1>4, <1>7 DEF BatchInv

\* fpp_start: the slot is at its entry of tbl24.
LEMMA FirstEntryBatch ==
  ASSUME BatchInv, FirstEntry
  PROVE  BatchInv'
<1>0. /\ Sched /\ LookupTypeOK /\ looking /\ I \in Slot /\ I < nb_pkts /\ pc = "goto" /\ batch_rips[I] = fpp_start
      /\ TableInv
  BY DEF BatchInv, FirstEntry, At, Sched, LookupTypeOK
<1>1. PICK R : R = ToSet(rules_tbl)
  OBVIOUS
<1>2. PICK t : t = tbl
  OBVIOUS
<1>3. PICK n : n = next_tbl8
  OBVIOUS
<1>4. PICK f : Good(t, n, R, f) /\ Slots(t, n, R, f)
  BY <1>0, <1>1, <1>2, <1>3 DEF BatchInv, Walk
<1>5. PICK m : m = NextBelow(nb_pkts)
  OBVIOUS
<1>6. PICK ip \in Addr : ip = ips[I]
  BY <1>0 DEF LookupTypeOK
<1>7. PICK p : p = <<TBL24, tbl_index(ip, 0)>>
  OBVIOUS
<1>8. Reached(f, ip, 0, p)
  BY <1>4, <1>7, StartReached DEF Good
<1>9. p \in Pointer
  BY <1>1, <1>4, <1>8, <1>0, InspectFinds DEF TableInv, Tidy
<1>10. /\ batch_rips' = [batch_rips EXCEPT ![I] = 1] /\ I' = m /\ pc' = "goto" /\ iMask' = iMask
       /\ first_byte' = [first_byte EXCEPT ![I] = 0] /\ entry' = [entry EXCEPT ![I] = p]
       /\ nb_pkts' = nb_pkts /\ looking' = looking /\ ips' = ips /\ next_hops' = next_hops
       /\ UNCHANGED vars
  BY <1>5, <1>6, <1>7, SlotIs DEF FirstEntry, FPP_PSS, NextSlot
<1>11. m \in Slot /\ m < nb_pkts
  BY <1>0, <1>5, NextSlotIs
<1>12. LookupTypeOK'
  <2>1. 0 \in 0 .. LEVELS+1
    BY Levels
  <2> QED
    BY <1>0, <1>9, <1>10, <1>11, <2>1 DEF LookupTypeOK
<1>13. batch_rips'[I] = 1 /\ first_byte'[I] = 0 /\ entry'[I] = p
  BY <1>0, <1>10 DEF LookupTypeOK
<1>14. \A i \in Slot : i # I => batch_rips'[i] = batch_rips[i] /\ first_byte'[i] = first_byte[i] /\ entry'[i] = entry[i]
  BY <1>0, <1>10 DEF LookupTypeOK
<1>15. \A i \in Slot : i # I => Parked(R, f, batch_rips[i], ips[i], first_byte[i], entry[i], next_hops[i])
  BY <1>4 DEF Slots
<1>16. \A i \in Slot : Parked(R, f, batch_rips'[i], ips'[i], first_byte'[i], entry'[i], next_hops'[i])
  <2>1. Parked(R, f, 1, ip, 0, p, next_hops[I])
    BY <1>8, SlotIs DEF Parked
  <2> QED
    BY <1>6, <1>10, <1>13, <1>14, <1>15, <2>1
<1>17. Slots(t, n, R, f)'
  BY <1>10, <1>16 DEF Slots
<1>18. Still
  BY <1>10 DEF Still
<1>19. \A i \in Slot : i \in iMask' <=> batch_rips'[i] = fpp_end
  BY <1>0, <1>10, <1>13, <1>14, SlotIs DEF Sched
<1>20. \A i \in Slot : i >= nb_pkts => batch_rips'[i] = fpp_start
  BY <1>0, <1>13, <1>14, SlotIs DEF Sched, LookupTypeOK
<1> QED
  BY <1>0, <1>1, <1>2, <1>3, <1>4, <1>10, <1>11, <1>12, <1>17, <1>18, <1>19, <1>20, StillBatch

\* The slots other than the current one when a step changes only its own.
LEMMA Others ==
  ASSUME NEW t, NEW n, NEW R, NEW f, Slots(t, n, R, f), ips' = ips,
         \A i \in Slot : i # I => /\ batch_rips'[i] = batch_rips[i] /\ first_byte'[i] = first_byte[i]
                                  /\ entry'[i] = entry[i] /\ next_hops'[i] = next_hops[i]
  PROVE  \A i \in Slot : i # I => Parked(R, f, batch_rips'[i], ips'[i], first_byte'[i], entry'[i], next_hops'[i])
BY DEF Slots

\* fpp_label_1: the slot goes a level down, or has its answer.
LEMMA InspectBatch ==
  ASSUME BatchInv, InspectEntry
  PROVE  BatchInv'
<1>0. /\ Sched /\ LookupTypeOK /\ looking /\ I \in Slot /\ I < nb_pkts /\ pc = "goto" /\ batch_rips[I] = 1
      /\ TableInv
  BY DEF BatchInv, InspectEntry, At, Sched, LookupTypeOK
<1>1. PICK R : R = ToSet(rules_tbl) /\ RulesOK(R)
  BY <1>0 DEF TableInv, Tidy
<1>2. PICK t : t = tbl
  OBVIOUS
<1>3. PICK n : n = next_tbl8
  OBVIOUS
<1>4. PICK f : Good(t, n, R, f) /\ Slots(t, n, R, f)
  BY <1>0, <1>1, <1>2, <1>3 DEF BatchInv, Walk
<1>5. PICK ip \in Addr : ip = ips[I]
  BY <1>0 DEF LookupTypeOK
<1>6. PICK p : p = entry[I]
  OBVIOUS
<1>7. PICK l : l = first_byte[I]
  OBVIOUS
<1>8. PICK m : m = l + 1
  OBVIOUS
<1>9. Reached(f, ip, l, p)
  BY <1>0, <1>4, <1>5, <1>6, <1>7, SlotIs DEF Slots, Parked
<1>10. PICK e : e = t[p[1]][p[2]]
  OBVIOUS
<1>11. PICK v : v = IF e.valid THEN e.next_hop ELSE -1
  OBVIOUS
<1>12. /\ l \in Level /\ p[1] < n
       /\ e.valid /\ e.ext_entry => Reached(f, ip, m, <<e.next_hop, tbl_index(ip, m)>>)
       /\ ~(e.valid /\ e.ext_entry) => Answer(R, ip, v) /\ ~e.ext_entry
  BY <1>1, <1>4, <1>8, <1>9, <1>10, <1>11, InspectFinds
<1>13. m \in 0 .. LEVELS+1
  BY <1>8, <1>12, Levels DEF Level
<1>14. /\ first_byte' = [first_byte EXCEPT ![I] = m] /\ looking' = looking /\ ips' = ips /\ UNCHANGED vars
  BY <1>0, <1>7, <1>8 DEF InspectEntry, LookupTypeOK
<1>15. CASE e.valid /\ e.ext_entry
  <2>1. PICK q : q = <<e.next_hop, tbl_index(ip, m)>>
    OBVIOUS
  <2>2. Reached(f, ip, m, q)
    BY <1>12, <1>15, <2>1
  <2>3. q \in Pointer
    BY <1>1, <1>4, <2>2, InspectFinds
  <2>4. PICK j : j = NextBelow(nb_pkts)
    OBVIOUS
  <2>5. entry' = [entry EXCEPT ![I] = q] /\ FPP_PSS(1) /\ next_hops' = next_hops
    BY <1>2, <1>5, <1>6, <1>7, <1>8, <1>10, <1>15, <2>1 DEF InspectEntry
  <2>6. /\ batch_rips' = [batch_rips EXCEPT ![I] = 1] /\ I' = j /\ pc' = "goto" /\ iMask' = iMask
        /\ nb_pkts' = nb_pkts
    BY <2>4, <2>5, SlotIs DEF FPP_PSS, NextSlot
  <2>7. j \in Slot /\ j < nb_pkts
    BY <1>0, <2>4, NextSlotIs
  <2>8. LookupTypeOK'
    BY <1>0, <1>13, <1>14, <2>3, <2>5, <2>6, <2>7 DEF LookupTypeOK
  <2>9. batch_rips'[I] = 1 /\ first_byte'[I] = m /\ entry'[I] = q
    BY <1>0, <1>14, <2>5, <2>6 DEF LookupTypeOK
  <2>10. \A i \in Slot : i # I => /\ batch_rips'[i] = batch_rips[i] /\ first_byte'[i] = first_byte[i]
                                  /\ entry'[i] = entry[i] /\ next_hops'[i] = next_hops[i]
    BY <1>0, <1>14, <2>5, <2>6 DEF LookupTypeOK
  <2>11. Parked(R, f, 1, ip, m, q, next_hops[I])
    BY <2>2, SlotIs DEF Parked
  <2>12. \A i \in Slot : Parked(R, f, batch_rips'[i], ips'[i], first_byte'[i], entry'[i], next_hops'[i])
    BY <1>4, <1>5, <1>14, <2>5, <2>9, <2>10, <2>11, Others
  <2>13. Slots(t, n, R, f)'
    BY <2>6, <2>12 DEF Slots
  <2>14. Still
    BY <1>14, <2>6 DEF Still
  <2>15. \A i \in Slot : i \in iMask' <=> batch_rips'[i] = fpp_end
    BY <1>0, <2>6, <2>9, <2>10, SlotIs DEF Sched
  <2>16. \A i \in Slot : i >= nb_pkts => batch_rips'[i] = fpp_start
    BY <1>0, <2>9, <2>10, SlotIs DEF Sched, LookupTypeOK
  <2> QED
    BY <1>0, <1>1, <1>2, <1>3, <1>4, <2>6, <2>7, <2>8, <2>13, <2>14, <2>15, <2>16, StillBatch
<1>16. CASE ~(e.valid /\ e.ext_entry)
  <2>1. Answer(R, ip, v) /\ ~e.ext_entry
    BY <1>12, <1>16
  <2>2. v \in {Unset, -1} \union NextHops
    BY <1>1, <2>1, AnswerIs
  <2>3. next_hops' = [next_hops EXCEPT ![I] = v] /\ FallThrough /\ entry' = entry
    BY <1>2, <1>6, <1>10, <1>11, <1>16 DEF InspectEntry
  <2>4. pc' = "fpp_end" /\ nb_pkts' = nb_pkts /\ I' = I /\ batch_rips' = batch_rips /\ iMask' = iMask
    BY <2>3 DEF FallThrough
  <2>5. LookupTypeOK'
    BY <1>0, <1>13, <1>14, <2>2, <2>3, <2>4 DEF LookupTypeOK
  <2>6. next_hops'[I] = v /\ entry'[I] = p
    BY <1>0, <1>6, <2>3 DEF LookupTypeOK
  <2>7. \A i \in Slot : i # I => /\ batch_rips'[i] = batch_rips[i] /\ first_byte'[i] = first_byte[i]
                                 /\ entry'[i] = entry[i] /\ next_hops'[i] = next_hops[i]
    BY <1>0, <1>14, <2>3, <2>4 DEF LookupTypeOK
  <2>8. Ended(t, n, R, 1, ip, p, v)
    BY <1>10, <1>12, <2>1, SlotIs DEF Ended
  <2>9. Ended(t, n, R, batch_rips'[I], ips'[I], entry'[I], next_hops'[I])
    BY <1>0, <1>5, <1>14, <2>4, <2>6, <2>8
  <2>10. \A i \in Slot : i # I => Parked(R, f, batch_rips'[i], ips'[i], first_byte'[i], entry'[i], next_hops'[i])
    BY <1>4, <1>14, <2>7, Others
  <2>11. Slots(t, n, R, f)'
    BY <2>4, <2>9, <2>10 DEF Slots
  <2>12. Still
    BY <1>14, <2>4 DEF Still
  <2>13. \A i \in Slot : i \in iMask' <=> batch_rips'[i] = fpp_end
    BY <1>0, <2>4 DEF Sched
  <2>14. \A i \in Slot : i >= nb_pkts => batch_rips'[i] = fpp_start
    BY <1>0, <2>4 DEF Sched
  <2> QED
    BY <1>0, <1>1, <1>2, <1>3, <1>4, <2>4, <2>5, <2>11, <2>12, <2>13, <2>14, StillBatch
<1> QED
  BY <1>15, <1>16

\* A finished slot is switched to.
LEMMA SkipBatch ==
  ASSUME BatchInv, Skip
  PROVE  BatchInv'
<1>0. /\ Sched /\ LookupTypeOK /\ looking /\ I \in Slot /\ I < nb_pkts /\ pc = "goto" /\ batch_rips[I] = fpp_end
      /\ TableInv
  BY DEF BatchInv, Skip, Revisit, Sched, LookupTypeOK
<1>1. PICK R : R = ToSet(rules_tbl)
  OBVIOUS
<1>2. PICK t : t = tbl
  OBVIOUS
<1>3. PICK n : n = next_tbl8
  OBVIOUS
<1>4. PICK f : Good(t, n, R, f) /\ Slots(t, n, R, f)
  BY <1>0, <1>1, <1>2, <1>3 DEF BatchInv, Walk
<1>5. /\ pc' = "fpp_end" /\ nb_pkts' = nb_pkts /\ I' = I /\ batch_rips' = batch_rips /\ iMask' = iMask
      /\ looking' = looking /\ ips' = ips /\ next_hops' = next_hops /\ first_byte' = first_byte /\ entry' = entry
      /\ UNCHANGED vars
  BY DEF Skip, Revisit, FallThrough, lookupVars
<1>6. LookupTypeOK'
  BY <1>0, <1>5 DEF LookupTypeOK
<1>7. Parked(R, f, batch_rips[I], ips[I], first_byte[I], entry[I], next_hops[I])
  BY <1>0, <1>4 DEF Slots
<1>8. Ended(t, n, R, batch_rips[I], ips[I], entry[I], next_hops[I])
  BY <1>0, <1>7, SlotIs DEF Parked, Ended
<1>9. \A i \in Slot : i # I => Parked(R, f, batch_rips[i], ips[i], first_byte[i], entry[i], next_hops[i])
  BY <1>4 DEF Slots
<1>10. Slots(t, n, R, f)'
  BY <1>5, <1>8, <1>9 DEF Slots
<1>11. Still
  BY <1>5 DEF Still
<1>12. \A i \in Slot : i \in iMask' <=> batch_rips'[i] = fpp_end
  BY <1>0, <1>5 DEF Sched
<1>13. \A i \in Slot : i >= nb_pkts => batch_rips'[i] = fpp_start
  BY <1>0, <1>5 DEF Sched
<1> QED
  BY <1>0, <1>1, <1>2, <1>3, <1>4, <1>5, <1>6, <1>10, <1>11, <1>12, <1>13, StillBatch

\* fpp_end: the slot is done, and the call returns when all are.
LEMMA FinishBatch ==
  ASSUME BatchInv, Finish
  PROVE  BatchInv'
<1>0. /\ Sched /\ LookupTypeOK /\ looking /\ I \in Slot /\ I < nb_pkts /\ pc = "fpp_end" /\ TableInv
  BY DEF BatchInv, Finish, FppEnd, Sched, LookupTypeOK
<1>1. PICK R : R = ToSet(rules_tbl)
  OBVIOUS
<1>2. PICK t : t = tbl
  OBVIOUS
<1>3. PICK n : n = next_tbl8
  OBVIOUS
<1>4. PICK f : Good(t, n, R, f) /\ Slots(t, n, R, f)
  BY <1>0, <1>1, <1>2, <1>3 DEF BatchInv, Walk
<1>5. PICK j : j = NextBelow(nb_pkts)
  OBVIOUS
<1>6. j \in Slot /\ j < nb_pkts
  BY <1>0, <1>5, NextSlotIs
<1>7. /\ batch_rips' = [batch_rips EXCEPT ![I] = fpp_end] /\ iMask' = iMask \union {I} /\ nb_pkts' = nb_pkts
      /\ looking' = looking /\ ips' = ips /\ next_hops' = next_hops /\ first_byte' = first_byte /\ entry' = entry
      /\ UNCHANGED vars
  BY DEF Finish, FppEnd, lookupVars
<1>8. /\ pc' \in {"caller", "goto"} /\ I' \in {I, j}
      /\ pc' = "caller" => iMask' = 0..nb_pkts-1
  BY <1>5, SlotIs DEF Finish, FppEnd, NextSlot, FullMask
<1>9. I' \in Slot /\ I' < nb_pkts'
  BY <1>0, <1>6, <1>7, <1>8
<1>10. LookupTypeOK'
  BY <1>0, <1>7, <1>8, <1>9 DEF LookupTypeOK
<1>11. batch_rips'[I] = fpp_end /\ \A i \in Slot : i # I => batch_rips'[i] = batch_rips[i]
  BY <1>0, <1>7 DEF LookupTypeOK
<1>12. Ended(t, n, R, batch_rips[I], ips[I], entry[I], next_hops[I])
  BY <1>0, <1>4 DEF Slots
<1>13. Parked(R, f, fpp_end, ips[I], first_byte[I], entry[I], next_hops[I])
  BY <1>12, SlotIs DEF Parked, Ended
<1>14. \A i \in Slot : i # I => Parked(R, f, batch_rips[i], ips[i], first_byte[i], entry[i], next_hops[i])
  BY <1>4 DEF Slots
<1>15. \A i \in Slot : Parked(R, f, batch_rips'[i], ips'[i], first_byte'[i], entry'[i], next_hops'[i])
  BY <1>7, <1>11, <1>13, <1>14
<1>16. Slots(t, n, R, f)'
  BY <1>8, <1>15 DEF Slots
<1>17. Still
  BY <1>7 DEF Still
<1>18. \A i \in Slot : i \in iMask' <=> batch_rips'[i] = fpp_end
  BY <1>0, <1>7, <1>11 DEF Sched
<1>19. \A i \in Slot : i >= nb_pkts => batch_rips'[i] = fpp_start
  BY <1>0, <1>11, SlotIs DEF Sched, LookupTypeOK
<1> QED
  BY <1>0, <1>1, <1>2, <1>3, <1>4, <1>8, <1>9, <1>10, <1>16, <1>17, <1>18, <1>19, StillBatch

\* Every step keeps the invariant.
LEMMA NextBatch ==
  ASSUME BatchInv, [LookupNext]_allVars
  PROVE  BatchInv'
<1>1. CASE Update
  BY <1>1, UpdateBatch
<1>2. CASE \E n \in NbPkts : \E as \in [0..n-1 -> Addr] : Call(n, as)
  BY <1>2, CallBatch
<1>3. CASE Lookup
  BY <1>3, FirstEntryBatch, InspectBatch, FinishBatch, SkipBatch DEF Lookup
<1>4. CASE UNCHANGED allVars
  <2>1. TableInv' /\ tbl' = tbl /\ next_tbl8' = next_tbl8 /\ rules_tbl' = rules_tbl
    BY <1>4 DEF allVars, vars, BatchInv, TableInv
  <2>2. Sched' /\ looking' = looking
    BY <1>4 DEF allVars, fppVars, lookupVars, BatchInv, Sched, LookupTypeOK
  <2>3. ASSUME looking
        PROVE  Walk(tbl, next_tbl8, ToSet(rules_tbl))'
    <3>1. PICK t : t = tbl
      OBVIOUS
    <3>2. PICK n : n = next_tbl8
      OBVIOUS
    <3>3. PICK R : R = ToSet(rules_tbl)
      OBVIOUS
    <3>4. Walk(t, n, R)
      BY <2>3, <3>1, <3>2, <3>3 DEF BatchInv
    <3>5. Walk(t, n, R)'
      BY <1>4, <3>4 DEF allVars, fppVars, lookupVars, Walk, Slots
    <3> QED
      BY <2>1, <3>1, <3>2, <3>3, <3>5
  <2> QED
    BY <2>1, <2>2, <2>3 DEF BatchInv
<1> QED
  BY <1>1, <1>2, <1>3, <1>4 DEF LookupNext

(* The invariant of rte_lpm6_lookup_goto holds in every state.             *)
THEOREM BatchKept == LookupSpec => []BatchInv
<1>1. LookupInit => BatchInv
  BY InitBatch
<1>2. BatchInv /\ [LookupNext]_allVars => BatchInv'
  BY NextBatch
<1> QED
  BY <1>1, <1>2, PTL DEF LookupSpec

\* The invariant gives BatchIsLongestMatch.
LEMMA BatchAnswers ==
  ASSUME BatchInv
  PROVE  BatchIsLongestMatch
<1> SUFFICES ASSUME Returned PROVE
      /\ \A i \in Slot : next_hops[i] = IF i < nb_pkts THEN LongestMatch(rules_tbl, ips[i]) ELSE Unset
      /\ nb_pkts = BATCH_SIZE => rte_lpm6_lookup_handopt(tbl) = next_hops
  BY DEF BatchIsLongestMatch
<1>0. Sched /\ LookupTypeOK /\ TableInv /\ pc = "caller" /\ looking /\ iMask = 0..nb_pkts-1 /\ SeqOK(rules_tbl)
  BY DEF BatchInv, Sched, Returned, TableInv
<1>1. PICK R : R = ToSet(rules_tbl) /\ RulesOK(R)
  BY <1>0 DEF TableInv, Tidy
<1>2. PICK f : Good(tbl, next_tbl8, R, f) /\ Slots(tbl, next_tbl8, R, f)
  BY <1>0, <1>1 DEF BatchInv, Walk
<1>3. \A i \in Slot : Parked(R, f, batch_rips[i], ips[i], first_byte[i], entry[i], next_hops[i])
  BY <1>0, <1>2 DEF Slots
<1>4. \A i \in Slot : ips[i] \in Addr
  BY <1>0 DEF LookupTypeOK
<1>5. nb_pkts \in Nat
  BY <1>0, SlotIs DEF LookupTypeOK
<1>6. ASSUME NEW i \in Slot, i < nb_pkts
      PROVE  Answer(R, ips[i], next_hops[i])
  <2>1. i \in iMask
    BY <1>0, <1>5, <1>6, SlotIs
  <2>2. batch_rips[i] = fpp_end
    BY <1>0, <2>1 DEF Sched
  <2> QED
    BY <1>3, <2>2 DEF Parked
<1>7. ASSUME NEW i \in Slot, ~(i < nb_pkts)
      PROVE  next_hops[i] = Unset
  <2>1. batch_rips[i] = fpp_start
    BY <1>0, <1>5, <1>7, SlotIs DEF Sched
  <2> QED
    BY <1>3, <2>1 DEF Parked
<1>8. \A i \in Slot : i < nb_pkts => LongestMatch(rules_tbl, ips[i]) = next_hops[i]
  BY <1>0, <1>1, <1>4, <1>6, LongestMatchIs
<1>9. ASSUME nb_pkts = BATCH_SIZE
      PROVE  rte_lpm6_lookup_handopt(tbl) = next_hops
  <2>1. ASSUME NEW i \in Slot
        PROVE  rte_lpm6_lookup_handopt(tbl)[i] = next_hops[i]
    <3>1. Answer(R, ips[i], rte_lpm6_lookup_handopt(tbl)[i])
      BY <1>1, <1>2, <1>4, HandoptAnswers
    <3>2. PICK v : v = rte_lpm6_lookup_handopt(tbl)[i]
      OBVIOUS
    <3>3. LongestMatch(rules_tbl, ips[i]) = v
      BY <1>0, <1>1, <1>4, <3>1, <3>2, LongestMatchIs
    <3>4. i < nb_pkts
      BY <1>9, SlotIs
    <3> QED
      BY <1>8, <3>2, <3>3, <3>4
  <2>2. PICK h : h = rte_lpm6_lookup_handopt(tbl)
    OBVIOUS
  <2>3. h = [i \in Slot |-> h[i]]
    BY <2>2 DEF rte_lpm6_lookup_handopt
  <2>4. next_hops = [i \in Slot |-> next_hops[i]]
    BY <1>0 DEF LookupTypeOK
  <2> QED
    BY <2>1, <2>2, <2>3, <2>4
<1> QED
  BY <1>7, <1>8, <1>9

\* The invariant gives LookupStaysInTables.
LEMMA BatchStays ==
  ASSUME BatchInv
  PROVE  LookupStaysInTables
<1>0. LookupTypeOK /\ TableInv /\ Sched
  BY DEF BatchInv, Sched
<1>1. ASSUME NEW i \in Slot, pc # "caller", batch_rips[i] = 1
      PROVE  /\ entry[i][1] < next_tbl8
             /\ first_byte[i] = LEVELS => ~tbl[entry[i][1]][entry[i][2]].ext_entry
  <2>1. PICK R : R = ToSet(rules_tbl) /\ RulesOK(R)
    BY <1>0 DEF TableInv, Tidy
  <2>2. PICK f : Good(tbl, next_tbl8, R, f) /\ Slots(tbl, next_tbl8, R, f)
    BY <1>0, <1>1, <2>1 DEF BatchInv, Sched, Walk
  <2>3. PICK p : p = entry[i]
    OBVIOUS
  <2>4. PICK e : e = tbl[p[1]][p[2]]
    OBVIOUS
  <2>5. CASE pc = "fpp_end" /\ i = I
    <3>1. Ended(tbl, next_tbl8, R, batch_rips[i], ips[i], entry[i], next_hops[i])
      BY <2>2, <2>5 DEF Slots
    <3> QED
      BY <1>1, <3>1 DEF Ended
  <2>6. CASE ~(pc = "fpp_end" /\ i = I)
    <3>1. Parked(R, f, batch_rips[i], ips[i], first_byte[i], entry[i], next_hops[i])
      BY <2>2, <2>6 DEF Slots
    <3>2. PICK l : l = first_byte[i]
      OBVIOUS
    <3>3. PICK ip \in Addr : ip = ips[i]
      BY <1>0 DEF LookupTypeOK
    <3>4. Reached(f, ip, l, p)
      BY <1>1, <2>3, <3>1, <3>2, <3>3 DEF Parked
    <3>5. p[1] < next_tbl8 /\ (l = LEVELS => ~e.ext_entry)
      BY <2>1, <2>2, <2>4, <3>4, InspectFinds
    <3> QED
      BY <2>3, <2>4, <3>2, <3>5
  <2> QED
    BY <2>5, <2>6
<1> QED
  BY <1>0, <1>1 DEF LookupStaysInTables

(* When rte_lpm6_lookup_goto returns, its results are those of the longest *)
(* rules that match, it has written no other, and the hand-optimised lookup*)
(* of a full batch gives the same.                                         *)
THEOREM BatchCorrect == LookupSpec => []BatchIsLongestMatch
<1>1. BatchInv => BatchIsLongestMatch
  BY BatchAnswers
<1> QED
  BY <1>1, BatchKept, PTL

(* No lookup of a batch inspects an entry outside the tables in use or goes*)
(* beyond the last level.                                                  *)
THEOREM LookupsBounded == LookupSpec => []LookupStaysInTables
<1>1. BatchInv => LookupStaysInTables
  BY BatchStays
<1> QED
  BY <1>1, BatchKept, PTL

=============================================================================
