------------------------- MODULE MerkleTree_proofs --------------------------
(***************************************************************************)
(* What the folds of merkle/merkle.go decide, for trees of every size and  *)
(* paths of every length.                                                  *)
(***************************************************************************)
EXTENDS MerkleTree, NaturalsInduction, WellFoundedInduction, SequenceTheorems, TLAPS

-----------------------------------------------------------------------------
(* Numbers. *)

\* A set of naturals has a least member.
LEMMA Least ==
  ASSUME NEW S \in SUBSET Nat, S # {}
  PROVE  \E m \in S : \A y \in S : m <= y
<1>1. PICK x \in S : TRUE
  OBVIOUS
<1>2. IsWellFoundedOn(OpToRel(<, Nat), Nat)
  BY NatLessThanWellFounded
<1>3. PICK m \in S : \A y \in S : ~ (<<y, m>> \in OpToRel(<, Nat))
  BY <1>1, <1>2, WFMin, Zenon
<1>4. \A y \in S : ~(y < m)
  BY <1>3 DEF OpToRel
<1> QED BY <1>4

\* What holds of 0 and goes from each number to the next holds of all.
LEMMA Upwards ==
  ASSUME NEW S, 0 \in S, \A n \in Nat : n \in S => n + 1 \in S
  PROVE  Nat \subseteq S
<1> SUFFICES ASSUME NEW n \in Nat, n \notin S PROVE FALSE
  OBVIOUS
<1>1. PICK m \in Nat \ S : \A y \in Nat \ S : m <= y
  BY Least
<1>2. m # 0 /\ m - 1 \in Nat /\ m - 1 \in S
  BY <1>1
<1> QED BY <1>1, <1>2

Powers == {q \in Nat : \A S \in SUBSET Nat : 1 \in S /\ (\A x \in S : 2 * x \in S) => q \in S}

LEMMA PowersDouble == 1 \in Powers /\ \A q \in Powers : 2 * q \in Powers
BY DEF Powers

\* A power of two is 1 or twice a power of two.
LEMMA PowersHalve ==
  ASSUME NEW q \in Powers
  PROVE  /\ q \in Nat \ {0}
         /\ q # 1 => q % 2 = 0 /\ q \div 2 \in Powers /\ q = 2 * (q \div 2)
<1> DEFINE S == {1} \union {x \in Nat \ {0} : x % 2 = 0 /\ x \div 2 \in Powers /\ x = 2 * (x \div 2)}
<1>1. S \in SUBSET Nat /\ 1 \in S
  OBVIOUS
<1>2. S \subseteq Powers
  BY PowersDouble
<1>3. ASSUME NEW x \in S PROVE 2 * x \in S
  <2>1. x \in Nat \ {0} /\ x \in Powers
    BY <1>2
  <2>2. 2 * x \in Nat \ {0} /\ (2 * x) % 2 = 0 /\ (2 * x) \div 2 = x
    BY <2>1
  <2> QED BY <2>1, <2>2
<1>4. q \in S
  <2> HIDE DEF S
  <2> QED BY <1>1, <1>3 DEF Powers
<1> QED BY <1>4

-----------------------------------------------------------------------------
(* Where a slice is divided. *)

DoublingTo(k, n, d) ==
  k = [p \in Nat \ {0} |-> IF 2 * p < n /\ n - p <= d THEN k[2 * p] ELSE p]
Doubling(k, n) == k = [p \in Nat \ {0} |-> IF 2 * p < n THEN k[2 * p] ELSE p]

LEMMA DoublingExists ==
  ASSUME NEW n \in Nat
  PROVE  \E k : Doubling(k, n)
<1> DEFINE S == {d \in Nat : \E k : DoublingTo(k, n, d)}
<1>1. 0 \in S
  <2> DEFINE k == [p \in Nat \ {0} |-> p]
  <2>1. DoublingTo(k, n, 0)
    BY DEF DoublingTo
  <2> QED BY <2>1
<1>2. ASSUME NEW d \in Nat, d \in S PROVE d + 1 \in S
  <2>1. PICK k : DoublingTo(k, n, d)
    BY <1>2
  <2> DEFINE g == [p \in Nat \ {0} |-> IF 2 * p < n /\ n - p <= d + 1 THEN k[2 * p] ELSE p]
  <2>2. \A p \in Nat \ {0} : n - p <= d => k[p] = g[p]
    <3> TAKE p \in Nat \ {0}
    <3>1. k[p] = IF 2 * p < n /\ n - p <= d THEN k[2 * p] ELSE p
      BY <2>1 DEF DoublingTo
    <3> QED BY <3>1
  <2>3. \A p \in Nat \ {0} : n - p <= d + 1 => 2 * p \in Nat \ {0} /\ n - 2 * p <= d
    OBVIOUS
  <2>4. DoublingTo(g, n, d + 1)
    BY <2>2, <2>3 DEF DoublingTo
  <2> QED BY <2>4
<1>3. n \in S
  <2> HIDE DEF S
  <2> QED BY <1>1, <1>2, Upwards
<1>4. PICK k : DoublingTo(k, n, n)
  BY <1>3
<1>5. \A p \in Nat \ {0} : n - p <= n
  OBVIOUS
<1>6. Doubling(k, n)
  BY <1>4, <1>5 DEF DoublingTo, Doubling
<1> QED BY <1>6

\* The largest power of two below n.
LEMMA SplitIs ==
  ASSUME NEW n \in Nat, n > 1
  PROVE  LET k == SplitPoint(n) IN k \in Powers /\ k < n /\ n <= 2 * k
<1> DEFINE k == CHOOSE k : Doubling(k, n)
<1>1. Doubling(k, n) /\ SplitPoint(n) = k[1]
  BY DoublingExists DEF SplitPoint, Doubling
<1> HIDE DEF k
<1> DEFINE Fine(p) == k[p] \in Powers /\ k[p] < n /\ n <= 2 * k[p]
           S == {d \in Nat : \A p \in Powers : p < n /\ n - p <= d => Fine(p)}
<1>2. 0 \in S
  BY PowersHalve
<1>3. ASSUME NEW d \in Nat, d \in S PROVE d + 1 \in S
  <2> SUFFICES ASSUME NEW p \in Powers, p < n, n - p <= d + 1 PROVE Fine(p)
    OBVIOUS
  <2>1. p \in Nat \ {0} /\ 2 * p \in Powers
    BY PowersHalve, PowersDouble
  <2>2. k[p] = IF 2 * p < n THEN k[2 * p] ELSE p
    BY <1>1, <2>1 DEF Doubling
  <2>3. CASE 2 * p < n
    <3>1. n - 2 * p <= d
      BY <2>1
    <3>2. Fine(2 * p)
      BY <1>3, <2>1, <2>3, <3>1
    <3> QED BY <2>2, <2>3, <3>2
  <2>4. CASE ~(2 * p < n)
    BY <2>1, <2>2, <2>4
  <2> QED BY <2>3, <2>4
<1>4. n \in S
  <2> HIDE DEF S
  <2> QED BY <1>2, <1>3, Upwards
<1>5. Fine(1)
  BY <1>4, PowersDouble
<1> QED BY <1>1, <1>5

\* Powers of two lie a factor of two apart.
LEMMA PowersApart ==
  ASSUME NEW p \in Powers, NEW q \in Powers, p < q
  PROVE  2 * p <= q
<1> DEFINE S == {d \in Nat : \A x, y \in Powers : y <= d /\ x < y => 2 * x <= y}
<1>1. 0 \in S
  BY PowersHalve
<1>2. ASSUME NEW d \in Nat, d \in S PROVE d + 1 \in S
  <2> SUFFICES ASSUME NEW x \in Powers, NEW y \in Powers, y <= d + 1, x < y PROVE 2 * x <= y
    OBVIOUS
  <2>0. x \in Nat \ {0} /\ y \in Nat \ {0}
    BY PowersHalve
  <2>1. x \in Nat \ {0} /\ y \in Nat \ {0} /\ y # 1
    BY <2>0
  <2>2. y \div 2 \in Powers /\ y = 2 * (y \div 2) /\ y \div 2 \in Nat \ {0}
    BY <2>1, PowersHalve
  <2>3. CASE x = 1
    BY <2>1, <2>3
  <2>4. CASE x # 1
    <3>1. x \div 2 \in Powers /\ x = 2 * (x \div 2) /\ x \div 2 \in Nat \ {0}
      BY <2>4, PowersHalve
    <3>2. y \div 2 <= d /\ x \div 2 < y \div 2
      BY <2>1, <2>2, <3>1
    <3>3. 2 * (x \div 2) <= y \div 2
      BY <1>2, <2>2, <3>1, <3>2
    <3> QED BY <2>2, <3>1, <3>3
  <2> QED BY <2>3, <2>4
<1>3. q \in Nat /\ q \in S
  <2>1. q \in Nat
    BY PowersHalve
  <2> HIDE DEF S
  <2> QED BY <1>1, <1>2, <2>1, Upwards
<1> QED BY <1>3

\* Of two sizes between a power of two and the next the split is the same.
LEMMA SplitOnly ==
  ASSUME NEW n \in Nat, NEW q \in Powers, q < n, n <= 2 * q
  PROVE  SplitPoint(n) = q
<1>1. q \in Nat \ {0} /\ n > 1
  BY PowersHalve
<1> DEFINE k == SplitPoint(n)
<1>2. k \in Powers /\ k < n /\ n <= 2 * k
  BY <1>1, SplitIs
<1>3. k \in Nat \ {0}
  BY <1>2, PowersHalve
<1> HIDE DEF k
<1>4. ~(k < q) /\ ~(q < k)
  BY <1>1, <1>2, <1>3, PowersApart
<1> QED BY <1>1, <1>3, <1>4 DEF k

-----------------------------------------------------------------------------
(* Slices. *)

LEMMA SliceIn ==
  ASSUME NEW leaves, Len(leaves) \in Nat, NEW a \in 0 .. Len(leaves), NEW b \in 0 .. Len(leaves)
  PROVE  <<a, b>> \in Slices(leaves) /\ <<a, b>>[1] = a /\ <<a, b>>[2] = b
BY DEF Slices

LEMMA SliceBounds ==
  ASSUME NEW leaves, Len(leaves) \in Nat, NEW s \in Slices(leaves)
  PROVE  s[1] \in 0 .. Len(leaves) /\ s[2] \in 0 .. Len(leaves) /\ s = <<s[1], s[2]>>
BY DEF Slices

Size(s) == s[2] - s[1]

\* A slice of more than one leaf has two parts, the first a power of two of leaves.
LEMMA Parts ==
  ASSUME NEW leaves, Len(leaves) \in Nat, NEW s \in Slices(leaves), s[2] > s[1] + 1
  PROVE  /\ Left(s) \in Slices(leaves) /\ Right(s) \in Slices(leaves)
         /\ Left(s)[1] = s[1] /\ Left(s)[2] = Middle(s)
         /\ Right(s)[1] = Middle(s) /\ Right(s)[2] = s[2]
         /\ Middle(s) \in Nat /\ s[1] < Middle(s) /\ Middle(s) < s[2]
         /\ Middle(s) - s[1] \in Powers /\ s[2] - s[1] <= 2 * (Middle(s) - s[1])
<1> DEFINE n == s[2] - s[1]
           k == SplitPoint(n)
<1>1. s[1] \in Nat /\ s[2] \in Nat /\ s[2] <= Len(leaves)
  BY SliceBounds
<1>2. n \in Nat /\ n > 1
  BY <1>1
<1>3. k \in Powers /\ k < n /\ n <= 2 * k
  BY <1>2, SplitIs
<1>4. k \in Nat \ {0}
  BY <1>3, PowersHalve
<1>5. Middle(s) = s[1] + k
  BY DEF Middle
<1> HIDE DEF k
<1>6. /\ Middle(s) \in Nat /\ s[1] < Middle(s) /\ Middle(s) < s[2] /\ Middle(s) - s[1] = k
      /\ s[2] - s[1] <= 2 * k
  BY <1>1, <1>3, <1>4, <1>5
<1>7. Middle(s) \in 0 .. Len(leaves) /\ s[1] \in 0 .. Len(leaves) /\ s[2] \in 0 .. Len(leaves)
  BY <1>1, <1>6
<1>8. /\ Left(s) \in Slices(leaves) /\ Right(s) \in Slices(leaves)
      /\ Left(s)[1] = s[1] /\ Left(s)[2] = Middle(s)
      /\ Right(s)[1] = Middle(s) /\ Right(s)[2] = s[2]
  BY <1>7, SliceIn DEF Left, Right
<1> QED BY <1>3, <1>6, <1>8

RootsTo(f, leaves, d) ==
  f = [s \in Slices(leaves) |->
         IF s[2] <= s[1] THEN EmptyRoot
         ELSE IF s[2] = s[1] + 1 THEN LeafHash(leaves[s[2]])
         ELSE IF Size(s) <= d THEN NodeHash(f[Left(s)], f[Right(s)]) ELSE EmptyRoot]
Roots(f, leaves) ==
  f = [s \in Slices(leaves) |->
         IF s[2] <= s[1] THEN EmptyRoot
         ELSE IF s[2] = s[1] + 1 THEN LeafHash(leaves[s[2]])
         ELSE NodeHash(f[Left(s)], f[Right(s)])]

\* The parts of a slice are smaller.
LEMMA Smaller ==
  ASSUME NEW leaves, Len(leaves) \in Nat, NEW s \in Slices(leaves), NEW d \in Nat,
         s[2] > s[1] + 1, Size(s) <= d + 1
  PROVE  /\ Left(s) \in Slices(leaves) /\ Right(s) \in Slices(leaves)
         /\ Size(Left(s)) <= d /\ Size(Right(s)) <= d
<1>1. s[1] \in Nat /\ s[2] \in Nat
  BY SliceBounds
<1>2. /\ Left(s) \in Slices(leaves) /\ Right(s) \in Slices(leaves)
      /\ Left(s)[1] = s[1] /\ Left(s)[2] = Middle(s)
      /\ Right(s)[1] = Middle(s) /\ Right(s)[2] = s[2]
      /\ Middle(s) \in Nat /\ s[1] < Middle(s) /\ Middle(s) < s[2]
  BY Parts
<1> QED BY <1>1, <1>2 DEF Size

LEMMA RootsExist ==
  ASSUME NEW leaves, Len(leaves) \in Nat
  PROVE  Roots(SliceRoots(leaves), leaves)
<1> DEFINE S == {d \in Nat : \E f : RootsTo(f, leaves, d)}
<1>0. \A s \in Slices(leaves) : s[1] \in Nat /\ s[2] \in Nat /\ Size(s) \in Int /\ Size(s) <= Len(leaves)
  BY SliceBounds DEF Size
<1>1. 0 \in S
  <2> DEFINE f == [s \in Slices(leaves) |->
                     IF s[2] <= s[1] THEN EmptyRoot
                     ELSE IF s[2] = s[1] + 1 THEN LeafHash(leaves[s[2]]) ELSE EmptyRoot]
  <2>1. \A s \in Slices(leaves) : ~(s[2] <= s[1]) => ~(Size(s) <= 0)
    BY <1>0 DEF Size
  <2>2. RootsTo(f, leaves, 0)
    BY <2>1 DEF RootsTo
  <2> QED BY <2>2
<1>2. ASSUME NEW d \in Nat, d \in S PROVE d + 1 \in S
  <2>1. PICK f : RootsTo(f, leaves, d)
    BY <1>2
  <2> DEFINE g == [s \in Slices(leaves) |->
                     IF s[2] <= s[1] THEN EmptyRoot
                     ELSE IF s[2] = s[1] + 1 THEN LeafHash(leaves[s[2]])
                     ELSE IF Size(s) <= d + 1 THEN NodeHash(f[Left(s)], f[Right(s)]) ELSE EmptyRoot]
  <2>2. \A s \in Slices(leaves) : Size(s) <= d => f[s] = g[s]
    <3> TAKE s \in Slices(leaves)
    <3>1. f[s] = IF s[2] <= s[1] THEN EmptyRoot
                 ELSE IF s[2] = s[1] + 1 THEN LeafHash(leaves[s[2]])
                 ELSE IF Size(s) <= d THEN NodeHash(f[Left(s)], f[Right(s)]) ELSE EmptyRoot
      BY <2>1 DEF RootsTo
    <3>2. Size(s) <= d => Size(s) <= d + 1
      BY <1>0
    <3> QED BY <3>1, <3>2
  <2>3. \A s \in Slices(leaves) : ~(s[2] <= s[1]) /\ s[2] # s[1] + 1 /\ Size(s) <= d + 1 =>
          f[Left(s)] = g[Left(s)] /\ f[Right(s)] = g[Right(s)]
    <3> SUFFICES ASSUME NEW s \in Slices(leaves), ~(s[2] <= s[1]), s[2] # s[1] + 1, Size(s) <= d + 1
                 PROVE  f[Left(s)] = g[Left(s)] /\ f[Right(s)] = g[Right(s)]
      OBVIOUS
    <3>1. s[2] > s[1] + 1
      BY <1>0
    <3>2. /\ Left(s) \in Slices(leaves) /\ Right(s) \in Slices(leaves)
          /\ Size(Left(s)) <= d /\ Size(Right(s)) <= d
      BY <3>1, Smaller
    <3> HIDE DEF g
    <3> QED BY <2>2, <3>2
  <2>4. RootsTo(g, leaves, d + 1)
    BY <2>3 DEF RootsTo
  <2> QED BY <2>4
<1>3. Len(leaves) \in S
  <2> HIDE DEF S
  <2> QED BY <1>1, <1>2, Upwards
<1>4. PICK f : RootsTo(f, leaves, Len(leaves))
  BY <1>3
<1>5. Roots(f, leaves)
  BY <1>0, <1>4 DEF RootsTo, Roots
<1>6. SliceRoots(leaves) = CHOOSE R : Roots(R, leaves)
  BY DEF SliceRoots, Roots
<1> QED BY <1>5, <1>6

\* The roots of one leaf and of two parts.
LEMMA RootOne ==
  ASSUME NEW leaves, Len(leaves) \in Nat, NEW s \in Slices(leaves), s[2] = s[1] + 1
  PROVE  SliceRoots(leaves)[s] = LeafHash(leaves[s[2]])
<1> DEFINE R == SliceRoots(leaves)
<1>1. Roots(R, leaves)
  BY RootsExist
<1>2. ~(s[2] <= s[1])
  BY SliceBounds
<1> HIDE DEF R
<1>3. R[s] = LeafHash(leaves[s[2]])
  BY <1>1, <1>2 DEF Roots
<1> QED BY <1>3 DEF R

LEMMA RootTwo ==
  ASSUME NEW leaves, Len(leaves) \in Nat, NEW s \in Slices(leaves), s[2] > s[1] + 1
  PROVE  SliceRoots(leaves)[s] = NodeHash(SliceRoots(leaves)[Left(s)], SliceRoots(leaves)[Right(s)])
<1> DEFINE R == SliceRoots(leaves)
<1>1. Roots(R, leaves)
  BY RootsExist
<1>2. ~(s[2] <= s[1]) /\ s[2] # s[1] + 1
  BY SliceBounds
<1> HIDE DEF R
<1>3. R[s] = NodeHash(R[Left(s)], R[Right(s)])
  BY <1>1, <1>2 DEF Roots
<1> QED BY <1>3 DEF R

\* Leaves and nodes are told apart, and a hash names what was hashed.
LEMMA LeafNoNode ==
  \A a, b, c : LeafHash(a) # NodeHash(b, c) /\ EmptyRoot # LeafHash(a) /\ EmptyRoot # NodeHash(b, c)
<1> TAKE a, b, c
<1>1. Len(LeafHash(a)) = 1 /\ Len(NodeHash(b, c)) = 2 /\ Len(EmptyRoot) = 0
  BY DEF LeafHash, NodeHash, EmptyRoot
<1> QED BY <1>1

LEMMA LeafBinds == \A a, b : LeafHash(a) = LeafHash(b) => a = b
<1> TAKE a, b
<1>1. LeafHash(a)[1] = a /\ LeafHash(b)[1] = b
  BY DEF LeafHash
<1> QED BY <1>1

LEMMA NodeBinds == \A a, b, c, d : NodeHash(a, b) = NodeHash(c, d) => a = c /\ b = d
<1> TAKE a, b, c, d
<1>1. NodeHash(a, b)[1] = a /\ NodeHash(a, b)[2] = b /\ NodeHash(c, d)[1] = c /\ NodeHash(c, d)[2] = d
  BY DEF NodeHash
<1> QED BY <1>1

\* Slices of two logs with one root hold the same leaves.
SameLeaves(a, s, b, u) ==
  /\ Size(s) = Size(u)
  /\ \A i \in 1 .. Size(s) : a[s[1] + i] = b[u[1] + i]

LEMMA SameRoot ==
  ASSUME NEW a, Len(a) \in Nat, NEW b, Len(b) \in Nat,
         NEW s \in Slices(a), NEW u \in Slices(b), s[1] < s[2], u[1] < u[2],
         SliceRoots(a)[s] = SliceRoots(b)[u]
  PROVE  SameLeaves(a, s, b, u)
<1> DEFINE A == SliceRoots(a)
           B == SliceRoots(b)
           S == {d \in Nat : \A x \in Slices(a), y \in Slices(b) :
                   Size(x) <= d /\ x[1] < x[2] /\ y[1] < y[2] /\ A[x] = B[y] => SameLeaves(a, x, b, y)}
<1>0. /\ \A x \in Slices(a) : x[2] = x[1] + 1 => A[x] = LeafHash(a[x[2]])
      /\ \A x \in Slices(a) : x[2] > x[1] + 1 => A[x] = NodeHash(A[Left(x)], A[Right(x)])
      /\ \A y \in Slices(b) : y[2] = y[1] + 1 => B[y] = LeafHash(b[y[2]])
      /\ \A y \in Slices(b) : y[2] > y[1] + 1 => B[y] = NodeHash(B[Left(y)], B[Right(y)])
  BY RootOne, RootTwo
<1>10. A[s] = B[u]
  OBVIOUS
<1> HIDE DEF A, B
<1>1. 0 \in S
  BY SliceBounds DEF Size
<1>2. ASSUME NEW d \in Nat, d \in S PROVE d + 1 \in S
  <2> SUFFICES ASSUME NEW x \in Slices(a), NEW y \in Slices(b), Size(x) <= d + 1,
                      x[1] < x[2], y[1] < y[2], A[x] = B[y]
               PROVE  SameLeaves(a, x, b, y)
    OBVIOUS
  <2>0. A[x] = B[y]
    OBVIOUS
  <2>1. x[1] \in Nat /\ x[2] \in Nat /\ y[1] \in Nat /\ y[2] \in Nat
    BY SliceBounds
  <2>2. CASE x[2] = x[1] + 1 /\ y[2] = y[1] + 1
    <3>1. A[x] = LeafHash(a[x[2]]) /\ B[y] = LeafHash(b[y[2]])
      BY <2>2, <1>0
    <3>2. a[x[2]] = b[y[2]]
      BY <3>1, <2>0, LeafBinds
    <3>3. Size(x) = 1 /\ Size(y) = 1 /\ \A i \in 1 .. 1 : x[1] + i = x[2] /\ y[1] + i = y[2]
      BY <2>1, <2>2 DEF Size
    <3> QED BY <3>2, <3>3 DEF SameLeaves
  <2>3. CASE x[2] > x[1] + 1 /\ y[2] > y[1] + 1
    <3>1. A[x] = NodeHash(A[Left(x)], A[Right(x)]) /\ B[y] = NodeHash(B[Left(y)], B[Right(y)])
      BY <2>3, <1>0
    <3>2. A[Left(x)] = B[Left(y)] /\ A[Right(x)] = B[Right(y)]
      <4> DEFINE p == A[Left(x)]
                 q == A[Right(x)]
                 g == B[Left(y)]
                 h == B[Right(y)]
      <4>1. NodeHash(p, q) = NodeHash(g, h)
        BY <3>1, <2>0
      <4> HIDE DEF p, q, g, h
      <4>2. p = g /\ q = h
        BY <4>1, NodeBinds
      <4> QED BY <4>2 DEF p, q, g, h
    <3>3. /\ Left(x) \in Slices(a) /\ Right(x) \in Slices(a)
          /\ Left(x)[1] = x[1] /\ Left(x)[2] = Middle(x)
          /\ Right(x)[1] = Middle(x) /\ Right(x)[2] = x[2]
          /\ Middle(x) \in Nat /\ x[1] < Middle(x) /\ Middle(x) < x[2]
      BY <2>3, Parts
    <3>4. /\ Left(y) \in Slices(b) /\ Right(y) \in Slices(b)
          /\ Left(y)[1] = y[1] /\ Left(y)[2] = Middle(y)
          /\ Right(y)[1] = Middle(y) /\ Right(y)[2] = y[2]
          /\ Middle(y) \in Nat /\ y[1] < Middle(y) /\ Middle(y) < y[2]
      BY <2>3, Parts
    <3>5. Size(Left(x)) <= d /\ Size(Right(x)) <= d
      BY <2>3, Smaller
    <3>6. SameLeaves(a, Left(x), b, Left(y)) /\ SameLeaves(a, Right(x), b, Right(y))
      BY <1>2, <3>2, <3>3, <3>4, <3>5
    <3>7. Middle(x) - x[1] = Middle(y) - y[1] /\ x[2] - Middle(x) = y[2] - Middle(y)
      BY <3>3, <3>4, <3>6 DEF SameLeaves, Size
    <3>8. ASSUME NEW i \in 1 .. Size(x) PROVE a[x[1] + i] = b[y[1] + i]
      <4>1. CASE i <= Middle(x) - x[1]
        <5>1. i \in 1 .. Size(Left(x))
          BY <2>1, <3>3, <4>1 DEF Size
        <5> QED BY <5>1, <3>3, <3>4, <3>6 DEF SameLeaves
      <4>2. CASE i > Middle(x) - x[1]
        <5> DEFINE j == i - (Middle(x) - x[1])
        <5>0. Size(Right(x)) = x[2] - Middle(x) /\ Size(x) = x[2] - x[1]
          BY <3>3 DEF Size
        <5>1. j \in 1 .. x[2] - Middle(x) /\ Middle(x) + j = x[1] + i /\ Middle(y) + j = y[1] + i
          <6>1. i \in Int /\ i <= x[2] - x[1] /\ Middle(x) \in Nat /\ Middle(y) \in Nat
            BY <2>1, <5>0, <3>3, <3>4
          <6>2. Middle(x) - x[1] = Middle(y) - y[1]
            BY <3>7
          <6> HIDE DEF S
          <6> DEFINE p == Middle(x)
                     r == Middle(y)
                     x1 == x[1]
                     x2 == x[2]
                     y1 == y[1]
          <6>3. p \in Nat /\ r \in Nat /\ x1 \in Nat /\ x2 \in Nat /\ y1 \in Nat /\ i \in Int
                /\ i <= x2 - x1 /\ p - x1 = r - y1 /\ i > p - x1
            BY <6>1, <6>2, <2>1, <4>2
          <6> HIDE DEF p, r, x1, x2, y1
          <6>4. i - (p - x1) \in 1 .. x2 - p /\ p + (i - (p - x1)) = x1 + i /\ r + (i - (p - x1)) = y1 + i
            BY <6>3
          <6> QED BY <6>4 DEF p, r, x1, x2, y1
        <5> HIDE DEF j
        <5>2. a[Middle(x) + j] = b[Middle(y) + j]
          BY <5>0, <5>1, <3>3, <3>4, <3>6 DEF SameLeaves
        <5> QED BY <5>1, <5>2
      <4> QED BY <2>1, <3>3, <4>1, <4>2 DEF Size
    <3>9. x[2] - x[1] = y[2] - y[1]
      <4> DEFINE g == x[1]
                 h == Middle(x)
                 k == x[2]
                 p == y[1]
                 q == Middle(y)
                 r == y[2]
      <4>1. g \in Nat /\ h \in Nat /\ k \in Nat /\ p \in Nat /\ q \in Nat /\ r \in Nat
            /\ h - g = q - p /\ k - h = r - q
        BY <2>1, <3>3, <3>4, <3>7
      <4> HIDE DEF g, h, k, p, q, r
      <4>2. k - g = r - p
        BY <4>1
      <4> QED BY <4>2 DEF g, k, p, r
    <3> QED BY <3>8, <3>9 DEF SameLeaves, Size
  <2>4. CASE (x[2] = x[1] + 1) # (y[2] = y[1] + 1)
    <3>1. CASE x[2] = x[1] + 1
      <4>1. y[2] > y[1] + 1
        BY <2>1, <2>4, <3>1
      <4>2. A[x] = LeafHash(a[x[2]]) /\ B[y] = NodeHash(B[Left(y)], B[Right(y)])
        BY <3>1, <4>1, <1>0
      <4> QED BY <4>2, <2>0, LeafNoNode
    <3>2. CASE y[2] = y[1] + 1
      <4>1. x[2] > x[1] + 1
        BY <2>1, <2>4, <3>2
      <4>2. B[y] = LeafHash(b[y[2]]) /\ A[x] = NodeHash(A[Left(x)], A[Right(x)])
        BY <3>2, <4>1, <1>0
      <4> QED BY <4>2, <2>0, LeafNoNode
    <3> QED BY <2>4, <3>1, <3>2
  <2> QED BY <2>1, <2>2, <2>3, <2>4
<1>3. Size(s) \in Nat
  BY SliceBounds DEF Size
<1>4. Size(s) \in S
  <2> HIDE DEF S
  <2> QED BY <1>1, <1>2, <1>3, Upwards
<1> QED BY <1>3, <1>4, <1>10

\* Slices that hold the same leaves have one root.
LEMMA SameHash ==
  ASSUME NEW a, Len(a) \in Nat, NEW b, Len(b) \in Nat,
         NEW s \in Slices(a), NEW u \in Slices(b), s[1] < s[2], SameLeaves(a, s, b, u)
  PROVE  SliceRoots(a)[s] = SliceRoots(b)[u]
<1> DEFINE A == SliceRoots(a)
           B == SliceRoots(b)
           S == {d \in Nat : \A x \in Slices(a), y \in Slices(b) :
                   Size(x) <= d /\ x[1] < x[2] /\ SameLeaves(a, x, b, y) => A[x] = B[y]}
<1>0. /\ \A x \in Slices(a) : x[2] = x[1] + 1 => A[x] = LeafHash(a[x[2]])
      /\ \A x \in Slices(a) : x[2] > x[1] + 1 => A[x] = NodeHash(A[Left(x)], A[Right(x)])
      /\ \A y \in Slices(b) : y[2] = y[1] + 1 => B[y] = LeafHash(b[y[2]])
      /\ \A y \in Slices(b) : y[2] > y[1] + 1 => B[y] = NodeHash(B[Left(y)], B[Right(y)])
  BY RootOne, RootTwo
<1> HIDE DEF A, B
<1>1. 0 \in S
  BY SliceBounds DEF Size
<1>2. ASSUME NEW d \in Nat, d \in S PROVE d + 1 \in S
  <2> SUFFICES ASSUME NEW x \in Slices(a), NEW y \in Slices(b), Size(x) <= d + 1,
                      x[1] < x[2], SameLeaves(a, x, b, y)
               PROVE  A[x] = B[y]
    OBVIOUS
  <2>1. x[1] \in Nat /\ x[2] \in Nat /\ y[1] \in Nat /\ y[2] \in Nat
    BY SliceBounds
  <2>2. x[2] - x[1] = y[2] - y[1] /\ \A i \in 1 .. x[2] - x[1] : a[x[1] + i] = b[y[1] + i]
    BY DEF SameLeaves, Size
  <2>3. CASE x[2] = x[1] + 1
    <3>1. y[2] = y[1] + 1
      BY <2>1, <2>2, <2>3
    <3>2. a[x[1] + 1] = b[y[1] + 1]
      BY <2>1, <2>2, <2>3
    <3> QED BY <3>1, <3>2, <2>3, <1>0
  <2>4. CASE x[2] > x[1] + 1
    <3>1. y[2] > y[1] + 1
      BY <2>1, <2>2, <2>4
    <3>3. /\ Left(x) \in Slices(a) /\ Right(x) \in Slices(a)
          /\ Left(x)[1] = x[1] /\ Left(x)[2] = Middle(x)
          /\ Right(x)[1] = Middle(x) /\ Right(x)[2] = x[2]
          /\ Middle(x) \in Nat /\ x[1] < Middle(x) /\ Middle(x) < x[2]
      BY <2>4, Parts
    <3>4. /\ Left(y) \in Slices(b) /\ Right(y) \in Slices(b)
          /\ Left(y)[1] = y[1] /\ Left(y)[2] = Middle(y)
          /\ Right(y)[1] = Middle(y) /\ Right(y)[2] = y[2]
          /\ Middle(y) \in Nat /\ y[1] < Middle(y) /\ Middle(y) < y[2]
      BY <3>1, Parts
    <3>5. Size(Left(x)) <= d /\ Size(Right(x)) <= d
      BY <2>4, Smaller
    <3> DEFINE k == SplitPoint(x[2] - x[1])
    <3>6. Middle(x) = x[1] + k /\ Middle(y) = y[1] + k
      BY <2>2 DEF Middle
    <3>7. k \in Nat
      <4>1. x[2] - x[1] \in Nat /\ x[2] - x[1] > 1
        BY <2>1, <2>4
      <4> QED BY <4>1, SplitIs DEF Powers
    <3> HIDE DEF k
    <3>8. SameLeaves(a, Left(x), b, Left(y))
      <4>1. Left(x)[2] - Left(x)[1] = k /\ Left(y)[2] - Left(y)[1] = k
        BY <2>1, <3>3, <3>4, <3>6, <3>7
      <4>2. \A i \in 1 .. k : a[x[1] + i] = b[y[1] + i]
        <5>1. k < x[2] - x[1]
          BY <2>1, <3>3, <3>6, <3>7
        <5>2. \A i \in 1 .. k : i \in 1 .. x[2] - x[1]
          BY <2>1, <3>7, <5>1
        <5> QED BY <5>2, <2>2
      <4> QED BY <4>1, <4>2, <3>3, <3>4 DEF SameLeaves, Size
    <3>9. SameLeaves(a, Right(x), b, Right(y))
      <4> DEFINE n == x[2] - x[1]
      <4>1. Right(x)[2] - Right(x)[1] = n - k /\ Right(y)[2] - Right(y)[1] = n - k
        <5> DEFINE x1 == x[1]
                   x2 == x[2]
                   y1 == y[1]
                   y2 == y[2]
        <5>1. x1 \in Nat /\ x2 \in Nat /\ y1 \in Nat /\ y2 \in Nat /\ n = x2 - x1 /\ n = y2 - y1
          BY <2>1, <2>2
        <5>2. Right(x)[1] = x1 + k /\ Right(x)[2] = x2 /\ Right(y)[1] = y1 + k /\ Right(y)[2] = y2
          BY <3>3, <3>4, <3>6
        <5> HIDE DEF n, x1, x2, y1, y2
        <5>3. x2 - (x1 + k) = n - k /\ y2 - (y1 + k) = n - k
          BY <5>1, <3>7
        <5> QED BY <5>2, <5>3
      <4>2. ASSUME NEW i \in 1 .. n - k PROVE a[Middle(x) + i] = b[Middle(y) + i]
        <5>1. n \in Nat
          BY <2>1, <2>4
        <5>2. k + i \in 1 .. n
          <6> HIDE DEF n
          <6> QED BY <3>7, <5>1
        <5>3. a[x[1] + (k + i)] = b[y[1] + (k + i)]
          BY <5>2, <2>2
        <5>4. x[1] + (k + i) = Middle(x) + i /\ y[1] + (k + i) = Middle(y) + i
          BY <2>1, <3>6, <3>7
        <5> QED BY <5>3, <5>4
      <4> HIDE DEF n
      <4> QED BY <4>1, <4>2, <3>3, <3>4 DEF SameLeaves, Size
    <3>10. A[Left(x)] = B[Left(y)]
      BY <1>2, <3>3, <3>4, <3>5, <3>8
    <3>11. A[Right(x)] = B[Right(y)]
      BY <1>2, <3>3, <3>4, <3>5, <3>9
    <3> QED BY <3>1, <3>10, <3>11, <2>4, <1>0
  <2> QED BY <2>1, <2>3, <2>4
<1>3. Size(s) \in Nat
  BY SliceBounds DEF Size
<1>4. Size(s) \in S
  <2> HIDE DEF S
  <2> QED BY <1>1, <1>2, <1>3, Upwards
<1>5. A[s] = B[u]
  BY <1>3, <1>4
<1> QED BY <1>5 DEF A, B

-----------------------------------------------------------------------------
(* Where a walk stands. *)

\* One level up.
LEMMA AboveIs ==
  ASSUME NEW x \in Places
  PROVE  /\ x.fn \in Nat /\ x.sn \in Nat /\ Above(x) \in Places
         /\ Above(x).fn = x.fn \div 2 /\ Above(x).sn = x.sn \div 2
         /\ x.fn # 0 => x.fn \div 2 < x.fn
BY DEF Above, Places

\* A climb goes up from the places of G, all but the leftmost of their level.
ClimbsTo(c, G, d) == c = [x \in Places |-> IF x \in G /\ x.fn <= d THEN c[Above(x)] ELSE x]
Climbs(c, G) == c = [x \in Places |-> IF x \in G THEN c[Above(x)] ELSE x]

LEMMA ClimbsFor ==
  ASSUME NEW G, \A x \in Places : x \in G => x.fn # 0, NEW d \in Nat
  PROVE  \E c : ClimbsTo(c, G, d)
<1> DEFINE S == {e \in Nat : \E c : ClimbsTo(c, G, e)}
<1>1. 0 \in S
  <2> DEFINE c == [x \in Places |-> x]
  <2>1. \A x \in Places : ~(x \in G /\ x.fn <= 0)
    BY AboveIs
  <2>2. ClimbsTo(c, G, 0)
    BY <2>1 DEF ClimbsTo
  <2> QED BY <2>2
<1>2. ASSUME NEW e \in Nat, e \in S PROVE e + 1 \in S
  <2>1. PICK c : ClimbsTo(c, G, e)
    BY <1>2
  <2> DEFINE g == [x \in Places |-> IF x \in G /\ x.fn <= e + 1 THEN c[Above(x)] ELSE x]
  <2>2. \A x \in Places : x \in G /\ x.fn <= e + 1 => Above(x) \in Places /\ Above(x).fn <= e
    BY AboveIs
  <2>3. \A x \in Places : x.fn <= e => c[x] = g[x]
    <3> TAKE x \in Places
    <3>1. c[x] = IF x \in G /\ x.fn <= e THEN c[Above(x)] ELSE x
      BY <2>1 DEF ClimbsTo
    <3>2. x.fn <= e => x.fn <= e + 1
      BY AboveIs
    <3> QED BY <3>1, <3>2
  <2>4. ClimbsTo(g, G, e + 1)
    BY <2>2, <2>3 DEF ClimbsTo
  <2> QED BY <2>4
<1>3. d \in S
  <2> HIDE DEF S
  <2> QED BY <1>1, <1>2, Upwards
<1> QED BY <1>3

\* Two climbs agree as far as both go.
LEMMA ClimbsAgree ==
  ASSUME NEW G, \A x \in Places : x \in G => x.fn # 0, NEW d \in Nat, NEW e \in Nat,
         NEW b, NEW c, ClimbsTo(b, G, d), ClimbsTo(c, G, e),
         NEW x \in Places, x.fn <= d, x.fn <= e
  PROVE  b[x] = c[x]
<1> DEFINE S == {k \in Nat : \A y \in Places : y.fn <= k /\ y.fn <= d /\ y.fn <= e => b[y] = c[y]}
<1>0. \A y \in Places : /\ b[y] = IF y \in G /\ y.fn <= d THEN b[Above(y)] ELSE y
                        /\ c[y] = IF y \in G /\ y.fn <= e THEN c[Above(y)] ELSE y
  BY DEF ClimbsTo
<1>1. 0 \in S
  <2>1. \A y \in Places : y.fn <= 0 => y \notin G
    BY AboveIs
  <2> QED BY <1>0, <2>1
<1>2. ASSUME NEW k \in Nat, k \in S PROVE k + 1 \in S
  <2> SUFFICES ASSUME NEW y \in Places, y.fn <= k + 1, y.fn <= d, y.fn <= e PROVE b[y] = c[y]
    OBVIOUS
  <2>1. CASE y \notin G
    BY <1>0, <2>1
  <2>2. CASE y \in G
    <3>1. Above(y) \in Places /\ Above(y).fn <= k /\ Above(y).fn <= d /\ Above(y).fn <= e
      BY <2>2, AboveIs
    <3>2. b[Above(y)] = c[Above(y)]
      BY <1>2, <3>1
    <3> QED BY <1>0, <2>2, <3>2
  <2> QED BY <2>1, <2>2
<1>3. x.fn \in Nat /\ x.fn \in S
  <2>1. x.fn \in Nat
    BY AboveIs
  <2> HIDE DEF S
  <2> QED BY <1>1, <1>2, <2>1, Upwards
<1> QED BY <1>3

LEMMA ClimbExists ==
  ASSUME NEW G, \A x \in Places : x \in G => x.fn # 0
  PROVE  \E c : Climbs(c, G)
<1> DEFINE C(d) == CHOOSE c : ClimbsTo(c, G, d)
           g == [x \in Places |-> C(x.fn)[x]]
<1>1. \A d \in Nat : ClimbsTo(C(d), G, d)
  BY ClimbsFor
<1> HIDE DEF C
<1>2. ASSUME NEW x \in Places PROVE g[x] = IF x \in G THEN g[Above(x)] ELSE x
  <2> DEFINE up == Above(x)
             m == x.fn
             k == up.fn
             b == C(m)
             e == C(k)
  <2>1. m \in Nat /\ up \in Places /\ k \in Nat /\ (m # 0 => k <= m) /\ k <= k /\ m <= m
    BY AboveIs
  <2>2. ClimbsTo(b, G, m) /\ ClimbsTo(e, G, k) /\ g[x] = b[x] /\ g[up] = e[up]
    BY <1>1, <2>1
  <2> HIDE DEF b, e
  <2>3. b[x] = IF x \in G THEN b[up] ELSE x
    BY <2>1, <2>2 DEF ClimbsTo
  <2>4. CASE x \in G
    <3>1. m # 0
      BY <2>4
    <3>2. b[up] = e[up]
      <4>1. up.fn <= m /\ up.fn <= k /\ m \in Nat /\ k \in Nat /\ up \in Places
        BY <2>1, <3>1
      <4> HIDE DEF m, k, up
      <4> QED BY <2>2, <4>1, ClimbsAgree
    <3> QED BY <2>2, <2>3, <2>4, <3>2
  <2> QED BY <2>2, <2>3, <2>4
<1>3. Climbs(g, G)
  BY <1>2 DEF Climbs
<1> QED BY <1>3

\* The two climbs of the folds.
LEMMA CarriedIs ==
  ASSUME NEW x \in Places
  PROVE  Carried(x) = IF x.fn % 2 = 0 /\ x.fn # 0 THEN Carried(Above(x)) ELSE x
<1> DEFINE G == {y \in Places : y.fn % 2 = 0 /\ y.fn # 0}
           P(c) == c = [y \in Places |-> IF y.fn % 2 = 0 /\ y.fn # 0 THEN c[Above(y)] ELSE y]
           c == CHOOSE c : P(c)
<1>1. PICK g : Climbs(g, G)
  BY ClimbExists
<1>2. P(g)
  BY <1>1 DEF Climbs
<1>3. P(c)
  BY <1>2
<1>4. \A y : Carried(y) = c[y]
  BY DEF Carried
<1> HIDE DEF c
<1>5. c[x] = IF x.fn % 2 = 0 /\ x.fn # 0 THEN c[Above(x)] ELSE x
  BY <1>3
<1> QED BY <1>4, <1>5

LEMMA BoundaryIs ==
  ASSUME NEW x \in Places
  PROVE  Boundary(x.fn, x.sn) = IF x.fn % 2 = 1 THEN Boundary(x.fn \div 2, x.sn \div 2) ELSE x
<1> DEFINE G == {y \in Places : y.fn % 2 = 1}
           P(c) == c = [y \in Places |-> IF y.fn % 2 = 1 THEN c[Above(y)] ELSE y]
           c == CHOOSE c : P(c)
<1>0. \A y \in Places : y \in G => y.fn # 0
  OBVIOUS
<1>1. PICK g : Climbs(g, G)
  BY <1>0, ClimbExists
<1>2. P(g)
  BY <1>1 DEF Climbs
<1>3. P(c)
  BY <1>2
<1>4. \A f, s : Boundary(f, s) = c[[fn |-> f, sn |-> s]]
  BY DEF Boundary
<1> HIDE DEF c
<1>5. c[x] = IF x.fn % 2 = 1 THEN c[Above(x)] ELSE x
  BY <1>3
<1>6. [fn |-> x.fn, sn |-> x.sn] = x /\ [fn |-> x.fn \div 2, sn |-> x.sn \div 2] = Above(x)
  BY DEF Places, Above
<1> QED BY <1>4, <1>5, <1>6

\* Halving an index while the width of a node doubles.
LEMMA Halved ==
  ASSUME NEW i \in Nat, NEW q \in Nat
  PROVE  /\ i \div 2 \in Nat /\ (i \div 2) * (2 * q) \in Nat
         /\ i % 2 = 0 => i * q = (i \div 2) * (2 * q)
         /\ i % 2 # 0 => i % 2 = 1 /\ i * q = (i \div 2) * (2 * q) + q
         /\ (i + 1) * q = i * q + q
         /\ (i \div 2 + 1) * (2 * q) = (i \div 2) * (2 * q) + 2 * q
<1> DEFINE h == i \div 2
<1>1. h \in Nat /\ (i = 2 * h \/ i = 2 * h + 1) /\ (i % 2 = 0 <=> i = 2 * h) /\ (i % 2 # 0 => i % 2 = 1)
  OBVIOUS
<1> HIDE DEF h
<1>2. h * (2 * q) \in Nat /\ (2 * h) * q = h * (2 * q) /\ (2 * h + 1) * q = h * (2 * q) + q
      /\ (h + 1) * (2 * q) = h * (2 * q) + 2 * q
  BY <1>1
<1>3. (i + 1) * q = i * q + q
  OBVIOUS
<1> QED BY <1>1, <1>2, <1>3 DEF h

\* w stands at a node of width q in a tree of n leaves.
Stands(w, n, q) ==
  /\ q \in Powers /\ w.fn \in Nat /\ w.sn \in Nat /\ w.fn <= w.sn
  /\ w.sn * q < n /\ n <= (w.sn + 1) * q
Node(w, n, q) == <<w.fn * q, IF (w.fn + 1) * q <= n THEN (w.fn + 1) * q ELSE n>>

\* Larger indexes, later nodes.
LEMMA Scaled ==
  ASSUME NEW i \in Nat, NEW k \in Nat, NEW q \in Nat, i <= k
  PROVE  i * q \in Nat /\ i * q <= k * q
<1>1. PICK d \in Nat : k = i + d
  <2>1. k - i \in Nat /\ k = i + (k - i)
    OBVIOUS
  <2> QED BY <2>1
<1>2. (i + d) * q = i * q + d * q /\ d * q \in Nat /\ i * q \in Nat
  BY <1>1
<1> QED BY <1>1, <1>2

LEMMA NodeIs ==
  ASSUME NEW w, NEW n \in Nat, NEW q, Stands(w, n, q)
  PROVE  LET s == Node(w, n, q) IN
         /\ s[1] \in Nat /\ s[2] \in Nat /\ s[1] < s[2] /\ s[2] <= n /\ s = <<s[1], s[2]>>
         /\ s[1] = w.fn * q /\ s[2] - s[1] <= q
         /\ s[2] # n => s[2] = s[1] + q
         /\ w.fn # w.sn => s[2] = s[1] + q
         /\ w.fn = w.sn => s[2] = n
<1> DEFINE u == w.fn * q
           v == w.sn * q
<1>1. q \in Nat \ {0} /\ w.fn \in Nat /\ w.sn \in Nat
  BY PowersHalve DEF Stands
<1>2. u \in Nat /\ v \in Nat /\ u <= v /\ (w.fn # w.sn => u + q <= v) /\ (w.fn = w.sn => u = v)
  <2>1. u <= v /\ u \in Nat /\ v \in Nat
    BY <1>1, Scaled DEF Stands
  <2>2. ASSUME w.fn # w.sn PROVE u + q <= v
    <3>1. w.fn + 1 <= w.sn /\ w.fn + 1 \in Nat
      BY <1>1, <2>2 DEF Stands
    <3>2. (w.fn + 1) * q <= v
      BY <1>1, <3>1, Scaled
    <3> QED BY <3>2, <1>1, Halved
  <2> QED BY <2>1, <2>2
<1>3. (w.fn + 1) * q = u + q /\ (w.sn + 1) * q = v + q
  BY <1>1, Halved
<1>4. v < n /\ n <= v + q
  BY <1>3 DEF Stands
<1>5. Node(w, n, q)[1] = u /\ Node(w, n, q)[2] = IF u + q <= n THEN u + q ELSE n
  BY <1>3 DEF Node
<1>6. Node(w, n, q) = <<Node(w, n, q)[1], Node(w, n, q)[2]>>
  BY DEF Node
<1> DEFINE s1 == Node(w, n, q)[1]
           s2 == Node(w, n, q)[2]
<1> HIDE DEF u, v, s1, s2
<1>7. /\ s1 \in Nat /\ s2 \in Nat /\ s1 < s2 /\ s2 <= n /\ s1 = u /\ s2 - s1 <= q
      /\ s2 # n => s2 = s1 + q
      /\ w.fn # w.sn => s2 = s1 + q
      /\ w.fn = w.sn => s2 = n
  BY <1>1, <1>2, <1>4, <1>5 DEF s1, s2
<1> QED BY <1>6, <1>7 DEF s1, s2, u

\* The level above: an odd node's index drops to its parent's.
LEMMA StandsAbove ==
  ASSUME NEW w, NEW n \in Nat, NEW q, Stands(w, n, q), NEW x, x.fn = w.fn \div 2, x.sn = w.sn \div 2
  PROVE  Stands(x, n, 2 * q)
<1> DEFINE h == w.fn \div 2
           k == w.sn \div 2
           v == w.sn * q
           t == k * (2 * q)
<1>1. q \in Nat \ {0} /\ w.fn \in Nat /\ w.sn \in Nat /\ w.fn <= w.sn
  BY PowersHalve DEF Stands
<1>2. h \in Nat /\ k \in Nat /\ h <= k
  BY <1>1
<1>3. v < n /\ n <= v + q
  BY <1>1, Halved DEF Stands
<1>4. v = t \/ v = t + q
  BY <1>1, Halved
<1>5. (k + 1) * (2 * q) = t + 2 * q /\ t \in Nat /\ v \in Nat
  BY <1>1, Halved
<1>6. 2 * q \in Powers
  BY PowersDouble DEF Stands
<1> HIDE DEF h, k, v, t
<1>7. t < n /\ n <= t + 2 * q
  BY <1>1, <1>3, <1>4, <1>5
<1> QED BY <1>2, <1>5, <1>6, <1>7 DEF Stands, h, k, t

\* The odd node at the right edge is carried up: the same node, as a right child.
LEMMA CarryUp ==
  ASSUME NEW x \in Places, x.fn = x.sn, x.fn # 0, NEW n \in Nat, NEW q, Stands(x, n, q)
  PROVE  LET y == Carried(x) IN
         /\ y \in Places /\ y.fn % 2 = 1
         /\ \E r \in Powers : Stands(y, n, r) /\ Node(y, n, r) = Node(x, n, q)
<1> DEFINE Good(x1, q1) == LET y == Carried(x1) IN
             /\ y \in Places /\ y.fn % 2 = 1
             /\ \E r \in Powers : Stands(y, n, r) /\ Node(y, n, r) = Node(x1, n, q1)
           S == {d \in Nat : \A x1 \in Places, q1 \in Powers :
                   x1.fn <= d /\ x1.fn = x1.sn /\ x1.fn # 0 /\ Stands(x1, n, q1) => Good(x1, q1)}
<1>1. 0 \in S
  BY AboveIs
<1>2. ASSUME NEW d \in Nat, d \in S PROVE d + 1 \in S
  <2> SUFFICES ASSUME NEW z \in Places, NEW p \in Powers, z.fn <= d + 1, z.fn = z.sn, z.fn # 0,
                      Stands(z, n, p)
               PROVE  Good(z, p)
    OBVIOUS
  <2>1. z.fn \in Nat /\ z.sn \in Nat /\ p \in Nat
    BY AboveIs, PowersHalve
  <2>2. CASE z.fn % 2 # 0
    <3>1. Carried(z) = z /\ z.fn % 2 = 1
      BY <2>1, <2>2, CarriedIs
    <3> QED BY <3>1
  <2>3. CASE z.fn % 2 = 0
    <3> DEFINE u == Above(z)
    <3>1. Carried(z) = Carried(u)
      BY <2>3, CarriedIs
    <3>2. u \in Places /\ u.fn = z.fn \div 2 /\ u.sn = z.sn \div 2
      BY AboveIs
    <3>3. u.fn = u.sn /\ u.fn # 0 /\ u.fn <= d
      BY <2>1, <2>3, <3>2
    <3>4. Stands(u, n, 2 * p) /\ 2 * p \in Powers
      BY <3>2, StandsAbove, PowersDouble
    <3>5. Good(u, 2 * p)
      <4> HIDE DEF Good, u
      <4> QED BY <1>2, <3>2, <3>3, <3>4
    <3>6. Node(u, n, 2 * p) = Node(z, n, p)
      <4>1. u.fn * (2 * p) = z.fn * p
        BY <2>1, <2>3, <3>2, Halved
      <4>2. Node(u, n, 2 * p)[2] = n /\ Node(z, n, p)[2] = n
        BY <3>3, <3>4, NodeIs
      <4>3. Node(u, n, 2 * p)[1] = Node(z, n, p)[1]
        BY <4>1, <3>4, NodeIs
      <4> DEFINE a == Node(u, n, 2 * p)
                 b == Node(z, n, p)
      <4>4. a = <<a[1], a[2]>> /\ b = <<b[1], b[2]>>
        BY DEF Node
      <4>5. a[1] = b[1] /\ a[2] = b[2]
        BY <4>2, <4>3
      <4> HIDE DEF a, b
      <4>6. a = b
        BY <4>4, <4>5
      <4> QED BY <4>6 DEF a, b
    <3> HIDE DEF u
    <3> QED BY <3>1, <3>5, <3>6
  <2> QED BY <2>2, <2>3
<1>3. x.fn \in Nat /\ x.fn \in S
  <2>1. x.fn \in Nat
    BY AboveIs
  <2> HIDE DEF S
  <2> QED BY <1>1, <1>2, <2>1, Upwards
<1>4. q \in Powers
  BY DEF Stands
<1>5. Good(x, q)
  <2> HIDE DEF Good
  <2> QED BY <1>3, <1>4
<1> QED BY <1>5

\* Where a consistency fold starts: the last complete subtree of the prefix,
\* the first of its level or a right part's left sibling.
LEMMA BoundaryAt ==
  ASSUME NEW f \in Nat, NEW n \in Nat, 0 < f, f < n
  PROVE  LET y == Boundary(f - 1, n - 1) IN
         /\ y \in Places /\ y.fn % 2 = 0
         /\ \E r \in Powers : Stands(y, n, r) /\ Node(y, n, r)[2] = f
<1> DEFINE Good(x, q) == LET y == Boundary(x.fn, x.sn) IN
             /\ y \in Places /\ y.fn % 2 = 0
             /\ \E r \in Powers : Stands(y, n, r) /\ (y.fn + 1) * r = (x.fn + 1) * q
           S == {d \in Nat : \A x \in Places, q \in Powers : x.fn <= d /\ Stands(x, n, q) => Good(x, q)}
<1>1. ASSUME NEW x \in Places, NEW q \in Powers, Stands(x, n, q), x.fn % 2 # 1 PROVE Good(x, q)
  <2>1. Boundary(x.fn, x.sn) = x
    BY <1>1, BoundaryIs
  <2>2. x.fn % 2 = 0
    BY <1>1, AboveIs
  <2> QED BY <1>1, <2>1, <2>2
<1>2. 0 \in S
  BY <1>1, AboveIs
<1>3. ASSUME NEW d \in Nat, d \in S PROVE d + 1 \in S
  <2> SUFFICES ASSUME NEW z \in Places, NEW p \in Powers, z.fn <= d + 1, Stands(z, n, p) PROVE Good(z, p)
    OBVIOUS
  <2>1. z.fn \in Nat /\ z.sn \in Nat /\ p \in Nat
    BY AboveIs, PowersHalve
  <2>2. CASE z.fn % 2 # 1
    BY <1>1, <2>2
  <2>3. CASE z.fn % 2 = 1
    <3> DEFINE u == Above(z)
    <3>1. u \in Places /\ u.fn = z.fn \div 2 /\ u.sn = z.sn \div 2
      BY AboveIs
    <3>2. Boundary(z.fn, z.sn) = Boundary(u.fn, u.sn)
      BY <2>3, <3>1, BoundaryIs
    <3>3. u.fn <= d
      BY <2>1, <2>3, <3>1
    <3>4. Stands(u, n, 2 * p) /\ 2 * p \in Powers
      BY <3>1, StandsAbove, PowersDouble
    <3>5. Good(u, 2 * p)
      <4> HIDE DEF Good, u
      <4> QED BY <1>3, <3>1, <3>3, <3>4
    <3>6. (u.fn + 1) * (2 * p) = (z.fn + 1) * p
      <4> DEFINE t == (z.fn \div 2) * (2 * p)
                 v == z.fn * p
      <4>1. v = t + p /\ (z.fn \div 2 + 1) * (2 * p) = t + 2 * p /\ (z.fn + 1) * p = v + p
            /\ t \in Nat
        BY <2>1, <2>3, Halved
      <4>2. u.fn = z.fn \div 2
        BY <3>1
      <4> HIDE DEF t, v
      <4>3. v + p = t + 2 * p
        BY <2>1, <4>1
      <4> QED BY <4>1, <4>2, <4>3
    <3> HIDE DEF u
    <3> QED BY <3>2, <3>5, <3>6
  <2> QED BY <2>2, <2>3
<1>4. f - 1 \in Nat /\ f - 1 \in S
  <2>1. f - 1 \in Nat
    OBVIOUS
  <2> HIDE DEF S
  <2> QED BY <1>2, <1>3, <2>1, Upwards
<1> DEFINE x == [fn |-> f - 1, sn |-> n - 1]
<1>5. x \in Places /\ x.fn = f - 1 /\ x.sn = n - 1
  BY DEF Places
<1>6. Stands(x, n, 1) /\ 1 \in Powers
  BY <1>5, PowersDouble DEF Stands
<1>7. Good(x, 1)
  <2> HIDE DEF Good, x
  <2> QED BY <1>4, <1>5, <1>6
<1> HIDE DEF x
<1> DEFINE y == Boundary(f - 1, n - 1)
<1>8. PICK r \in Powers : Stands(y, n, r) /\ (y.fn + 1) * r = (x.fn + 1) * 1
  BY <1>5, <1>7
<1>9. y \in Places /\ y.fn % 2 = 0
  BY <1>5, <1>7
<1> HIDE DEF y
<1>10. (y.fn + 1) * r = f
  BY <1>5, <1>8
<1>11. Node(y, n, r)[2] = f
  BY <1>10 DEF Node
<1> QED BY <1>8, <1>9, <1>11 DEF y

\* A node whose leaves lie between two powers of two divides at the first.
LEMMA DividesAt ==
  ASSUME NEW a \in Nat, NEW b \in Nat, NEW q \in Powers, a + q < b, b <= a + 2 * q,
         NEW t, t = <<a, b>>
  PROVE  Middle(t) = a + q /\ Left(t) = <<a, a + q>> /\ Right(t) = <<a + q, b>>
<1>1. q \in Nat \ {0}
  BY PowersHalve
<1>2. b - a \in Nat /\ q < b - a /\ b - a <= 2 * q
  BY <1>1
<1>3. SplitPoint(b - a) = q
  BY <1>2, SplitOnly
<1>4. t[1] = a /\ t[2] = b
  OBVIOUS
<1> QED BY <1>3, <1>4 DEF Middle, Left, Right

\* One hash folded takes a walk from a node to the one above it.
RisesRight(w, x, p, s, t) ==
  /\ FromLeft(w) /\ Right(t) = s /\ Left(t)[1] = t[1] /\ Left(t)[2] = s[1] /\ Middle(t) = s[1]
  /\ t[1] < s[1] /\ t[2] = s[2] /\ s[1] - t[1] \in Powers /\ s[2] - s[1] <= s[1] - t[1]
  /\ x.first = NodeHash(p, w.first) /\ x.second = NodeHash(p, w.second)
RisesLeft(w, x, p, s, t) ==
  /\ ~FromLeft(w) /\ Left(t) = s /\ Right(t)[1] = s[2] /\ Right(t)[2] = t[2] /\ Middle(t) = s[2]
  /\ t[1] = s[1] /\ s[2] < t[2]
  /\ x.first = w.first /\ x.second = NodeHash(w.second, p)

LEMMA StepUp ==
  ASSUME NEW w, NEW p, NEW n \in Nat, NEW q, Stands(w, n, q), w.sn # 0
  PROVE  LET x == FoldStep(w, p) IN
         \E r \in Powers :
           /\ Stands(x, n, r)
           /\ \/ RisesRight(w, x, p, Node(w, n, q), Node(x, n, r))
              \/ RisesLeft(w, x, p, Node(w, n, q), Node(x, n, r))
<1> DEFINE x == FoldStep(w, p)
           s == Node(w, n, q)
           at == [fn |-> w.fn, sn |-> w.sn]
<1>1. w.fn \in Nat /\ w.sn \in Nat /\ w.fn <= w.sn /\ q \in Powers /\ q \in Nat \ {0}
  BY PowersHalve DEF Stands
<1>2. at \in Places /\ at.fn = w.fn /\ at.sn = w.sn
  BY <1>1 DEF Places
<1>3. Stands(at, n, q) /\ Node(at, n, q) = s
  BY <1>2 DEF Stands, Node
<1>4. /\ s[1] \in Nat /\ s[2] \in Nat /\ s[1] < s[2] /\ s[2] <= n /\ s = <<s[1], s[2]>>
      /\ s[1] = w.fn * q /\ s[2] - s[1] <= q
      /\ w.fn # w.sn => s[2] = s[1] + q
      /\ w.fn = w.sn => s[2] = n
  BY NodeIs
<1>5. CASE FromLeft(w)
  <2> DEFINE y == Carried(at)
  <2>1. /\ y \in Places /\ y.fn % 2 = 1
        /\ \E r \in Powers : Stands(y, n, r) /\ Node(y, n, r) = s
    <3>1. CASE w.fn % 2 = 1
      <4>1. y = at
        BY <1>2, <3>1, CarriedIs
      <4> QED BY <1>1, <1>2, <1>3, <3>1, <4>1
    <3>2. CASE w.fn % 2 # 1
      <4>1. at.fn = at.sn /\ at.fn # 0
        BY <1>2, <1>5, <3>2 DEF FromLeft
      <4>2. /\ y \in Places /\ y.fn % 2 = 1
            /\ \E r \in Powers : Stands(y, n, r) /\ Node(y, n, r) = Node(at, n, q)
        <5> HIDE DEF at
        <5> QED BY <1>2, <1>3, <4>1, CarryUp
      <4> QED BY <1>3, <4>2
    <3> QED BY <3>1, <3>2
  <2>2. PICK r \in Powers : Stands(y, n, r) /\ Node(y, n, r) = s
    BY <2>1
  <2> HIDE DEF y
  <2>3. /\ x.fn = y.fn \div 2 /\ x.sn = y.sn \div 2
        /\ x.first = NodeHash(p, w.first) /\ x.second = NodeHash(p, w.second)
    BY <1>5 DEF FoldStep, Above, y
  <2> HIDE DEF x, s, at
  <2>4. Stands(x, n, 2 * r) /\ 2 * r \in Powers /\ r \in Nat \ {0} /\ y.fn \in Nat
    BY <2>1, <2>2, <2>3, StandsAbove, PowersDouble, PowersHalve, AboveIs
  <2> DEFINE t == Node(x, n, 2 * r)
             a == x.fn * (2 * r)
  <2>5. a \in Nat /\ y.fn * r = a + r /\ (x.fn + 1) * (2 * r) = a + 2 * r /\ (y.fn + 1) * r = y.fn * r + r
    BY <2>1, <2>3, <2>4, Halved
  <2>6. s[1] = a + r /\ s[2] = IF a + 2 * r <= n THEN a + 2 * r ELSE n
    <3>1. s[1] = y.fn * r /\ s[2] = IF (y.fn + 1) * r <= n THEN (y.fn + 1) * r ELSE n
      BY <2>2 DEF Node
    <3> DEFINE b == y.fn * r
               c == (y.fn + 1) * r
    <3>2. b = a + r /\ c = b + r
      BY <2>5
    <3> HIDE DEF a, b, c
    <3>3. c = a + 2 * r
      BY <2>4, <2>5, <3>2
    <3> QED BY <3>1, <3>2, <3>3 DEF b, c
  <2>7. t = <<a, s[2]>>
    BY <2>5, <2>6 DEF Node
  <2> HIDE DEF a, t
  <2>8. a + r < s[2] /\ s[2] <= a + 2 * r /\ a \in Nat /\ s[2] \in Nat
    <3>1. s[2] <= a + 2 * r
      BY <1>4, <2>4, <2>5, <2>6
    <3> QED BY <1>4, <2>5, <2>6, <3>1
  <2>9. Middle(t) = a + r /\ Left(t) = <<a, a + r>> /\ Right(t) = <<a + r, s[2]>>
    BY <2>7, <2>8, DividesAt
  <2>10. t[1] = a /\ t[2] = s[2] /\ Left(t)[1] = a /\ Left(t)[2] = a + r
    BY <2>7, <2>9
  <2>11. a < a + r /\ (a + r) - a = r /\ s[2] - (a + r) <= r
    BY <2>4, <2>8
  <2>12. RisesRight(w, x, p, s, t)
    BY <1>4, <1>5, <2>2, <2>3, <2>6, <2>9, <2>10, <2>11 DEF RisesRight
  <2> QED BY <2>4, <2>12 DEF t, x, s
<1>6. CASE ~FromLeft(w)
  <2>1. w.fn % 2 = 0 /\ w.fn # w.sn
    BY <1>1, <1>6 DEF FromLeft
  <2>2. /\ x.fn = w.fn \div 2 /\ x.sn = w.sn \div 2
        /\ x.first = w.first /\ x.second = NodeHash(w.second, p)
    BY <1>6 DEF FoldStep, Above
  <2> HIDE DEF x, s, at
  <2>3. Stands(x, n, 2 * q) /\ 2 * q \in Powers
    BY <1>1, <2>2, StandsAbove, PowersDouble
  <2> DEFINE t == Node(x, n, 2 * q)
  <2>4. x.fn * (2 * q) = s[1] /\ (x.fn + 1) * (2 * q) = s[1] + 2 * q
    BY <1>1, <1>4, <2>1, <2>2, Halved
  <2>5. s[2] = s[1] + q
    BY <1>4, <2>1
  <2>6. s[1] + q < n
    <3>1. w.fn + 1 \in Nat /\ w.fn + 1 <= w.sn
      BY <1>1, <2>1
    <3>2. (w.fn + 1) * q <= w.sn * q /\ (w.fn + 1) * q = w.fn * q + q
      BY <1>1, <3>1, Scaled, Halved
    <3>3. w.sn * q < n /\ w.sn * q \in Nat /\ w.fn * q \in Nat
      BY <1>1, Scaled DEF Stands
    <3> DEFINE u == w.fn * q
               v == w.sn * q
               z == (w.fn + 1) * q
    <3>4. z <= v /\ z = u + q /\ v < n /\ v \in Nat /\ u \in Nat /\ s[1] = u
      BY <1>4, <3>2, <3>3
    <3> HIDE DEF u, v, z
    <3> QED BY <1>1, <3>4
  <2> DEFINE b == IF s[1] + 2 * q <= n THEN s[1] + 2 * q ELSE n
  <2>7. t = <<s[1], b>>
    BY <2>4 DEF Node
  <2>8. b \in Nat /\ s[1] + q < b /\ b <= s[1] + 2 * q /\ s[1] \in Nat
    <3> DEFINE a == s[1]
    <3>1. a \in Nat /\ q \in Nat \ {0} /\ a + q < n
      BY <1>1, <1>4, <2>6
    <3>2. b = IF a + 2 * q <= n THEN a + 2 * q ELSE n
      OBVIOUS
    <3> HIDE DEF a, b
    <3>3. b \in Nat /\ a + q < b /\ b <= a + 2 * q
      BY <3>1, <3>2
    <3> QED BY <3>1, <3>3 DEF a
  <2> HIDE DEF t, b
  <2>9. Middle(t) = s[1] + q /\ Left(t) = <<s[1], s[1] + q>> /\ Right(t) = <<s[1] + q, b>>
    BY <1>1, <2>7, <2>8, DividesAt
  <2>10. t[1] = s[1] /\ t[2] = b /\ Right(t)[1] = s[2] /\ Right(t)[2] = b /\ Left(t) = s
    BY <1>4, <2>5, <2>7, <2>9
  <2>11. RisesLeft(w, x, p, s, t)
    BY <1>6, <2>2, <2>5, <2>8, <2>9, <2>10 DEF RisesLeft
  <2> QED BY <2>3, <2>11 DEF t, x, s
<1> QED BY <1>5, <1>6

-----------------------------------------------------------------------------
(* The proofs a producer makes, slice by slice. *)

\* A path that adds to the path of a smaller slice C[s] the hash G[s], but for
\* the slices of B, whose path is V[s].
Paths(P, leaves, B, V, C, G) ==
  P = [s \in Slices(leaves) |-> IF s \in B THEN V[s] ELSE Append(P[C[s]], G[s])]
PathsTo(P, leaves, B, V, C, G, d) ==
  P = [s \in Slices(leaves) |->
         IF s \in B \/ ~(Size(s) <= d) THEN V[s] ELSE Append(P[C[s]], G[s])]

LEMMA PathsExist ==
  ASSUME NEW leaves, Len(leaves) \in Nat, NEW B, NEW V, NEW C, NEW G,
         \A s \in Slices(leaves) : s \notin B =>
           C[s] \in Slices(leaves) /\ Size(C[s]) < Size(s) /\ 0 < Size(s)
  PROVE  \E P : Paths(P, leaves, B, V, C, G)
<1> DEFINE S == {d \in Nat : \E P : PathsTo(P, leaves, B, V, C, G, d)}
<1>0. ASSUME NEW s \in Slices(leaves) PROVE Size(s) \in Int /\ Size(s) <= Len(leaves)
  <2>1. s[1] \in Nat /\ s[2] \in Nat /\ s[2] <= Len(leaves)
    BY SliceBounds
  <2> QED BY <2>1 DEF Size
<1>1. 0 \in S
  <2> DEFINE P == [s \in Slices(leaves) |-> V[s]]
  <2>1. \A s \in Slices(leaves) : s \in B \/ ~(Size(s) <= 0)
    <3> TAKE s \in Slices(leaves)
    <3>1. Size(s) \in Int
      BY <1>0
    <3> QED BY <3>1
  <2>2. PathsTo(P, leaves, B, V, C, G, 0)
    BY <2>1 DEF PathsTo
  <2> QED BY <2>2
<1>2. ASSUME NEW d \in Nat, d \in S PROVE d + 1 \in S
  <2>1. PICK P : PathsTo(P, leaves, B, V, C, G, d)
    BY <1>2
  <2> DEFINE g == [s \in Slices(leaves) |->
                     IF s \in B \/ ~(Size(s) <= d + 1) THEN V[s] ELSE Append(P[C[s]], G[s])]
  <2>2. \A s \in Slices(leaves) : Size(s) <= d => P[s] = g[s]
    <3> TAKE s \in Slices(leaves)
    <3>1. P[s] = IF s \in B \/ ~(Size(s) <= d) THEN V[s] ELSE Append(P[C[s]], G[s])
      BY <2>1 DEF PathsTo
    <3>2. Size(s) <= d => Size(s) <= d + 1
      BY <1>0
    <3> QED BY <3>1, <3>2
  <2>3. \A s \in Slices(leaves) : s \notin B /\ Size(s) <= d + 1 =>
          C[s] \in Slices(leaves) /\ Size(C[s]) <= d
    BY <1>0
  <2>4. PathsTo(g, leaves, B, V, C, G, d + 1)
    BY <2>2, <2>3 DEF PathsTo
  <2> QED BY <2>4
<1>3. Len(leaves) \in S
  <2> HIDE DEF S
  <2> QED BY <1>1, <1>2, Upwards
<1>4. PICK P : PathsTo(P, leaves, B, V, C, G, Len(leaves))
  BY <1>3
<1>5. Paths(P, leaves, B, V, C, G)
  BY <1>0, <1>4 DEF PathsTo, Paths
<1> QED BY <1>5

LEMMA InclusionPathsAre ==
  ASSUME NEW leaves, Len(leaves) \in Nat, NEW m, NEW s \in Slices(leaves)
  PROVE  LET R == SliceRoots(leaves)
             P == InclusionPaths(m, leaves)
         IN  P[s] = IF s[2] <= s[1] + 1 THEN << >>
                    ELSE IF m < Middle(s) THEN Append(P[Left(s)], R[Right(s)])
                                          ELSE Append(P[Right(s)], R[Left(s)])
<1> DEFINE R == SliceRoots(leaves)
           B == {x \in Slices(leaves) : x[2] <= x[1] + 1}
           V == [x \in Slices(leaves) |-> << >>]
           C == [x \in Slices(leaves) |-> IF m < Middle(x) THEN Left(x) ELSE Right(x)]
           G == [x \in Slices(leaves) |-> IF m < Middle(x) THEN R[Right(x)] ELSE R[Left(x)]]
           Is(P) == P = [x \in Slices(leaves) |->
                           IF x[2] <= x[1] + 1 THEN << >>
                           ELSE IF m < Middle(x) THEN Append(P[Left(x)], R[Right(x)])
                                                 ELSE Append(P[Right(x)], R[Left(x)])]
           P == CHOOSE P : Is(P)
<1>1. \A x \in Slices(leaves) : x \notin B =>
        C[x] \in Slices(leaves) /\ Size(C[x]) < Size(x) /\ 0 < Size(x)
  <2> SUFFICES ASSUME NEW x \in Slices(leaves), x \notin B
               PROVE  C[x] \in Slices(leaves) /\ Size(C[x]) < Size(x) /\ 0 < Size(x)
    OBVIOUS
  <2>1. x[1] \in Nat /\ x[2] \in Nat /\ x[2] > x[1] + 1
    BY SliceBounds
  <2>2. /\ Left(x) \in Slices(leaves) /\ Right(x) \in Slices(leaves)
        /\ Left(x)[1] = x[1] /\ Left(x)[2] = Middle(x)
        /\ Right(x)[1] = Middle(x) /\ Right(x)[2] = x[2]
        /\ Middle(x) \in Nat /\ x[1] < Middle(x) /\ Middle(x) < x[2]
    BY <2>1, Parts
  <2>3. Size(Left(x)) < Size(x) /\ Size(Right(x)) < Size(x) /\ 0 < Size(x)
    BY <2>1, <2>2 DEF Size
  <2> QED BY <2>2, <2>3
<1>2. PICK g : Paths(g, leaves, B, V, C, G)
  <2> HIDE DEF B, V, C, G
  <2> QED BY <1>1, PathsExist
<1>3. Is(g)
  BY <1>2 DEF Paths
<1>4. Is(P)
  <2> HIDE DEF Is
  <2> QED BY <1>3
<1>5. InclusionPaths(m, leaves) = P
  BY DEF InclusionPaths
<1> HIDE DEF P
<1> QED BY <1>4, <1>5

LEMMA SubProofsAre ==
  ASSUME NEW leaves, Len(leaves) \in Nat, NEW first, NEW s \in Slices(leaves)
  PROVE  LET R == SliceRoots(leaves)
             P == SubProofs(first, leaves)
         IN  P[s] = IF first = s[2] \/ s[2] <= s[1] + 1 THEN IF s[1] = 0 THEN << >> ELSE <<R[s]>>
                    ELSE IF first <= Middle(s) THEN Append(P[Left(s)], R[Right(s)])
                                               ELSE Append(P[Right(s)], R[Left(s)])
<1> DEFINE R == SliceRoots(leaves)
           B == {x \in Slices(leaves) : first = x[2] \/ x[2] <= x[1] + 1}
           V == [x \in Slices(leaves) |-> IF x[1] = 0 THEN << >> ELSE <<R[x]>>]
           C == [x \in Slices(leaves) |-> IF first <= Middle(x) THEN Left(x) ELSE Right(x)]
           G == [x \in Slices(leaves) |-> IF first <= Middle(x) THEN R[Right(x)] ELSE R[Left(x)]]
           Is(P) == P = [x \in Slices(leaves) |->
                           IF first = x[2] \/ x[2] <= x[1] + 1
                             THEN IF x[1] = 0 THEN << >> ELSE <<R[x]>>
                           ELSE IF first <= Middle(x) THEN Append(P[Left(x)], R[Right(x)])
                                                      ELSE Append(P[Right(x)], R[Left(x)])]
           P == CHOOSE P : Is(P)
<1>1. \A x \in Slices(leaves) : x \notin B =>
        C[x] \in Slices(leaves) /\ Size(C[x]) < Size(x) /\ 0 < Size(x)
  <2> SUFFICES ASSUME NEW x \in Slices(leaves), x \notin B
               PROVE  C[x] \in Slices(leaves) /\ Size(C[x]) < Size(x) /\ 0 < Size(x)
    OBVIOUS
  <2>1. x[1] \in Nat /\ x[2] \in Nat /\ x[2] > x[1] + 1
    BY SliceBounds
  <2>2. /\ Left(x) \in Slices(leaves) /\ Right(x) \in Slices(leaves)
        /\ Left(x)[1] = x[1] /\ Left(x)[2] = Middle(x)
        /\ Right(x)[1] = Middle(x) /\ Right(x)[2] = x[2]
        /\ Middle(x) \in Nat /\ x[1] < Middle(x) /\ Middle(x) < x[2]
    BY <2>1, Parts
  <2>3. Size(Left(x)) < Size(x) /\ Size(Right(x)) < Size(x) /\ 0 < Size(x)
    BY <2>1, <2>2 DEF Size
  <2> QED BY <2>2, <2>3
<1>2. PICK g : Paths(g, leaves, B, V, C, G)
  <2> HIDE DEF B, V, C, G
  <2> QED BY <1>1, PathsExist
<1>3. Is(g)
  BY <1>2 DEF Paths
<1>4. Is(P)
  <2> HIDE DEF Is
  <2> QED BY <1>3
<1>5. SubProofs(first, leaves) = P
  BY DEF SubProofs
<1> HIDE DEF P
<1> QED BY <1>4, <1>5

-----------------------------------------------------------------------------
(* What a root vouches for, whatever sizes the caller passes. *)

\* Were the hash that of a part of the log, the data would be a leaf of it.
LeafOf(hash, data, leaves) ==
  \A x \in Slices(leaves) : x[1] < x[2] /\ hash = SliceRoots(leaves)[x] =>
    \E i \in 1 .. Len(leaves) : leaves[i] = data

LEMMA LeafOfStart ==
  ASSUME NEW leaves, Len(leaves) \in Nat, NEW data
  PROVE  LeafOf(LeafHash(data), data, leaves)
<1> DEFINE R == SliceRoots(leaves)
<1> SUFFICES ASSUME NEW x \in Slices(leaves), x[1] < x[2], LeafHash(data) = R[x]
             PROVE  \E i \in 1 .. Len(leaves) : leaves[i] = data
  BY DEF LeafOf
<1>1. x[1] \in Nat /\ x[2] \in Nat /\ x[2] <= Len(leaves)
  BY SliceBounds
<1>2. CASE x[2] > x[1] + 1
  <2> DEFINE a == R[Left(x)]
             b == R[Right(x)]
  <2>1. R[x] = NodeHash(a, b)
    BY <1>2, RootTwo
  <2> HIDE DEF R, a, b
  <2> QED BY <2>1, LeafNoNode
<1>3. CASE x[2] = x[1] + 1
  <2> DEFINE e == leaves[x[2]]
  <2>1. R[x] = LeafHash(e)
    BY <1>3, RootOne
  <2> HIDE DEF R, e
  <2>2. e = data
    BY <2>1, LeafBinds
  <2>3. x[2] \in 1 .. Len(leaves)
    BY <1>1, <1>3
  <2> QED BY <2>2, <2>3 DEF e
<1> QED BY <1>1, <1>2, <1>3

LEMMA LeafOfStep ==
  ASSUME NEW leaves, Len(leaves) \in Nat, NEW data, NEW hash, LeafOf(hash, data, leaves), NEW p
  PROVE  LeafOf(NodeHash(p, hash), data, leaves) /\ LeafOf(NodeHash(hash, p), data, leaves)
<1> DEFINE R == SliceRoots(leaves)
<1> SUFFICES ASSUME NEW x \in Slices(leaves), x[1] < x[2],
                    R[x] = NodeHash(p, hash) \/ R[x] = NodeHash(hash, p)
             PROVE  \E i \in 1 .. Len(leaves) : leaves[i] = data
  BY DEF LeafOf
<1>1. x[1] \in Nat /\ x[2] \in Nat
  BY SliceBounds
<1>2. CASE x[2] = x[1] + 1
  <2> DEFINE e == leaves[x[2]]
  <2>1. R[x] = LeafHash(e)
    BY <1>2, RootOne
  <2> HIDE DEF R, e
  <2> QED BY <2>1, LeafNoNode
<1>3. CASE x[2] > x[1] + 1
  <2> DEFINE a == R[Left(x)]
             b == R[Right(x)]
  <2>1. R[x] = NodeHash(a, b)
    BY <1>3, RootTwo
  <2>2. /\ Left(x) \in Slices(leaves) /\ Right(x) \in Slices(leaves)
        /\ Left(x)[1] < Left(x)[2] /\ Right(x)[1] < Right(x)[2]
    BY <1>3, Parts
  <2>3. hash = a \/ hash = b
    <3> HIDE DEF R, a, b
    <3>1. CASE R[x] = NodeHash(p, hash)
      <4>1. NodeHash(a, b) = NodeHash(p, hash)
        BY <2>1, <3>1
      <4> QED BY <4>1, NodeBinds
    <3>2. CASE R[x] = NodeHash(hash, p)
      <4>1. NodeHash(a, b) = NodeHash(hash, p)
        BY <2>1, <3>2
      <4> QED BY <4>1, NodeBinds
    <3> QED BY <3>1, <3>2
  <2> QED BY <2>2, <2>3 DEF LeafOf
<1> QED BY <1>1, <1>2, <1>3

\* The leaves of slice x of a are the first of slice y of b.
Opens(a, x, b, y) ==
  /\ Size(x) <= Size(y)
  /\ \A i \in 1 .. Size(x) : a[x[1] + i] = b[y[1] + i]

\* Were the hashes those of parts of two logs, the one would open the other.
GrownOf(first, second, a, b) ==
  \A x \in Slices(a), y \in Slices(b) :
    /\ x[1] < x[2] /\ y[1] < y[2]
    /\ first = SliceRoots(a)[x] /\ second = SliceRoots(b)[y]
    => Opens(a, x, b, y)

LEMMA GrownOfStart ==
  ASSUME NEW a, Len(a) \in Nat, NEW b, Len(b) \in Nat, NEW hash
  PROVE  GrownOf(hash, hash, a, b)
<1> SUFFICES ASSUME NEW x \in Slices(a), NEW y \in Slices(b), x[1] < x[2], y[1] < y[2],
                    SliceRoots(a)[x] = SliceRoots(b)[y]
             PROVE  Opens(a, x, b, y)
  BY DEF GrownOf
<1>1. SameLeaves(a, x, b, y)
  BY SameRoot
<1>2. Size(x) \in Nat
  <2>1. x[1] \in Nat /\ x[2] \in Nat
    BY SliceBounds
  <2> QED BY <2>1 DEF Size
<1> QED BY <1>1, <1>2 DEF SameLeaves, Opens

\* A left part in front of both, or a right part behind the second.
LEMMA GrownOfStep ==
  ASSUME NEW a, Len(a) \in Nat, NEW b, Len(b) \in Nat, NEW first, NEW second,
         GrownOf(first, second, a, b), NEW p
  PROVE  /\ GrownOf(NodeHash(p, first), NodeHash(p, second), a, b)
         /\ GrownOf(first, NodeHash(second, p), a, b)
<1> DEFINE A == SliceRoots(a)
           B == SliceRoots(b)
<1>1. ASSUME NEW x \in Slices(a), NEW y \in Slices(b), x[1] < x[2], y[1] < y[2],
             NodeHash(p, first) = A[x], NodeHash(p, second) = B[y]
      PROVE  Opens(a, x, b, y)
  <2>1. x[1] \in Nat /\ x[2] \in Nat /\ y[1] \in Nat /\ y[2] \in Nat
    BY SliceBounds
  <2> DEFINE xl == A[Left(x)]
             xr == A[Right(x)]
             yl == B[Left(y)]
             yr == B[Right(y)]
  <2>2. x[2] > x[1] + 1
    <3> SUFFICES ASSUME x[2] = x[1] + 1 PROVE FALSE
      BY <1>1, <2>1
    <3> DEFINE e == a[x[2]]
    <3>1. A[x] = LeafHash(e)
      BY RootOne
    <3> HIDE DEF A, e
    <3> QED BY <1>1, <3>1, LeafNoNode
  <2>3. y[2] > y[1] + 1
    <3> SUFFICES ASSUME y[2] = y[1] + 1 PROVE FALSE
      BY <1>1, <2>1
    <3> DEFINE e == b[y[2]]
    <3>1. B[y] = LeafHash(e)
      BY RootOne
    <3> HIDE DEF B, e
    <3> QED BY <1>1, <3>1, LeafNoNode
  <2>4. NodeHash(p, first) = NodeHash(xl, xr) /\ NodeHash(p, second) = NodeHash(yl, yr)
    <3>1. A[x] = NodeHash(xl, xr)
      BY <2>2, RootTwo
    <3>2. B[y] = NodeHash(yl, yr)
      BY <2>3, RootTwo
    <3> QED BY <1>1, <3>1, <3>2
  <2>5. p = xl /\ p = yl /\ first = xr /\ second = yr
    <3> HIDE DEF xl, xr, yl, yr
    <3> QED BY <2>4, NodeBinds
  <2>6. /\ Left(x) \in Slices(a) /\ Right(x) \in Slices(a)
        /\ Left(x)[1] = x[1] /\ Left(x)[2] = Middle(x)
        /\ Right(x)[1] = Middle(x) /\ Right(x)[2] = x[2]
        /\ Middle(x) \in Nat /\ x[1] < Middle(x) /\ Middle(x) < x[2]
    BY <2>2, Parts
  <2>7. /\ Left(y) \in Slices(b) /\ Right(y) \in Slices(b)
        /\ Left(y)[1] = y[1] /\ Left(y)[2] = Middle(y)
        /\ Right(y)[1] = Middle(y) /\ Right(y)[2] = y[2]
        /\ Middle(y) \in Nat /\ y[1] < Middle(y) /\ Middle(y) < y[2]
    BY <2>3, Parts
  <2>8. SameLeaves(a, Left(x), b, Left(y))
    <3>1. SliceRoots(a)[Left(x)] = SliceRoots(b)[Left(y)]
      BY <2>5
    <3>2. Left(x)[1] < Left(x)[2] /\ Left(y)[1] < Left(y)[2]
      BY <2>6, <2>7
    <3> QED BY <2>6, <2>7, <3>1, <3>2, SameRoot
  <2>9. Opens(a, Right(x), b, Right(y))
    BY <2>5, <2>6, <2>7 DEF GrownOf
  <2> HIDE DEF A, B, xl, xr, yl, yr
  <2> DEFINE x1 == x[1]
             x2 == x[2]
             xm == Middle(x)
             y1 == y[1]
             y2 == y[2]
             ym == Middle(y)
  <2>10. /\ x1 \in Nat /\ x2 \in Nat /\ xm \in Nat /\ y1 \in Nat /\ y2 \in Nat /\ ym \in Nat
         /\ x1 < xm /\ xm < x2 /\ y1 < ym /\ ym < y2
    BY <2>1, <2>6, <2>7
  <2>11. xm - x1 = ym - y1 /\ \A i \in 1 .. xm - x1 : a[x1 + i] = b[y1 + i]
    BY <2>6, <2>7, <2>8 DEF SameLeaves, Size
  <2>12. x2 - xm <= y2 - ym /\ \A i \in 1 .. x2 - xm : a[xm + i] = b[ym + i]
    BY <2>6, <2>7, <2>9 DEF Opens, Size
  <2>13. Size(x) = x2 - x1 /\ Size(y) = y2 - y1
    BY DEF Size
  <2>14. Opens(a, x, b, y) <=> Size(x) <= Size(y) /\ \A i \in 1 .. Size(x) : a[x1 + i] = b[y1 + i]
    BY DEF Opens
  <2> HIDE DEF x1, x2, xm, y1, y2, ym
  <2>15. Size(x) <= Size(y)
    BY <2>10, <2>11, <2>12, <2>13
  <2>16. ASSUME NEW i \in 1 .. Size(x) PROVE a[x1 + i] = b[y1 + i]
    <3>0. i \in Int /\ 1 <= i /\ i <= x2 - x1
      BY <2>10, <2>13
    <3>1. CASE i <= xm - x1
      BY <2>10, <2>11, <3>0, <3>1
    <3>2. CASE i > xm - x1
      <4> DEFINE j == i - (xm - x1)
      <4>1. j \in 1 .. x2 - xm /\ xm + j = x1 + i /\ ym + j = y1 + i
        BY <2>10, <2>11, <3>0, <3>2
      <4>2. a[xm + j] = b[ym + j]
        BY <2>12, <4>1
      <4> QED BY <4>1, <4>2
    <3> QED BY <2>10, <3>0, <3>1, <3>2
  <2> QED BY <2>14, <2>15, <2>16
<1>2. ASSUME NEW x \in Slices(a), NEW y \in Slices(b), x[1] < x[2], y[1] < y[2],
             first = A[x], NodeHash(second, p) = B[y]
      PROVE  Opens(a, x, b, y)
  <2>1. x[1] \in Nat /\ x[2] \in Nat /\ y[1] \in Nat /\ y[2] \in Nat
    BY SliceBounds
  <2> DEFINE yl == B[Left(y)]
             yr == B[Right(y)]
  <2>2. y[2] > y[1] + 1
    <3> SUFFICES ASSUME y[2] = y[1] + 1 PROVE FALSE
      BY <1>2, <2>1
    <3> DEFINE e == b[y[2]]
    <3>1. B[y] = LeafHash(e)
      BY RootOne
    <3> HIDE DEF B, e
    <3> QED BY <1>2, <3>1, LeafNoNode
  <2>3. NodeHash(second, p) = NodeHash(yl, yr)
    <3>1. B[y] = NodeHash(yl, yr)
      BY <2>2, RootTwo
    <3> QED BY <1>2, <3>1
  <2>4. second = yl
    <3> HIDE DEF yl, yr
    <3> QED BY <2>3, NodeBinds
  <2>5. /\ Left(y) \in Slices(b) /\ Left(y)[1] = y[1] /\ Left(y)[2] = Middle(y)
        /\ Middle(y) \in Nat /\ y[1] < Middle(y) /\ Middle(y) < y[2]
    BY <2>2, Parts
  <2>6. Opens(a, x, b, Left(y))
    BY <1>2, <2>4, <2>5 DEF GrownOf
  <2> HIDE DEF A, B, yl, yr
  <2>7. x[2] - x[1] <= Middle(y) - y[1] /\ \A i \in 1 .. x[2] - x[1] : a[x[1] + i] = b[y[1] + i]
    BY <2>5, <2>6 DEF Opens, Size
  <2>8. x[2] - x[1] <= y[2] - y[1]
    BY <2>1, <2>5, <2>7
  <2> QED BY <2>7, <2>8 DEF Opens, Size
<1> QED BY <1>1, <1>2 DEF GrownOf

-----------------------------------------------------------------------------
(* The walk of the right size goes up the slices around one leaf. *)

\* The walk stands over leaf m; over a slice that ends at k, a left child.
Fits(w, n, q, m, k) ==
  /\ Stands(w, n, q)
  /\ LET s == Node(w, n, q) IN s[1] <= m /\ m < s[2] /\ (s[2] = k => ~FromLeft(w))

\* A path that lengthens around leaf m, but at the slices that end at k.
Lengthens(P, leaves, m, k) ==
  \A t \in Slices(leaves) : t[2] > t[1] + 1 /\ t[1] <= m /\ m < t[2] /\ t[2] # k =>
    P[t] = IF m < Middle(t) THEN Append(P[Left(t)], SliceRoots(leaves)[Right(t)])
                            ELSE Append(P[Right(t)], SliceRoots(leaves)[Left(t)])

LEMMA FitsIn ==
  ASSUME NEW leaves, Len(leaves) \in Nat, NEW w, NEW q, NEW m \in Nat, NEW k,
         Fits(w, Len(leaves), q, m, k)
  PROVE  LET s == Node(w, Len(leaves), q) IN
         /\ s \in Slices(leaves) /\ s[1] \in Nat /\ s[2] \in Nat /\ s[1] < s[2] /\ s[2] <= Len(leaves)
         /\ s[1] <= m /\ m < s[2] /\ (s[2] = k => ~FromLeft(w))
         /\ (w.sn = 0 <=> s = <<0, Len(leaves)>>)
<1> DEFINE n == Len(leaves)
           s == Node(w, n, q)
<1>1. Stands(w, n, q) /\ s[1] <= m /\ m < s[2] /\ (s[2] = k => ~FromLeft(w))
  BY DEF Fits
<1>2. /\ s[1] \in Nat /\ s[2] \in Nat /\ s[1] < s[2] /\ s[2] <= n /\ s = <<s[1], s[2]>>
      /\ s[1] = w.fn * q /\ s[2] - s[1] <= q /\ (s[2] # n => s[2] = s[1] + q)
      /\ (w.fn = w.sn => s[2] = n)
  BY <1>1, NodeIs
<1>3. w.fn \in Nat /\ w.sn \in Nat /\ q \in Nat \ {0} /\ w.fn <= w.sn
  BY <1>1, PowersHalve DEF Stands
<1> HIDE DEF s
<1>4. s \in Slices(leaves)
  <2>1. s[1] \in 0 .. Len(leaves) /\ s[2] \in 0 .. Len(leaves)
    BY <1>2
  <2> QED BY <1>2, <2>1, SliceIn
<1>5. ASSUME w.sn = 0 PROVE s = <<0, n>>
  <2>1. w.fn = 0 /\ w.fn = w.sn
    BY <1>3, <1>5
  <2>2. 0 * q = 0
    BY <1>3
  <2>3. s[1] = 0 /\ s[2] = n
    BY <1>2, <2>1, <2>2
  <2> QED BY <1>2, <2>3
<1>6. ASSUME w.sn # 0 PROVE s # <<0, n>>
  <2> SUFFICES ASSUME s = <<0, n>> PROVE FALSE
    OBVIOUS
  <2>1. s[1] = 0 /\ s[2] = n
    OBVIOUS
  <2>2. 1 * q <= w.sn * q /\ 1 * q = q
    BY <1>3, <1>6, Scaled
  <2>3. w.sn * q < n /\ w.sn * q \in Nat
    BY <1>1, <1>3, Scaled DEF Stands
  <2> DEFINE v == w.sn * q
  <2>4. q <= v /\ v < n /\ v \in Nat
    BY <2>2, <2>3
  <2> HIDE DEF v, n
  <2> QED BY <1>2, <1>3, <2>1, <2>4
<1> QED BY <1>1, <1>2, <1>4, <1>5, <1>6 DEF s

\* The walk x one hash after w stands at t, above s.
Climbed(P, leaves, m, k, w, p, x, s, r, t) ==
  /\ t = Node(x, Len(leaves), r) /\ Fits(x, Len(leaves), r, m, k)
  /\ s \in Slices(leaves) /\ Left(t) \in Slices(leaves) /\ Right(t) \in Slices(leaves)
  /\ t[1] \in Nat /\ t[2] \in Nat /\ t[2] > t[1] + 1 /\ t[2] # k
  /\ SliceRoots(leaves)[t] = NodeHash(SliceRoots(leaves)[Left(t)], SliceRoots(leaves)[Right(t)])
  /\ \/ RisesRight(w, x, p, s, t) /\ P[t] = Append(P[s], SliceRoots(leaves)[Left(t)])
     \/ RisesLeft(w, x, p, s, t) /\ P[t] = Append(P[s], SliceRoots(leaves)[Right(t)])

LEMMA FitsStep ==
  ASSUME NEW leaves, Len(leaves) \in Nat, NEW w, NEW p, NEW q, NEW m \in Nat, NEW k \in Nat,
         Fits(w, Len(leaves), q, m, k), w.sn # 0, m + 1 = k \/ k = 0,
         NEW P, Lengthens(P, leaves, m, k), NEW x, x = FoldStep(w, p)
  PROVE  \E r \in Powers : \E t \in Slices(leaves) :
           Climbed(P, leaves, m, k, w, p, x, Node(w, Len(leaves), q), r, t)
<1> DEFINE n == Len(leaves)
           s == Node(w, n, q)
           R == SliceRoots(leaves)
<1>1. Stands(w, n, q)
  BY DEF Fits
<1>2. PICK r \in Powers :
        /\ Stands(x, n, r)
        /\ RisesRight(w, x, p, s, Node(x, n, r)) \/ RisesLeft(w, x, p, s, Node(x, n, r))
  BY <1>1, StepUp
<1> DEFINE t == Node(x, n, r)
<1>3. /\ s \in Slices(leaves) /\ s[1] \in Nat /\ s[2] \in Nat /\ s[1] < s[2] /\ s[2] <= n
      /\ s[1] <= m /\ m < s[2] /\ (s[2] = k => ~FromLeft(w))
  BY FitsIn
<1>4. t[1] \in Nat /\ t[2] \in Nat /\ t[1] < t[2] /\ t[2] <= n /\ t = <<t[1], t[2]>>
  BY <1>2, NodeIs
<1>5. t \in Slices(leaves)
  <2>1. t[1] \in 0 .. Len(leaves) /\ t[2] \in 0 .. Len(leaves)
    BY <1>4
  <2> HIDE DEF t
  <2> QED BY <1>4, <2>1, SliceIn
<1>6. RisesRight(w, x, p, s, t) \/ RisesLeft(w, x, p, s, t)
  BY <1>2
<1>7. Stands(x, n, r)
  BY <1>2
<1>8. Fits(x, n, r, m, k) <=> (Stands(x, n, r) /\ t[1] <= m /\ m < t[2] /\ (t[2] = k => ~FromLeft(x)))
  BY DEF Fits
<1> HIDE DEF s, t, n
<1>9. t[2] # k /\ t[1] <= m /\ m < t[2] /\ t[2] > t[1] + 1
  BY <1>3, <1>4, <1>6 DEF RisesRight, RisesLeft
<1>10. Left(t) \in Slices(leaves) /\ Right(t) \in Slices(leaves)
  BY <1>5, <1>9, Parts
<1>11. R[t] = NodeHash(R[Left(t)], R[Right(t)])
  BY <1>5, <1>9, RootTwo
<1>12. P[t] = IF m < Middle(t) THEN Append(P[Left(t)], R[Right(t)])
                               ELSE Append(P[Right(t)], R[Left(t)])
  BY <1>5, <1>9 DEF Lengthens
<1> HIDE DEF R
<1>13. RisesRight(w, x, p, s, t) => P[t] = Append(P[s], R[Left(t)])
  BY <1>3, <1>12 DEF RisesRight
<1>14. RisesLeft(w, x, p, s, t) => P[t] = Append(P[s], R[Right(t)])
  BY <1>3, <1>12 DEF RisesLeft
<1>15. \/ RisesRight(w, x, p, s, t) /\ P[t] = Append(P[s], R[Left(t)])
       \/ RisesLeft(w, x, p, s, t) /\ P[t] = Append(P[s], R[Right(t)])
  BY <1>6, <1>13, <1>14
<1>16. Fits(x, n, r, m, k)
  BY <1>7, <1>8, <1>9
<1>17. t = Node(x, n, r)
  BY DEF t
<1>18. Climbed(P, leaves, m, k, w, p, x, s, r, t)
  BY <1>3, <1>4, <1>9, <1>10, <1>11, <1>15, <1>16, <1>17 DEF Climbed, n, R
<1> QED BY <1>5, <1>18 DEF s, n

\* The hashes of a log's tree, and the paths made of them.
Hashes(leaves) == {SliceRoots(leaves)[x] : x \in Slices(leaves)}
Made(P, leaves) ==
  \A s \in Slices(leaves) :
    \/ P[s] = << >> \/ P[s] = <<SliceRoots(leaves)[s]>>
    \/ s[2] > s[1] + 1 /\ P[s] = Append(P[Left(s)], SliceRoots(leaves)[Right(s)])
    \/ s[2] > s[1] + 1 /\ P[s] = Append(P[Right(s)], SliceRoots(leaves)[Left(s)])

LEMMA PathsTyped ==
  ASSUME NEW leaves, Len(leaves) \in Nat, NEW P, Made(P, leaves), NEW s \in Slices(leaves)
  PROVE  P[s] \in Seq(Hashes(leaves))
<1> DEFINE H == Hashes(leaves)
           R == SliceRoots(leaves)
           S == {d \in Nat : \A x \in Slices(leaves) : Size(x) <= d => P[x] \in Seq(H)}
<1>0. \A x \in Slices(leaves) : R[x] \in H
  BY DEF Hashes
<1>1. ASSUME NEW x \in Slices(leaves)
      PROVE  \/ P[x] = << >> \/ P[x] = <<R[x]>>
             \/ x[2] > x[1] + 1 /\ P[x] = Append(P[Left(x)], R[Right(x)])
             \/ x[2] > x[1] + 1 /\ P[x] = Append(P[Right(x)], R[Left(x)])
  BY DEF Made
<1> HIDE DEF H, R
<1>2. ASSUME NEW x \in Slices(leaves), P[x] = << >> \/ P[x] = <<R[x]>> PROVE P[x] \in Seq(H)
  <2>1. R[x] \in H
    BY <1>0
  <2>2. << >> \in Seq(H) /\ \A e \in H : <<e>> \in Seq(H)
    OBVIOUS
  <2> QED BY <1>2, <2>1, <2>2
<1>3. 0 \in S
  <2> SUFFICES ASSUME NEW x \in Slices(leaves), Size(x) <= 0 PROVE P[x] \in Seq(H)
    OBVIOUS
  <2>1. x[1] \in Nat /\ x[2] \in Nat
    BY SliceBounds
  <2>2. ~(x[2] > x[1] + 1)
    BY <2>1 DEF Size
  <2> QED BY <1>1, <1>2, <2>2
<1>4. ASSUME NEW d \in Nat, d \in S PROVE d + 1 \in S
  <2> SUFFICES ASSUME NEW x \in Slices(leaves), Size(x) <= d + 1 PROVE P[x] \in Seq(H)
    OBVIOUS
  <2>1. CASE P[x] = << >> \/ P[x] = <<R[x]>>
    BY <1>2, <2>1
  <2>2. CASE x[2] > x[1] + 1
    <3>1. /\ Left(x) \in Slices(leaves) /\ Right(x) \in Slices(leaves)
          /\ Size(Left(x)) <= d /\ Size(Right(x)) <= d
      BY <2>2, Smaller
    <3> DEFINE a == P[Left(x)]
               b == P[Right(x)]
               e == R[Left(x)]
               g == R[Right(x)]
    <3>2. a \in Seq(H) /\ b \in Seq(H) /\ e \in H /\ g \in H
      BY <1>0, <1>4, <3>1
    <3>3. P[x] = << >> \/ P[x] = <<R[x]>> \/ P[x] = Append(a, g) \/ P[x] = Append(b, e)
      BY <1>1
    <3> HIDE DEF a, b, e, g
    <3>4. Append(a, g) \in Seq(H) /\ Append(b, e) \in Seq(H)
      BY <3>2, AppendProperties
    <3> QED BY <1>2, <3>3, <3>4
  <2> QED BY <1>1, <2>1, <2>2
<1>5. Size(s) <= Len(leaves)
  <2>1. s[1] \in Nat /\ s[2] \in Nat /\ s[2] <= Len(leaves)
    BY SliceBounds
  <2> QED BY <2>1 DEF Size
<1>6. Len(leaves) \in S
  <2> HIDE DEF S
  <2> QED BY <1>3, <1>4, Upwards
<1>7. P[s] \in Seq(H)
  BY <1>5, <1>6
<1> QED BY <1>7 DEF H

\* Sequences that were lengthened by one are equal piece by piece.
LEMMA AppendBinds ==
  ASSUME NEW U, NEW a \in Seq(U), NEW b \in Seq(U), NEW c \in U, NEW d \in U
  PROVE  Append(a, c) = Append(b, d) => a = b /\ c = d
<1> SUFFICES ASSUME Append(a, c) = Append(b, d) PROVE a = b /\ c = d
  OBVIOUS
<1> DEFINE k == Len(a)
           l == Len(b)
<1>1. k \in Nat /\ l \in Nat /\ a = [i \in 1 .. k |-> a[i]] /\ b = [i \in 1 .. l |-> b[i]]
  BY LenProperties
<1>2. Len(Append(a, c)) = k + 1 /\ Len(Append(b, d)) = l + 1
  BY AppendProperties
<1>3. k = l
  <2>1. k + 1 = l + 1
    BY <1>2
  <2> HIDE DEF k, l
  <2> QED BY <1>1, <2>1
<1>4. Append(a, c)[k + 1] = c /\ Append(b, d)[l + 1] = d
  BY AppendProperties
<1>5. \A i \in 1 .. k : Append(a, c)[i] = a[i] /\ Append(b, d)[i] = b[i]
  BY <1>1, <1>3, AppendProperties
<1>6. c = d /\ \A i \in 1 .. k : a[i] = b[i]
  BY <1>3, <1>4, <1>5
<1> HIDE DEF k, l
<1> QED BY <1>1, <1>3, <1>6

LEMMA PathsOfInclusion ==
  ASSUME NEW leaves, Len(leaves) \in Nat, NEW m \in Nat
  PROVE  LET P == InclusionPaths(m, leaves) IN Made(P, leaves) /\ Lengthens(P, leaves, m, 0)
<1> DEFINE P == InclusionPaths(m, leaves)
           R == SliceRoots(leaves)
<1>1. ASSUME NEW s \in Slices(leaves)
      PROVE  P[s] = IF s[2] <= s[1] + 1 THEN << >>
                    ELSE IF m < Middle(s) THEN Append(P[Left(s)], R[Right(s)])
                                          ELSE Append(P[Right(s)], R[Left(s)])
  BY InclusionPathsAre
<1>2. \A s \in Slices(leaves) : s[1] \in Nat /\ s[2] \in Nat
  BY SliceBounds
<1>3. \A s \in Slices(leaves) : ~(s[2] <= s[1] + 1) <=> s[2] > s[1] + 1
  <2> TAKE s \in Slices(leaves)
  <2> QED BY <1>2
<1>4. Made(P, leaves)
  <2> HIDE DEF P
  <2> QED BY <1>1, <1>3 DEF Made
<1>5. Lengthens(P, leaves, m, 0)
  <2> HIDE DEF P
  <2> QED BY <1>1, <1>3 DEF Lengthens
<1> QED BY <1>4, <1>5

LEMMA PathsOfGrowth ==
  ASSUME NEW leaves, Len(leaves) \in Nat, NEW f \in Nat, 0 < f
  PROVE  LET P == SubProofs(f, leaves) IN Made(P, leaves) /\ Lengthens(P, leaves, f - 1, f)
<1> DEFINE P == SubProofs(f, leaves)
           R == SliceRoots(leaves)
<1>1. ASSUME NEW s \in Slices(leaves)
      PROVE  P[s] = IF f = s[2] \/ s[2] <= s[1] + 1 THEN IF s[1] = 0 THEN << >> ELSE <<R[s]>>
                    ELSE IF f <= Middle(s) THEN Append(P[Left(s)], R[Right(s)])
                                           ELSE Append(P[Right(s)], R[Left(s)])
  BY SubProofsAre
<1>2. \A s \in Slices(leaves) : s[1] \in Nat /\ s[2] \in Nat
  BY SliceBounds
<1>3. \A s \in Slices(leaves) : ~(s[2] <= s[1] + 1) <=> s[2] > s[1] + 1
  <2> TAKE s \in Slices(leaves)
  <2> QED BY <1>2
<1>4. Made(P, leaves)
  <2> HIDE DEF P
  <2> QED BY <1>1, <1>3 DEF Made
<1>5. ASSUME NEW t \in Slices(leaves), t[2] > t[1] + 1, t[2] # f
      PROVE  P[t] = IF f - 1 < Middle(t) THEN Append(P[Left(t)], R[Right(t)])
                                         ELSE Append(P[Right(t)], R[Left(t)])
  <2>1. Middle(t) \in Nat
    BY <1>5, Parts
  <2>2. f <= Middle(t) <=> f - 1 < Middle(t)
    BY <2>1
  <2> HIDE DEF P
  <2> QED BY <1>1, <1>3, <1>5, <2>2
<1>6. Lengthens(P, leaves, f - 1, f)
  <2> HIDE DEF P
  <2> QED BY <1>5 DEF Lengthens
<1> QED BY <1>4, <1>6

\* Below the root a walk has folded a part of the path, and not all of it.
Starts(a, b) == Len(a) <= Len(b) /\ \A i \in 1 .. Len(a) : b[i] = a[i]

LEMMA AppendStarts ==
  ASSUME NEW U, NEW a \in Seq(U), NEW b \in Seq(U), NEW c \in U, Starts(Append(a, c), b)
  PROVE  Starts(a, b) /\ Len(a) < Len(b) /\ b[Len(a) + 1] = c
<1> DEFINE k == Len(a)
           l == Len(b)
<1>1. k \in Nat /\ l \in Nat
  OBVIOUS
<1>2. Len(Append(a, c)) = k + 1 /\ Append(a, c)[k + 1] = c /\ \A i \in 1 .. k : Append(a, c)[i] = a[i]
  BY AppendProperties
<1>3. k + 1 <= l /\ \A i \in 1 .. k + 1 : b[i] = Append(a, c)[i]
  BY <1>2 DEF Starts
<1>4. k <= l /\ k < l /\ k + 1 \in 1 .. k + 1 /\ \A i \in 1 .. k : i \in 1 .. k + 1
  <2> HIDE DEF k, l
  <2> QED BY <1>1, <1>3
<1>5. b[k + 1] = c /\ \A i \in 1 .. k : b[i] = a[i]
  BY <1>2, <1>3, <1>4
<1> QED BY <1>4, <1>5 DEF Starts

LEMMA PathsReach ==
  ASSUME NEW leaves, Len(leaves) \in Nat, NEW m \in Nat, NEW k \in Nat, m + 1 = k \/ k = 0,
         NEW P, Made(P, leaves), Lengthens(P, leaves, m, k),
         NEW w, NEW q, Fits(w, Len(leaves), q, m, k)
  PROVE  LET a == P[Node(w, Len(leaves), q)]
             b == P[<<0, Len(leaves)>>]
         IN  Starts(a, b) /\ (w.sn # 0 => Len(a) < Len(b))
<1> DEFINE n == Len(leaves)
           b == P[<<0, n>>]
           R == SliceRoots(leaves)
           H == Hashes(leaves)
           Reaches(v, c) == Starts(P[Node(v, n, c)], b)
           S == {d \in Nat : \A v : \A c \in Powers :
                   Fits(v, n, c, m, k) /\ n - Size(Node(v, n, c)) <= d => Reaches(v, c)}
<1>1. <<0, n>> \in Slices(leaves) /\ b \in Seq(H)
  <2>1. 0 \in 0 .. n /\ n \in 0 .. n
    OBVIOUS
  <2>2. <<0, n>> \in Slices(leaves)
    BY <2>1, SliceIn
  <2> QED BY <2>2, PathsTyped
<1>2. ASSUME NEW v, NEW c \in Powers, Fits(v, n, c, m, k), v.sn = 0 PROVE Reaches(v, c)
  <2>1. Node(v, n, c) = <<0, n>>
    BY <1>2, FitsIn
  <2>2. Len(b) \in Nat
    BY <1>1
  <2> HIDE DEF b
  <2>3. P[Node(v, n, c)] = b
    BY <2>1 DEF b
  <2> QED BY <2>2, <2>3 DEF Starts
<1>3. ASSUME NEW v, NEW c \in Powers, Fits(v, n, c, m, k), v.sn # 0
      PROVE  \E x : \E r \in Powers :
               /\ Fits(x, n, r, m, k)
               /\ Size(Node(v, n, c)) + 1 <= Size(Node(x, n, r))
               /\ Reaches(x, r) => Reaches(v, c) /\ Len(P[Node(v, n, c)]) < Len(b)
  <2> DEFINE x == FoldStep(v, EmptyRoot)
             s == Node(v, n, c)
  <2>1. PICK r \in Powers : \E t \in Slices(leaves) :
          Climbed(P, leaves, m, k, v, EmptyRoot, x, s, r, t)
    <3>1. x = FoldStep(v, EmptyRoot)
      OBVIOUS
    <3> HIDE DEF x
    <3> QED BY <1>3, <3>1, FitsStep
  <2>11. PICK t \in Slices(leaves) : Climbed(P, leaves, m, k, v, EmptyRoot, x, s, r, t)
    BY <2>1
  <2> HIDE DEF x
  <2>2. /\ t = Node(x, n, r) /\ Fits(x, n, r, m, k)
        /\ s \in Slices(leaves) /\ Left(t) \in Slices(leaves) /\ Right(t) \in Slices(leaves)
        /\ t[1] \in Nat /\ t[2] \in Nat
        /\ \/ RisesRight(v, x, EmptyRoot, s, t) /\ P[t] = Append(P[s], R[Left(t)])
           \/ RisesLeft(v, x, EmptyRoot, s, t) /\ P[t] = Append(P[s], R[Right(t)])
    <3> HIDE DEF s
    <3> QED BY <2>11 DEF Climbed
  <2>3. s[1] \in Nat /\ s[2] \in Nat
    BY <2>2, SliceBounds
  <2> DEFINE a == P[s]
  <2>4. a \in Seq(H) /\ \E h \in H : P[t] = Append(a, h)
    <3>1. R[Left(t)] \in H /\ R[Right(t)] \in H
      BY <2>2 DEF Hashes
    <3>2. P[t] = Append(a, R[Left(t)]) \/ P[t] = Append(a, R[Right(t)])
      BY <2>2
    <3>3. a \in Seq(H)
      BY <2>2, PathsTyped
    <3> HIDE DEF a, R, H
    <3> QED BY <3>1, <3>2, <3>3
  <2>5. PICK h \in H : P[t] = Append(a, h)
    BY <2>4
  <2>6. Starts(P[t], b) => Starts(a, b) /\ Len(a) < Len(b)
    <3> HIDE DEF a, b, H
    <3> QED BY <1>1, <2>4, <2>5, AppendStarts
  <2>7. Size(s) + 1 <= Size(t)
    <3> HIDE DEF s
    <3>1. (t[1] < s[1] /\ t[2] = s[2]) \/ (t[1] = s[1] /\ s[2] < t[2])
      BY <2>2 DEF RisesRight, RisesLeft
    <3> QED BY <2>2, <2>3, <3>1 DEF Size
  <2> HIDE DEF b
  <2> QED BY <2>2, <2>6, <2>7
<1>4. ASSUME NEW v, NEW c \in Powers, Fits(v, n, c, m, k)
      PROVE  n - Size(Node(v, n, c)) \in Nat /\ Size(Node(v, n, c)) \in Int
  <2> DEFINE s == Node(v, n, c)
  <2>1. s[1] \in Nat /\ s[2] \in Nat /\ s[1] < s[2] /\ s[2] <= n
    BY <1>4, FitsIn
  <2> HIDE DEF s, n
  <2>2. n \in Nat
    BY DEF n
  <2>3. n - Size(s) \in Nat /\ Size(s) \in Int
    BY <2>1, <2>2 DEF Size
  <2> QED BY <2>3 DEF s
<1> HIDE DEF Reaches, n, b
<1>5. n \in Nat
  BY DEF n
<1>6. 0 \in S
  <2> SUFFICES ASSUME NEW v, NEW c \in Powers, Fits(v, n, c, m, k), n - Size(Node(v, n, c)) <= 0
               PROVE  Reaches(v, c)
    OBVIOUS
  <2>1. CASE v.sn = 0
    BY <1>2, <2>1
  <2>2. CASE v.sn # 0
    <3>1. PICK x : \E r \in Powers :
            Fits(x, n, r, m, k) /\ Size(Node(v, n, c)) + 1 <= Size(Node(x, n, r))
      BY <1>3, <2>2
    <3>2. PICK r \in Powers :
            Fits(x, n, r, m, k) /\ Size(Node(v, n, c)) + 1 <= Size(Node(x, n, r))
      BY <3>1
    <3> DEFINE y == Size(Node(v, n, c))
               z == Size(Node(x, n, r))
    <3>3. n - y \in Nat /\ y \in Int /\ n - z \in Nat /\ z \in Int /\ n - y <= 0 /\ y + 1 <= z
      BY <1>4, <3>2
    <3> HIDE DEF y, z
    <3> QED BY <1>5, <3>3
  <2> QED BY <2>1, <2>2
<1>7. ASSUME NEW d \in Nat, d \in S PROVE d + 1 \in S
  <2> SUFFICES ASSUME NEW v, NEW c \in Powers, Fits(v, n, c, m, k), n - Size(Node(v, n, c)) <= d + 1
               PROVE  Reaches(v, c)
    OBVIOUS
  <2>1. CASE v.sn = 0
    BY <1>2, <2>1
  <2>2. CASE v.sn # 0
    <3>1. PICK x : \E r \in Powers :
            /\ Fits(x, n, r, m, k) /\ Size(Node(v, n, c)) + 1 <= Size(Node(x, n, r))
            /\ Reaches(x, r) => Reaches(v, c)
      BY <1>3, <2>2
    <3>2. PICK r \in Powers :
            /\ Fits(x, n, r, m, k) /\ Size(Node(v, n, c)) + 1 <= Size(Node(x, n, r))
            /\ Reaches(x, r) => Reaches(v, c)
      BY <3>1
    <3> DEFINE y == Size(Node(v, n, c))
               z == Size(Node(x, n, r))
    <3>3. y \in Int /\ z \in Int /\ n - y <= d + 1 /\ y + 1 <= z
      BY <1>4, <3>2
    <3>4. n - z <= d
      <4> HIDE DEF y, z
      <4> QED BY <1>5, <3>3
    <3> QED BY <1>7, <3>2, <3>4
  <2> QED BY <2>1, <2>2
<1>8. q \in Powers /\ Fits(w, n, q, m, k)
  BY DEF Fits, Stands, n
<1>9. ASSUME NEW v, NEW c \in Powers, Fits(v, n, c, m, k) PROVE Reaches(v, c)
  <2> DEFINE d == n - Size(Node(v, n, c))
  <2>1. d \in Nat
    BY <1>4, <1>9
  <2>2. d \in S
    <3> HIDE DEF S, d
    <3> QED BY <1>6, <1>7, <2>1, Upwards
  <2> HIDE DEF d
  <2>3. d <= d /\ d = n - Size(Node(v, n, c))
    BY <2>1 DEF d
  <2> QED BY <1>9, <2>2, <2>3
<1>10. w.sn # 0 => Len(P[Node(w, n, q)]) < Len(b)
  BY <1>3, <1>8, <1>9
<1> QED BY <1>8, <1>9, <1>10 DEF Reaches, n, b

-----------------------------------------------------------------------------
(* An inclusion fold of the right size. *)

\* The walk has come to the root of its node by the path and the leaf there, or
\* to no root of the log's.
Audited(leaves, m, data, w, path) ==
  \E q \in Powers :
    /\ Fits(w, Len(leaves), q, m, 0)
    /\ LET s == Node(w, Len(leaves), q)
           P == InclusionPaths(m, leaves)
       IN  /\ Len(path) = Len(P[s])
           /\ w.second = SliceRoots(leaves)[s] => path = P[s] /\ data = leaves[m + 1]
           /\ path = P[s] /\ data = leaves[m + 1] => w.second = SliceRoots(leaves)[s]

LEMMA AuditStart ==
  ASSUME NEW leaves, Len(leaves) \in Nat, NEW m \in Nat, m < Len(leaves), NEW data
  PROVE  Audited(leaves, m, data, InclusionWalk(data, m, Len(leaves)), << >>)
<1> DEFINE n == Len(leaves)
           w == InclusionWalk(data, m, n)
           s == Node(w, n, 1)
           P == InclusionPaths(m, leaves)
           R == SliceRoots(leaves)
           e == leaves[m + 1]
<1>1. w.fn = m /\ w.sn = n - 1 /\ w.second = LeafHash(data)
  BY DEF InclusionWalk, WalkFrom
<1>2. Stands(w, n, 1) /\ 1 \in Powers
  BY <1>1, PowersDouble DEF Stands
<1>3. s = <<m, m + 1>>
  BY <1>1 DEF Node
<1>4. s[1] = m /\ s[2] = m + 1 /\ s \in Slices(leaves)
  <2>1. m \in 0 .. n /\ m + 1 \in 0 .. n
    OBVIOUS
  <2> HIDE DEF s
  <2> QED BY <1>3, <2>1, SliceIn
<1>5. Fits(w, n, 1, m, 0)
  <2> HIDE DEF w
  <2> QED BY <1>2, <1>4 DEF Fits
<1> HIDE DEF s
<1>6. P[s] = << >>
  <2>1. s[2] <= s[1] + 1
    BY <1>4
  <2> QED BY <1>4, <2>1, InclusionPathsAre
<1>7. R[s] = LeafHash(e)
  BY <1>4, RootOne
<1> HIDE DEF P, R, e
<1>8. w.second = R[s] => data = e
  BY <1>1, <1>7, LeafBinds
<1>9. data = e => w.second = R[s]
  BY <1>1, <1>7
<1> HIDE DEF w
<1> QED BY <1>2, <1>5, <1>6, <1>8, <1>9 DEF Audited, P, R, s, e, w

LEMMA AuditStep ==
  ASSUME NEW leaves, Len(leaves) \in Nat, NEW m \in Nat, NEW data, NEW w, w.sn # 0,
         NEW U, Hashes(leaves) \subseteq U, NEW path \in Seq(U), NEW p \in U,
         Audited(leaves, m, data, w, path), NEW x, x = FoldStep(w, p)
  PROVE  Audited(leaves, m, data, x, Append(path, p))
<1> DEFINE n == Len(leaves)
           P == InclusionPaths(m, leaves)
           R == SliceRoots(leaves)
           e == leaves[m + 1]
<1>1. PICK q \in Powers :
        /\ Fits(w, n, q, m, 0)
        /\ LET s == Node(w, n, q)
           IN  /\ Len(path) = Len(P[s])
               /\ w.second = R[s] => path = P[s] /\ data = e
               /\ path = P[s] /\ data = e => w.second = R[s]
  BY DEF Audited
<1> DEFINE s == Node(w, n, q)
<1>2. Made(P, leaves) /\ Lengthens(P, leaves, m, 0)
  BY PathsOfInclusion
<1>3. PICK r \in Powers : \E t \in Slices(leaves) : Climbed(P, leaves, m, 0, w, p, x, s, r, t)
  <2> HIDE DEF P
  <2> QED BY <1>1, <1>2, FitsStep
<1>4. PICK t \in Slices(leaves) : Climbed(P, leaves, m, 0, w, p, x, s, r, t)
  BY <1>3
<1>5. /\ Len(path) = Len(P[s])
      /\ w.second = R[s] => path = P[s] /\ data = e
      /\ path = P[s] /\ data = e => w.second = R[s]
  BY <1>1
<1> HIDE DEF s, P
<1>6. /\ t = Node(x, n, r) /\ Fits(x, n, r, m, 0)
      /\ s \in Slices(leaves) /\ Left(t) \in Slices(leaves) /\ Right(t) \in Slices(leaves)
      /\ R[t] = NodeHash(R[Left(t)], R[Right(t)])
      /\ \/ RisesRight(w, x, p, s, t) /\ P[t] = Append(P[s], R[Left(t)])
         \/ RisesLeft(w, x, p, s, t) /\ P[t] = Append(P[s], R[Right(t)])
  BY <1>4 DEF Climbed
<1>7. P[s] \in Seq(U) /\ R[Left(t)] \in U /\ R[Right(t)] \in U
  <2>1. P[s] \in Seq(Hashes(leaves))
    BY <1>2, <1>6, PathsTyped
  <2>2. R[Left(t)] \in U /\ R[Right(t)] \in U
    BY <1>6 DEF Hashes
  <2> DEFINE H == Hashes(leaves)
             a == P[s]
  <2> HIDE DEF H, a
  <2>3. a \in Seq(H) /\ H \subseteq U
    BY <2>1 DEF H, a
  <2>4. a \in Seq(U)
    BY <2>3
  <2> QED BY <2>2, <2>4 DEF a
<1> DEFINE a == P[s]
           b == P[t]
           l == R[Left(t)]
           g == R[Right(t)]
           rs == R[s]
           rt == R[t]
<1>8. \/ /\ g = rs /\ x.second = NodeHash(p, w.second) /\ b = Append(a, l)
      \/ /\ l = rs /\ x.second = NodeHash(w.second, p) /\ b = Append(a, g)
  BY <1>6 DEF RisesRight, RisesLeft
<1>9. a \in Seq(U) /\ l \in U /\ g \in U /\ rt = NodeHash(l, g) /\ Len(path) = Len(a)
  BY <1>5, <1>6, <1>7
<1>10. /\ w.second = rs => path = a /\ data = e
       /\ path = a /\ data = e => w.second = rs
  BY <1>5
<1> HIDE DEF a, b, l, g, rs, rt, R, e
<1>11. Len(Append(path, p)) = Len(b)
  <2>1. Len(Append(path, p)) = Len(path) + 1 /\ Len(Append(a, l)) = Len(a) + 1
        /\ Len(Append(a, g)) = Len(a) + 1
    BY <1>9, AppendProperties
  <2> QED BY <1>8, <1>9, <2>1
<1>12. ASSUME x.second = rt PROVE Append(path, p) = b /\ data = e
  BY <1>8, <1>9, <1>10, <1>12, NodeBinds
<1>13. ASSUME Append(path, p) = b, data = e PROVE x.second = rt
  <2>1. CASE g = rs /\ x.second = NodeHash(p, w.second) /\ b = Append(a, l)
    <3>1. path = a /\ p = l
      BY <1>9, <1>13, <2>1, AppendBinds
    <3> QED BY <1>9, <1>10, <1>13, <2>1, <3>1
  <2>2. CASE l = rs /\ x.second = NodeHash(w.second, p) /\ b = Append(a, g)
    <3>1. path = a /\ p = g
      BY <1>9, <1>13, <2>2, AppendBinds
    <3> QED BY <1>9, <1>10, <1>13, <2>2, <3>1
  <2> QED BY <1>8, <2>1, <2>2
<1> QED BY <1>6, <1>11, <1>12, <1>13 DEF Audited, b, rt, R, e, P

LEMMA AuditEnd ==
  ASSUME NEW leaves, Len(leaves) \in Nat, NEW m \in Nat, NEW data, NEW w, NEW path,
         Audited(leaves, m, data, w, path)
  PROVE  LET proof == InclusionProof(m, leaves) IN
         /\ m < Len(leaves) /\ proof \in Seq(Hashes(leaves))
         /\ w.sn # 0 => Len(path) < Len(proof)
         /\ w.sn = 0 => Len(path) = Len(proof)
         /\ w.sn = 0 /\ w.second = Root(leaves) => path = proof /\ data = leaves[m + 1]
         /\ w.sn = 0 /\ path = proof /\ data = leaves[m + 1] => w.second = Root(leaves)
<1> DEFINE n == Len(leaves)
           P == InclusionPaths(m, leaves)
           R == SliceRoots(leaves)
           e == leaves[m + 1]
<1>1. PICK q \in Powers :
        /\ Fits(w, n, q, m, 0)
        /\ LET s == Node(w, n, q)
           IN  /\ Len(path) = Len(P[s])
               /\ w.second = R[s] => path = P[s] /\ data = e
               /\ path = P[s] /\ data = e => w.second = R[s]
  BY DEF Audited
<1> DEFINE s == Node(w, n, q)
           top == <<0, n>>
<1>2. Made(P, leaves) /\ Lengthens(P, leaves, m, 0)
  BY PathsOfInclusion
<1>3. s[1] <= m /\ m < s[2] /\ s[2] <= n /\ s[1] \in Nat /\ s[2] \in Nat /\ (w.sn = 0 <=> s = top)
  BY <1>1, FitsIn
<1>4. Starts(P[s], P[top]) /\ (w.sn # 0 => Len(P[s]) < Len(P[top]))
  <2> HIDE DEF P
  <2> QED BY <1>1, <1>2, PathsReach
<1>5. InclusionProof(m, leaves) = P[top] /\ Root(leaves) = R[top]
  BY DEF InclusionProof, Root
<1>6. P[top] \in Seq(Hashes(leaves))
  <2>1. 0 \in 0 .. n /\ n \in 0 .. n
    OBVIOUS
  <2>2. top \in Slices(leaves)
    BY <2>1, SliceIn
  <2> HIDE DEF P, top
  <2> QED BY <1>2, <2>2, PathsTyped
<1>7. m < n
  <2> HIDE DEF s, n
  <2>1. n \in Nat
    BY DEF n
  <2> QED BY <1>3, <2>1
<1> HIDE DEF P, R, s, top, e
<1> QED BY <1>1, <1>3, <1>4, <1>5, <1>6, <1>7 DEF Starts, s, e

-----------------------------------------------------------------------------
(* A consistency fold of the right size. *)

\* One log opens the other when their roots agree that far, and only then.
LEMMA RootsOfPrefix ==
  ASSUME NEW a, NEW b, Len(a) \in Nat, Len(b) \in Nat, 0 < Len(a), Len(a) <= Len(b)
  PROVE  /\ <<0, Len(a)>> \in Slices(b)
         /\ Root(a) = SliceRoots(b)[<<0, Len(a)>>] <=> \A i \in 1 .. Len(a) : a[i] = b[i]
<1> DEFINE f == Len(a)
           s == <<0, f>>
<1>1. s \in Slices(a) /\ s \in Slices(b) /\ s[1] = 0 /\ s[2] = f
  <2>1. 0 \in 0 .. Len(a) /\ f \in 0 .. Len(a) /\ 0 \in 0 .. Len(b) /\ f \in 0 .. Len(b)
    OBVIOUS
  <2> QED BY <2>1, SliceIn
<1>2. Root(a) = SliceRoots(a)[s]
  BY DEF Root
<1>3. SameLeaves(a, s, b, s) <=> \A i \in 1 .. f : a[i] = b[i]
  <2>1. f - 0 = f /\ \A i \in 1 .. f : 0 + i = i
    OBVIOUS
  <2> HIDE DEF s, f
  <2> QED BY <1>1, <2>1 DEF SameLeaves, Size
<1> HIDE DEF s
<1>4. ASSUME SliceRoots(a)[s] = SliceRoots(b)[s] PROVE SameLeaves(a, s, b, s)
  BY <1>1, <1>4, SameRoot
<1>5. ASSUME SameLeaves(a, s, b, s) PROVE SliceRoots(a)[s] = SliceRoots(b)[s]
  BY <1>1, <1>5, SameHash
<1> QED BY <1>1, <1>2, <1>3, <1>4, <1>5 DEF s

\* The root of a slice cut short in its right part.
LEMMA CutShort ==
  ASSUME NEW leaves, Len(leaves) \in Nat, NEW t \in Slices(leaves), t[2] > t[1] + 1,
         NEW f \in Nat, Middle(t) < f, f <= t[2]
  PROVE  /\ <<t[1], f>> \in Slices(leaves) /\ <<Middle(t), f>> \in Slices(leaves)
         /\ SliceRoots(leaves)[<<t[1], f>>]
              = NodeHash(SliceRoots(leaves)[Left(t)], SliceRoots(leaves)[<<Middle(t), f>>])
<1> DEFINE a == t[1]
           c == Middle(t)
           q == c - a
           u == <<a, f>>
           d == t[2]
<1>1. /\ a \in Nat /\ t[2] \in Nat /\ t[2] <= Len(leaves)
      /\ c \in Nat /\ a < c /\ c < t[2] /\ q \in Powers /\ t[2] - a <= 2 * q
  BY SliceBounds, Parts
<1>2. Left(t) = <<a, c>>
  BY DEF Left
<1>10. c < f /\ f <= d /\ d - a <= 2 * q /\ d \in Nat /\ q = c - a
  BY <1>1
<1> HIDE DEF a, c, d
<1>3. a + q = c /\ a + q < f /\ f <= a + 2 * q /\ f > a + 1 /\ q \in Nat
  <2> HIDE DEF q
  <2> QED BY <1>1, <1>10
<1> HIDE DEF q
<1>4. Middle(u) = c /\ Left(u) = <<a, c>> /\ Right(u) = <<c, f>>
  BY <1>1, <1>3, DividesAt
<1>5. u \in Slices(leaves) /\ u[1] = a /\ u[2] = f /\ <<c, f>> \in Slices(leaves)
  <2>1. a \in 0 .. Len(leaves) /\ f \in 0 .. Len(leaves) /\ c \in 0 .. Len(leaves)
    BY <1>1
  <2> QED BY <2>1, SliceIn
<1> HIDE DEF u
<1>6. SliceRoots(leaves)[u] = NodeHash(SliceRoots(leaves)[Left(u)], SliceRoots(leaves)[Right(u)])
  BY <1>3, <1>5, RootTwo
<1>7. SliceRoots(leaves)[u] = NodeHash(SliceRoots(leaves)[Left(t)], SliceRoots(leaves)[<<c, f>>])
  BY <1>2, <1>4, <1>6
<1> QED BY <1>5, <1>7 DEF a, c, u

\* The walk has come to the root of its node, and to that of the earlier log's
\* part of it, by the proof of growth, or to no root of the log's.
Begins(a, b) == \A i \in 1 .. Len(a) : a[i] = b[i]
Growing(a, b, w, path) ==
  \E q \in Powers :
    /\ Fits(w, Len(b), q, Len(a) - 1, Len(a))
    /\ LET s == Node(w, Len(b), q)
           P == SubProofs(Len(a), b)
           cut == <<s[1], Len(a)>>
       IN  /\ Len(path) = Len(P[s])
           /\ w.second = SliceRoots(b)[s] => path = P[s] /\ w.first = SliceRoots(b)[cut]
           /\ path = P[s] /\ Begins(a, b) =>
                w.second = SliceRoots(b)[s] /\ w.first = SliceRoots(b)[cut]

LEMMA GrowStart ==
  ASSUME NEW a, NEW b, Len(a) \in Nat, Len(b) \in Nat, 0 < Len(a), Len(a) < Len(b),
         NEW at, at = Boundary(Len(a) - 1, Len(b) - 1)
  PROVE  /\ at.fn = 0 => Growing(a, b, WalkFrom(at, Root(a)), << >>)
         /\ at.fn # 0 => \A p : Growing(a, b, WalkFrom(at, p), <<p>>)
         /\ SubProofs(Len(a), b)[<<0, Len(b)>>] # << >>
<1> DEFINE f == Len(a)
           n == Len(b)
           P == SubProofs(f, b)
           R == SliceRoots(b)
<1>0. f \in Nat /\ n \in Nat /\ 0 < f /\ f < n /\ f - 1 \in Nat
  OBVIOUS
<1>1. /\ at \in Places /\ at.fn % 2 = 0
      /\ \E r \in Powers : Stands(at, n, r) /\ Node(at, n, r)[2] = f
  <2> HIDE DEF f, n
  <2> QED BY <1>0, BoundaryAt DEF f, n
<1>2. PICK r \in Powers : Stands(at, n, r) /\ Node(at, n, r)[2] = f
  BY <1>1
<1> DEFINE s == Node(at, n, r)
<1>3. /\ s[1] \in Nat /\ s[1] < s[2] /\ s[2] = f /\ s = <<s[1], s[2]>> /\ s[1] = at.fn * r
      /\ (at.fn = at.sn => s[2] = n)
  BY <1>2, NodeIs
<1>4. r \in Nat \ {0} /\ at.fn \in Nat /\ at.sn \in Nat
  BY <1>1, PowersHalve, AboveIs
<1> HIDE DEF s
<1>5. s[1] = 0 <=> at.fn = 0
  <2>1. at.fn = 0 => at.fn * r = 0
    BY <1>4
  <2>2. at.fn # 0 => 1 * r <= at.fn * r /\ 1 * r = r
    BY <1>4, Scaled
  <2> QED BY <1>3, <1>4, <2>1, <2>2
<1>6. s \in Slices(b) /\ s = <<s[1], f>>
  <2>1. s[1] \in 0 .. n /\ s[2] \in 0 .. n
    BY <1>0, <1>3
  <2> QED BY <1>3, <2>1, SliceIn
<1>7. P[s] = IF s[1] = 0 THEN << >> ELSE <<R[s]>>
  <2>1. P[s] = IF f = s[2] \/ s[2] <= s[1] + 1 THEN IF s[1] = 0 THEN << >> ELSE <<R[s]>>
               ELSE IF f <= Middle(s) THEN Append(P[Left(s)], R[Right(s)])
                                      ELSE Append(P[Right(s)], R[Left(s)])
    BY <1>0, <1>6, SubProofsAre
  <2>2. f = s[2]
    BY <1>3
  <2> HIDE DEF P, R
  <2> QED BY <2>1, <2>2
<1>8. ASSUME NEW h
      PROVE  LET w == WalkFrom(at, h) IN
             /\ Fits(w, n, r, f - 1, f) /\ Node(w, n, r) = s /\ w.first = h /\ w.second = h
             /\ w.sn # 0
  <2> DEFINE w == WalkFrom(at, h)
  <2>1. w.fn = at.fn /\ w.sn = at.sn /\ w.first = h /\ w.second = h
    BY DEF WalkFrom
  <2> HIDE DEF w
  <2>2. Stands(w, n, r) /\ Node(w, n, r) = s
    BY <1>2, <2>1 DEF Stands, Node, s
  <2>3. ~FromLeft(w) /\ w.sn # 0
    <3>1. w.fn # w.sn
      BY <1>0, <1>3, <2>1
    <3>2. w.fn <= w.sn
      BY <2>2 DEF Stands
    <3> QED BY <1>1, <1>4, <2>1, <3>1, <3>2 DEF FromLeft
  <2>4. s[1] <= f - 1 /\ f - 1 < s[2]
    <3> HIDE DEF f
    <3> QED BY <1>0, <1>3
  <2>5. Fits(w, n, r, f - 1, f)
    BY <2>2, <2>3, <2>4 DEF Fits
  <2> QED BY <2>1, <2>2, <2>3, <2>5 DEF w
<1>9. Root(a) = R[<<0, f>>] <=> Begins(a, b)
  BY RootsOfPrefix DEF Begins
<1>10. ASSUME at.fn = 0 PROVE Growing(a, b, WalkFrom(at, Root(a)), << >>)
  <2> DEFINE w == WalkFrom(at, Root(a))
  <2>1. Fits(w, n, r, f - 1, f) /\ Node(w, n, r) = s /\ w.first = Root(a) /\ w.second = Root(a)
    BY <1>8
  <2>2. s = <<0, f>> /\ P[s] = << >>
    BY <1>5, <1>6, <1>7, <1>10
  <2> HIDE DEF w, P, R
  <2>3. w.second = R[s] <=> Begins(a, b)
    BY <1>9, <2>1, <2>2
  <2> QED BY <1>2, <1>6, <2>1, <2>2, <2>3 DEF Growing, w, P, R
<1>11. ASSUME at.fn # 0, NEW p PROVE Growing(a, b, WalkFrom(at, p), <<p>>)
  <2> DEFINE w == WalkFrom(at, p)
  <2>1. Fits(w, n, r, f - 1, f) /\ Node(w, n, r) = s /\ w.first = p /\ w.second = p
    BY <1>8
  <2> DEFINE h == R[s]
  <2>2. P[s] = <<h>>
    BY <1>5, <1>7, <1>11
  <2>3. Len(<<p>>) = Len(<<h>>) /\ (<<p>> = <<h>> <=> p = h)
    <3> HIDE DEF h
    <3>1. <<p>>[1] = p /\ <<h>>[1] = h /\ Len(<<p>>) = 1 /\ Len(<<h>>) = 1
      OBVIOUS
    <3> QED BY <3>1
  <2> HIDE DEF w, P, R
  <2> QED BY <1>2, <1>6, <2>1, <2>2, <2>3 DEF Growing, w, P, R
<1>12. P[<<0, n>>] # << >>
  <2> DEFINE w == WalkFrom(at, EmptyRoot)
             u == P[<<0, n>>]
             v == P[s]
  <2>1. Fits(w, n, r, f - 1, f) /\ w.sn # 0 /\ Node(w, n, r) = s
    BY <1>8
  <2>2. Made(P, b) /\ Lengthens(P, b, f - 1, f)
    BY <1>0, PathsOfGrowth
  <2>3. (f - 1) + 1 = f
    BY <1>0
  <2>4. Len(v) < Len(u)
    <3> HIDE DEF P, w
    <3> QED BY <1>0, <2>1, <2>2, <2>3, PathsReach
  <2>5. Len(v) \in Nat
    <3>1. Len(<< >>) = 0 /\ Len(<<R[s]>>) = 1
      OBVIOUS
    <3> QED BY <1>7, <3>1
  <2> HIDE DEF u, v
  <2>6. u # << >>
    <3>1. Len(<< >>) = 0
      OBVIOUS
    <3> QED BY <2>4, <2>5, <3>1
  <2> QED BY <2>6 DEF u
<1> QED BY <1>10, <1>11, <1>12

LEMMA GrowStep ==
  ASSUME NEW a, NEW b, Len(a) \in Nat, Len(b) \in Nat, 0 < Len(a), NEW w, w.sn # 0,
         NEW U, Hashes(b) \subseteq U, NEW path \in Seq(U), NEW p \in U,
         Growing(a, b, w, path), NEW x, x = FoldStep(w, p)
  PROVE  Growing(a, b, x, Append(path, p))
<1> DEFINE f == Len(a)
           n == Len(b)
           m == f - 1
           P == SubProofs(f, b)
           R == SliceRoots(b)
           yes == Begins(a, b)
<1>0. f \in Nat /\ n \in Nat /\ m \in Nat /\ m + 1 = f /\ 0 < f
  OBVIOUS
<1>1. PICK q \in Powers :
        /\ Fits(w, n, q, m, f)
        /\ LET s == Node(w, n, q)
               cut == <<s[1], f>>
           IN  /\ Len(path) = Len(P[s])
               /\ w.second = R[s] => path = P[s] /\ w.first = R[cut]
               /\ path = P[s] /\ yes => w.second = R[s] /\ w.first = R[cut]
  BY DEF Growing
<1> DEFINE s == Node(w, n, q)
<1>2. Made(P, b) /\ Lengthens(P, b, m, f)
  BY <1>0, PathsOfGrowth
<1>20. s[1] \in Nat /\ s[2] \in Nat /\ s[1] <= m /\ m < s[2]
  <2> HIDE DEF m
  <2> QED BY <1>0, <1>1, FitsIn
<1>3. PICK r \in Powers : \E t \in Slices(b) : Climbed(P, b, m, f, w, p, x, s, r, t)
  <2> HIDE DEF P, m, f
  <2> QED BY <1>0, <1>1, <1>2, FitsStep
<1>4. PICK t \in Slices(b) : Climbed(P, b, m, f, w, p, x, s, r, t)
  BY <1>3
<1> DEFINE low == R[<<s[1], f>>]
           high == R[<<t[1], f>>]
<1>5. /\ Len(path) = Len(P[s])
      /\ w.second = R[s] => path = P[s] /\ w.first = low
      /\ path = P[s] /\ yes => w.second = R[s] /\ w.first = low
  BY <1>1
<1> HIDE DEF s, P, m, f, yes
<1>6. /\ t = Node(x, n, r) /\ Fits(x, n, r, m, f)
      /\ s \in Slices(b) /\ Left(t) \in Slices(b) /\ Right(t) \in Slices(b)
      /\ t[1] \in Nat /\ t[2] \in Nat /\ t[2] > t[1] + 1
      /\ R[t] = NodeHash(R[Left(t)], R[Right(t)])
      /\ \/ RisesRight(w, x, p, s, t) /\ P[t] = Append(P[s], R[Left(t)])
         \/ RisesLeft(w, x, p, s, t) /\ P[t] = Append(P[s], R[Right(t)])
  BY <1>4 DEF Climbed
<1>7. P[s] \in Seq(U) /\ R[Left(t)] \in U /\ R[Right(t)] \in U
  <2>1. P[s] \in Seq(Hashes(b))
    BY <1>2, <1>6, PathsTyped
  <2>2. R[Left(t)] \in U /\ R[Right(t)] \in U
    BY <1>6 DEF Hashes
  <2> DEFINE H == Hashes(b)
             c == P[s]
  <2> HIDE DEF H, c
  <2>3. c \in Seq(H) /\ H \subseteq U
    BY <2>1 DEF H, c
  <2>4. c \in Seq(U)
    BY <2>3
  <2> QED BY <2>2, <2>4 DEF c
<1>21. RisesRight(w, x, p, s, t) => high = NodeHash(R[Left(t)], low)
  <2> SUFFICES ASSUME RisesRight(w, x, p, s, t) PROVE high = NodeHash(R[Left(t)], low)
    OBVIOUS
  <2>1. Middle(t) = s[1] /\ t[2] = s[2]
    BY DEF RisesRight
  <2>2. Middle(t) < f /\ f <= t[2]
    BY <1>0, <1>20, <2>1
  <2>3. high = NodeHash(R[Left(t)], R[<<Middle(t), f>>])
    BY <1>0, <1>6, <2>2, CutShort
  <2> QED BY <2>1, <2>3
<1>22. RisesLeft(w, x, p, s, t) => high = low
  BY DEF RisesLeft
<1> DEFINE c == P[s]
           d == P[t]
           l == R[Left(t)]
           g == R[Right(t)]
           rs == R[s]
           rt == R[t]
<1>8. \/ /\ g = rs /\ x.second = NodeHash(p, w.second) /\ d = Append(c, l)
         /\ x.first = NodeHash(p, w.first) /\ high = NodeHash(l, low)
      \/ /\ l = rs /\ x.second = NodeHash(w.second, p) /\ d = Append(c, g)
         /\ x.first = w.first /\ high = low
  <2> HIDE DEF high, low
  <2> QED BY <1>6, <1>21, <1>22 DEF RisesRight, RisesLeft
<1>9. c \in Seq(U) /\ l \in U /\ g \in U /\ rt = NodeHash(l, g) /\ Len(path) = Len(c)
  BY <1>5, <1>6, <1>7
<1>10. /\ w.second = rs => path = c /\ w.first = low
       /\ path = c /\ yes => w.second = rs /\ w.first = low
  BY <1>5
<1> HIDE DEF c, d, l, g, rs, rt, R, low, high
<1>11. Len(Append(path, p)) = Len(d)
  <2>1. Len(Append(path, p)) = Len(path) + 1 /\ Len(Append(c, l)) = Len(c) + 1
        /\ Len(Append(c, g)) = Len(c) + 1
    BY <1>9, AppendProperties
  <2> QED BY <1>8, <1>9, <2>1
<1>12. ASSUME x.second = rt PROVE Append(path, p) = d /\ x.first = high
  <2>1. CASE g = rs /\ x.second = NodeHash(p, w.second) /\ d = Append(c, l)
             /\ x.first = NodeHash(p, w.first) /\ high = NodeHash(l, low)
    <3>1. p = l /\ w.second = g
      BY <1>9, <1>12, <2>1, NodeBinds
    <3> QED BY <1>10, <2>1, <3>1
  <2>2. CASE l = rs /\ x.second = NodeHash(w.second, p) /\ d = Append(c, g)
             /\ x.first = w.first /\ high = low
    <3>1. p = g /\ w.second = l
      BY <1>9, <1>12, <2>2, NodeBinds
    <3> QED BY <1>10, <2>2, <3>1
  <2> QED BY <1>8, <2>1, <2>2
<1>13. ASSUME Append(path, p) = d, yes PROVE x.second = rt /\ x.first = high
  <2>1. CASE g = rs /\ x.second = NodeHash(p, w.second) /\ d = Append(c, l)
             /\ x.first = NodeHash(p, w.first) /\ high = NodeHash(l, low)
    <3>1. path = c /\ p = l
      BY <1>9, <1>13, <2>1, AppendBinds
    <3> QED BY <1>9, <1>10, <1>13, <2>1, <3>1
  <2>2. CASE l = rs /\ x.second = NodeHash(w.second, p) /\ d = Append(c, g)
             /\ x.first = w.first /\ high = low
    <3>1. path = c /\ p = g
      BY <1>9, <1>13, <2>2, AppendBinds
    <3> QED BY <1>9, <1>10, <1>13, <2>2, <3>1
  <2> QED BY <1>8, <2>1, <2>2
<1> QED BY <1>6, <1>11, <1>12, <1>13 DEF Growing, d, rt, R, high, P, m, f, yes

LEMMA GrowEnd ==
  ASSUME NEW a, NEW b, Len(a) \in Nat, Len(b) \in Nat, 0 < Len(a), Len(a) <= Len(b),
         NEW w, NEW path, Growing(a, b, w, path)
  PROVE  LET proof == ConsistencyProof(Len(a), b) IN
         /\ proof \in Seq(Hashes(b))
         /\ w.sn # 0 => Len(path) < Len(proof)
         /\ w.sn = 0 => Len(path) = Len(proof)
         /\ w.sn = 0 /\ w.first = Root(a) /\ w.second = Root(b) => path = proof /\ Begins(a, b)
         /\ w.sn = 0 /\ path = proof /\ Begins(a, b) => w.first = Root(a) /\ w.second = Root(b)
<1> DEFINE f == Len(a)
           n == Len(b)
           m == f - 1
           P == SubProofs(f, b)
           R == SliceRoots(b)
           yes == Begins(a, b)
<1>0. f \in Nat /\ n \in Nat /\ m \in Nat /\ m + 1 = f /\ 0 < f
  OBVIOUS
<1>1. PICK q \in Powers :
        /\ Fits(w, n, q, m, f)
        /\ LET s == Node(w, n, q)
               cut == <<s[1], f>>
           IN  /\ Len(path) = Len(P[s])
               /\ w.second = R[s] => path = P[s] /\ w.first = R[cut]
               /\ path = P[s] /\ yes => w.second = R[s] /\ w.first = R[cut]
  BY DEF Growing
<1> DEFINE s == Node(w, n, q)
           top == <<0, n>>
           low == R[<<s[1], f>>]
<1>2. Made(P, b) /\ Lengthens(P, b, m, f)
  BY <1>0, PathsOfGrowth
<1>3. w.sn = 0 <=> s = top
  <2> HIDE DEF m
  <2> QED BY <1>0, <1>1, FitsIn
<1>4. Starts(P[s], P[top]) /\ (w.sn # 0 => Len(P[s]) < Len(P[top]))
  <2> HIDE DEF P, m
  <2> QED BY <1>0, <1>1, <1>2, PathsReach
<1>5. ConsistencyProof(f, b) = P[top] /\ Root(b) = R[top]
  BY DEF ConsistencyProof, Root
<1>6. P[top] \in Seq(Hashes(b))
  <2>1. 0 \in 0 .. n /\ n \in 0 .. n
    OBVIOUS
  <2>2. top \in Slices(b)
    BY <2>1, SliceIn
  <2> HIDE DEF P, top
  <2> QED BY <1>2, <2>2, PathsTyped
<1>7. Root(a) = R[<<0, f>>] <=> yes
  BY RootsOfPrefix DEF Begins
<1>8. s = top => s[1] = 0
  OBVIOUS
<1>9. /\ Len(path) = Len(P[s])
      /\ w.second = R[s] => path = P[s] /\ w.first = low
      /\ path = P[s] /\ yes => w.second = R[s] /\ w.first = low
  BY <1>1
<1>10. s = top => low = R[<<0, f>>]
  BY <1>8
<1> HIDE DEF P, R, s, top, yes, low
<1> QED BY <1>3, <1>4, <1>5, <1>6, <1>7, <1>9, <1>10 DEF yes

-----------------------------------------------------------------------------
(* What the two folds come to at the root of a log. *)

LEMMA TopIs ==
  ASSUME NEW leaves, Len(leaves) \in Nat
  PROVE  LET top == <<0, Len(leaves)>> IN
         /\ top \in Slices(leaves) /\ top[1] = 0 /\ top[2] = Len(leaves)
         /\ Size(top) = Len(leaves) /\ Root(leaves) = SliceRoots(leaves)[top]
<1>1. 0 \in 0 .. Len(leaves) /\ Len(leaves) \in 0 .. Len(leaves)
  OBVIOUS
<1>2. <<0, Len(leaves)>> \in Slices(leaves)
  BY <1>1, SliceIn
<1>3. <<0, Len(leaves)>>[1] = 0 /\ <<0, Len(leaves)>>[2] = Len(leaves)
  OBVIOUS
<1>4. Len(leaves) - 0 = Len(leaves)
  OBVIOUS
<1> QED BY <1>2, <1>3, <1>4 DEF Size, Root

LEMMA FoldKeeps ==
  ASSUME NEW w, NEW p, NEW x, x = FoldStep(w, p)
  PROVE  /\ x.second = NodeHash(p, w.second) \/ x.second = NodeHash(w.second, p)
         /\ \/ x.first = NodeHash(p, w.first) /\ x.second = NodeHash(p, w.second)
            \/ x.first = w.first /\ x.second = NodeHash(w.second, p)
BY DEF FoldStep

LEMMA LeafOfFold ==
  ASSUME NEW leaves, Len(leaves) \in Nat, NEW data, NEW w, LeafOf(w.second, data, leaves),
         NEW p, NEW x, x = FoldStep(w, p)
  PROVE  LeafOf(x.second, data, leaves)
<1> DEFINE h == w.second
<1>1. LeafOf(NodeHash(p, h), data, leaves) /\ LeafOf(NodeHash(h, p), data, leaves)
  <2> HIDE DEF h
  <2>1. LeafOf(h, data, leaves)
    BY DEF h
  <2> QED BY <2>1, LeafOfStep
<1> QED BY <1>1, FoldKeeps

LEMMA LeafOfEnd ==
  ASSUME NEW leaves, Len(leaves) \in Nat, 0 < Len(leaves), NEW data,
         LeafOf(Root(leaves), data, leaves)
  PROVE  \E i \in 1 .. Len(leaves) : leaves[i] = data
<1> DEFINE top == <<0, Len(leaves)>>
<1>1. top \in Slices(leaves) /\ top[1] < top[2] /\ Root(leaves) = SliceRoots(leaves)[top]
  BY TopIs
<1> HIDE DEF top
<1> QED BY <1>1 DEF LeafOf

LEMMA GrownOfFold ==
  ASSUME NEW a, Len(a) \in Nat, NEW b, Len(b) \in Nat, NEW w, GrownOf(w.first, w.second, a, b),
         NEW p, NEW x, x = FoldStep(w, p)
  PROVE  GrownOf(x.first, x.second, a, b)
<1> DEFINE g == w.first
           h == w.second
<1>1. GrownOf(NodeHash(p, g), NodeHash(p, h), a, b) /\ GrownOf(g, NodeHash(h, p), a, b)
  <2> HIDE DEF g, h
  <2>1. GrownOf(g, h, a, b)
    BY DEF g, h
  <2> QED BY <2>1, GrownOfStep
<1> QED BY <1>1, FoldKeeps

LEMMA GrownOfEnd ==
  ASSUME NEW a, Len(a) \in Nat, 0 < Len(a), NEW b, Len(b) \in Nat, 0 < Len(b),
         GrownOf(Root(a), Root(b), a, b)
  PROVE  Len(a) <= Len(b) /\ Begins(a, b)
<1> DEFINE x == <<0, Len(a)>>
           y == <<0, Len(b)>>
<1>1. /\ x \in Slices(a) /\ x[1] = 0 /\ x[1] < x[2] /\ Root(a) = SliceRoots(a)[x] /\ Size(x) = Len(a)
      /\ y \in Slices(b) /\ y[1] = 0 /\ y[1] < y[2] /\ Root(b) = SliceRoots(b)[y] /\ Size(y) = Len(b)
  BY TopIs
<1> HIDE DEF x, y
<1>2. Opens(a, x, b, y)
  BY <1>1 DEF GrownOf
<1>3. \A i \in 1 .. Len(a) : 0 + i = i
  OBVIOUS
<1> QED BY <1>1, <1>2, <1>3 DEF Opens, Begins

\* Two roots of one size are equal when the leaves are.
LEMMA OneSize ==
  ASSUME NEW a, Len(a) \in Nat, 0 < Len(a), NEW b, Len(b) \in Nat, 0 < Len(b)
  PROVE  /\ Root(a) = Root(b) => Len(a) = Len(b) /\ Begins(a, b)
         /\ Len(a) = Len(b) /\ Begins(a, b) => Root(a) = Root(b)
<1> DEFINE x == <<0, Len(a)>>
           y == <<0, Len(b)>>
<1>1. /\ x \in Slices(a) /\ x[1] = 0 /\ x[1] < x[2] /\ Root(a) = SliceRoots(a)[x] /\ Size(x) = Len(a)
      /\ y \in Slices(b) /\ y[1] = 0 /\ y[1] < y[2] /\ Root(b) = SliceRoots(b)[y] /\ Size(y) = Len(b)
  BY TopIs
<1> HIDE DEF x, y
<1>2. \A i \in 1 .. Len(a) : 0 + i = i
  OBVIOUS
<1>3. SameLeaves(a, x, b, y) <=> Len(a) = Len(b) /\ Begins(a, b)
  BY <1>1, <1>2 DEF SameLeaves, Begins
<1>4. Root(a) = Root(b) => SameLeaves(a, x, b, y)
  BY <1>1, SameRoot
<1>5. SameLeaves(a, x, b, y) => Root(a) = Root(b)
  BY <1>1, SameHash
<1> QED BY <1>3, <1>4, <1>5

\* Equal sizes leave nothing to prove.
LEMMA NoProof == ASSUME NEW leaves, Len(leaves) \in Nat
                 PROVE  ConsistencyProof(Len(leaves), leaves) = << >>
<1> DEFINE n == Len(leaves)
           top == <<0, n>>
           P == SubProofs(n, leaves)
           R == SliceRoots(leaves)
<1>1. top \in Slices(leaves) /\ top[1] = 0 /\ top[2] = n
  BY TopIs
<1>2. ConsistencyProof(n, leaves) = P[top]
  BY DEF ConsistencyProof
<1> HIDE DEF top
<1>3. P[top] = IF n = top[2] \/ top[2] <= top[1] + 1
               THEN IF top[1] = 0 THEN << >> ELSE <<R[top]>>
               ELSE IF n <= Middle(top) THEN Append(P[Left(top)], R[Right(top)])
                                        ELSE Append(P[Right(top)], R[Left(top)])
  <2> HIDE DEF n
  <2> QED BY <1>1, SubProofsAre
<1> HIDE DEF P, R, n
<1> QED BY <1>1, <1>2, <1>3 DEF n
=============================================================================
