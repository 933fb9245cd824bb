--------------------------- MODULE TreeLog_proofs ---------------------------
(***************************************************************************)
(* Theorems about TreeLog: its types, what a matched root or leaf fixes,   *)
(* what verified growth means, that honest bundles verify, and that every  *)
(* walk over a bundle ends.                                                *)
(***************************************************************************)
EXTENDS TreeLog, MerkleTree_proofs, FiniteSetTheorems

-----------------------------------------------------------------------------
(* What a path vouches for, whatever the tree it was folded in.  Of a hash  *)
(* over slice s that an inclusion fold came to, the nodes above its leaf    *)
(* are known: g is the hash of those in D.                                  *)

Spans == Nat \X Nat

Vouching(g, D, s, m, data) ==
  /\ s \in D /\ D \in SUBSET Spans
  /\ \A x \in D : x[1] <= m /\ m < x[2] /\ Size(x) <= Size(s)
  /\ \A x \in D :
       \/ x[2] = x[1] + 1 /\ g[x] = LeafHash(data)
       \/ /\ x[2] > x[1] + 1 /\ m < Middle(x) /\ Left(x) \in D
          /\ \E p : g[x] = NodeHash(g[Left(x)], p)
       \/ /\ x[2] > x[1] + 1 /\ Middle(x) <= m /\ Right(x) \in D
          /\ \E p : g[x] = NodeHash(p, g[Right(x)])

Vouches(h, s, m, data) == \E g, D : Vouching(g, D, s, m, data) /\ g[s] = h

\* The two parts of a slice, of whatever leaves.
LEMMA PartsOf ==
  ASSUME NEW s \in Spans, s[2] > s[1] + 1
  PROVE  /\ Left(s) \in Spans /\ Right(s) \in Spans
         /\ Left(s)[1] = s[1] /\ Left(s)[2] = Middle(s)
         /\ Right(s)[1] = Middle(s) /\ Right(s)[2] = s[2]
         /\ s[1] \in Nat /\ s[2] \in Nat
         /\ Middle(s) \in Nat /\ s[1] < Middle(s) /\ Middle(s) < s[2]
         /\ Size(s) \in Nat /\ Size(Left(s)) \in Nat /\ Size(Right(s)) \in Nat
         /\ Size(Left(s)) < Size(s) /\ Size(Right(s)) < Size(s)
<1> DEFINE leaves == [i \in 1 .. s[2] |-> 0]
<1>1. s[1] \in Nat /\ s[2] \in Nat /\ s = <<s[1], s[2]>>
  BY DEF Spans
<1>2. leaves \in Seq({0}) /\ Len(leaves) = s[2]
  BY <1>1
<1>3. s \in Slices(leaves) /\ Len(leaves) \in Nat
  BY <1>1, <1>2 DEF Slices
<1> HIDE DEF leaves
<1>4. /\ Left(s)[1] = s[1] /\ Left(s)[2] = Middle(s)
      /\ Right(s)[1] = Middle(s) /\ Right(s)[2] = s[2]
      /\ Middle(s) \in Nat /\ s[1] < Middle(s) /\ Middle(s) < s[2]
  BY <1>3, Parts
<1> DEFINE c == Middle(s)
<1>5. Left(s) \in Spans /\ Right(s) \in Spans
  <2>1. Left(s) = <<s[1], c>> /\ Right(s) = <<c, s[2]>>
    BY DEF Left, Right
  <2> HIDE DEF c
  <2> QED BY <1>1, <1>4, <2>1 DEF Spans, c
<1> QED BY <1>1, <1>4, <1>5 DEF Size

\* The leaf's own hash.
LEMMA VouchBase ==
  ASSUME NEW s \in Spans, NEW m \in Nat, s[1] = m, s[2] = m + 1, NEW data
  PROVE  Vouches(LeafHash(data), s, m, data)
<1> DEFINE g == [x \in {s} |-> LeafHash(data)]
<1>1. s[1] <= m /\ m < s[2] /\ s[2] = s[1] + 1 /\ Size(s) <= Size(s)
  BY DEF Size
<1>2. g[s] = LeafHash(data)
  OBVIOUS
<1> HIDE DEF g
<1>3. Vouching(g, {s}, s, m, data)
  BY <1>1, <1>2 DEF Vouching
<1> QED BY <1>2, <1>3 DEF Vouches

\* One node up.
LEMMA VouchUp ==
  ASSUME NEW t \in Spans, NEW s, NEW m \in Nat, NEW data, NEW h, NEW p, NEW k,
         Vouches(h, s, m, data), t[2] > t[1] + 1,
         \/ Left(t) = s /\ k = NodeHash(h, p)
         \/ Right(t) = s /\ k = NodeHash(p, h)
  PROVE  Vouches(k, t, m, data)
<1> DEFINE V(g, D) == Vouching(g, D, s, m, data) /\ g[s] = h
<1>1. PICK g, D : V(g, D)
  BY DEF Vouches
<1>2. /\ s \in D /\ D \in SUBSET Spans /\ g[s] = h
      /\ \A x \in D : x[1] <= m /\ m < x[2] /\ Size(x) <= Size(s)
  BY <1>1 DEF Vouching
<1>3. /\ Size(s) \in Nat /\ Size(s) < Size(t) /\ Size(t) \in Nat
      /\ t[1] <= m /\ m < t[2]
      /\ Left(t) = s => m < Middle(t)
      /\ Right(t) = s => Middle(t) <= m
  <2> DEFINE t1 == t[1]
             t2 == t[2]
             c == Middle(t)
  <2>1. /\ Left(t)[1] = t1 /\ Left(t)[2] = c /\ Right(t)[1] = c /\ Right(t)[2] = t2
        /\ t1 \in Nat /\ t2 \in Nat /\ c \in Nat /\ t1 < c /\ c < t2
        /\ Size(t) \in Nat /\ Size(Left(t)) \in Nat /\ Size(Right(t)) \in Nat
        /\ Size(Left(t)) < Size(t) /\ Size(Right(t)) < Size(t)
    BY PartsOf
  <2>2. s[1] <= m /\ m < s[2]
    BY <1>2
  <2> HIDE DEF t1, t2, c
  <2>3. t1 <= m /\ m < t2
    BY <2>1, <2>2
  <2>4. (Left(t) = s => m < c) /\ (Right(t) = s => c <= m)
    BY <2>1, <2>2
  <2>5. Size(s) \in Nat /\ Size(s) < Size(t) /\ Size(t) \in Nat
    BY <2>1
  <2> QED BY <2>3, <2>4, <2>5 DEF t1, t2, c
<1> DEFINE E == D \union {t}
           f == [x \in E |-> IF x = t THEN k ELSE g[x]]
<1>4. t \notin D
  <2> SUFFICES ASSUME t \in D PROVE FALSE
    OBVIOUS
  <2>1. Size(t) <= Size(s)
    BY <1>2
  <2> QED BY <1>3, <2>1
<1>5. f[t] = k /\ \A x \in D : f[x] = g[x]
  BY <1>4
<1> HIDE DEF f
<1>6. \A x \in E : x[1] <= m /\ m < x[2] /\ Size(x) <= Size(t)
  <2> SUFFICES ASSUME NEW x \in E PROVE x[1] <= m /\ m < x[2] /\ Size(x) <= Size(t)
    OBVIOUS
  <2>1. CASE x = t
    BY <1>3, <2>1
  <2>2. CASE x \in D
    <3>1. x[1] <= m /\ m < x[2] /\ Size(x) <= Size(s) /\ x[1] \in Nat /\ x[2] \in Nat
      BY <1>2, <2>2 DEF Spans
    <3> DEFINE a == Size(x)
    <3>2. a \in Int
      BY <3>1 DEF Size
    <3> HIDE DEF a
    <3> QED BY <1>3, <3>1, <3>2 DEF a
  <2> QED BY <2>1, <2>2
<1> DEFINE Down(r, x) ==
      \/ x[2] = x[1] + 1 /\ r[x] = LeafHash(data)
      \/ /\ x[2] > x[1] + 1 /\ m < Middle(x) /\ Left(x) \in E
         /\ \E q : r[x] = NodeHash(r[Left(x)], q)
      \/ /\ x[2] > x[1] + 1 /\ Middle(x) <= m /\ Right(x) \in E
         /\ \E q : r[x] = NodeHash(q, r[Right(x)])
<1>7. ASSUME NEW x \in E PROVE Down(f, x)
  <2>1. CASE x = t
    <3>1. f[s] = h
      BY <1>2, <1>5
    <3>2. ASSUME Left(t) = s, k = NodeHash(h, p) PROVE Down(f, t)
      BY <1>2, <1>3, <1>5, <3>1, <3>2
    <3>3. ASSUME Right(t) = s, k = NodeHash(p, h) PROVE Down(f, t)
      BY <1>2, <1>3, <1>5, <3>1, <3>3
    <3> QED BY <2>1, <3>2, <3>3
  <2>2. CASE x \in D
    <3>1. \/ x[2] = x[1] + 1 /\ g[x] = LeafHash(data)
          \/ /\ x[2] > x[1] + 1 /\ m < Middle(x) /\ Left(x) \in D
             /\ \E q : g[x] = NodeHash(g[Left(x)], q)
          \/ /\ x[2] > x[1] + 1 /\ Middle(x) <= m /\ Right(x) \in D
             /\ \E q : g[x] = NodeHash(q, g[Right(x)])
      BY <1>1, <2>2 DEF Vouching
    <3>2. f[x] = g[x] /\ (Left(x) \in D => f[Left(x)] = g[Left(x)])
          /\ (Right(x) \in D => f[Right(x)] = g[Right(x)])
      BY <1>5, <2>2
    <3> QED BY <3>1, <3>2
  <2> QED BY <2>1, <2>2
<1>8. t \in E /\ E \in SUBSET Spans
  BY <1>2
<1> HIDE DEF E
<1>9. Vouching(f, E, t, m, data)
  BY <1>6, <1>7, <1>8 DEF Vouching
<1> QED BY <1>5, <1>9 DEF Vouches

\* One node down.
LEMMA VouchOne ==
  ASSUME NEW h, NEW s, NEW m, NEW data, Vouches(h, s, m, data), s[2] = s[1] + 1, s[1] \in Nat
  PROVE  h = LeafHash(data)
<1> DEFINE V(g, D) == Vouching(g, D, s, m, data) /\ g[s] = h
<1>1. PICK g, D : V(g, D)
  BY DEF Vouches
<1>2. ~(s[2] > s[1] + 1)
  OBVIOUS
<1> QED BY <1>1, <1>2 DEF Vouching

VouchedBelow(h, s, m, data) ==
  \E k, p : \/ m < Middle(s) /\ h = NodeHash(k, p) /\ Vouches(k, Left(s), m, data)
            \/ Middle(s) <= m /\ h = NodeHash(p, k) /\ Vouches(k, Right(s), m, data)

\* What vouches for a leaf of more than one is a node over what vouches for it below.
LEMMA VouchDown ==
  ASSUME NEW h, NEW s \in Spans, NEW m \in Nat, NEW data, Vouches(h, s, m, data), s[2] > s[1] + 1
  PROVE  VouchedBelow(h, s, m, data)
<1> DEFINE V(g, D) == Vouching(g, D, s, m, data) /\ g[s] = h
           Down(g, D, x) ==
             \/ x[2] = x[1] + 1 /\ g[x] = LeafHash(data)
             \/ /\ x[2] > x[1] + 1 /\ m < Middle(x) /\ Left(x) \in D
                /\ \E p : g[x] = NodeHash(g[Left(x)], p)
             \/ /\ x[2] > x[1] + 1 /\ Middle(x) <= m /\ Right(x) \in D
                /\ \E p : g[x] = NodeHash(p, g[Right(x)])
<1>1. PICK g, D : V(g, D)
  BY DEF Vouches
<1>2. /\ s \in D /\ D \in SUBSET Spans /\ g[s] = h
      /\ \A x \in D : x[1] <= m /\ m < x[2] /\ Size(x) <= Size(s)
      /\ \A x \in D : Down(g, D, x)
  BY <1>1 DEF Vouching
<1>3. ASSUME NEW c \in D PROVE Vouches(g[c], c, m, data)
  <2> DEFINE C == {x \in D : Size(x) <= Size(c)}
  <2>1. \A x \in D : Size(x) \in Int
    BY <1>2 DEF Spans, Size
  <2>2. c \in C /\ C \in SUBSET Spans /\ \A x \in C : x[1] <= m /\ m < x[2] /\ Size(x) <= Size(c)
    BY <1>2, <2>1
  <2>3. ASSUME NEW x \in C PROVE Down(g, C, x)
    <3>1. Down(g, D, x) /\ x \in Spans
      BY <1>2
    <3>2. ASSUME x[2] > x[1] + 1, NEW y \in D, y = Left(x) \/ y = Right(x) PROVE y \in C
      <4>1. Size(y) < Size(x)
        BY <3>1, <3>2, PartsOf
      <4> DEFINE a == Size(x)
                 b == Size(y)
                 d == Size(c)
      <4>2. a \in Int /\ b \in Int /\ d \in Int /\ a <= d /\ b < a
        BY <2>1, <4>1
      <4> HIDE DEF a, b, d
      <4>3. b <= d
        BY <4>2
      <4> QED BY <4>3 DEF b, d
    <3> HIDE DEF C
    <3> QED BY <3>1, <3>2
  <2> HIDE DEF C
  <2>4. Vouching(g, C, c, m, data)
    BY <2>2, <2>3 DEF Vouching
  <2> QED BY <2>4 DEF Vouches
<1>4. s[2] # s[1] + 1
  BY DEF Spans
<1>5. \/ m < Middle(s) /\ Left(s) \in D /\ \E p : h = NodeHash(g[Left(s)], p)
      \/ Middle(s) <= m /\ Right(s) \in D /\ \E p : h = NodeHash(p, g[Right(s)])
  BY <1>2, <1>4
<1> QED BY <1>3, <1>5 DEF VouchedBelow

\* The tree of a log vouches for its own leaves, and for no others.
LEMMA VouchOwn ==
  ASSUME NEW leaves, Len(leaves) \in Nat, NEW s \in Slices(leaves), NEW m \in Nat,
         s[1] <= m, m < s[2]
  PROVE  Vouches(SliceRoots(leaves)[s], s, m, leaves[m + 1])
<1> DEFINE R == SliceRoots(leaves)
           D == {x \in Slices(leaves) : x[1] <= m /\ m < x[2] /\ Size(x) <= Size(s)}
           e == leaves[m + 1]
<1>0. /\ \A x \in Slices(leaves) : x[1] \in Nat /\ x[2] \in Nat /\ x = <<x[1], x[2]>>
      /\ \A x \in Slices(leaves) : x[2] = x[1] + 1 => R[x] = LeafHash(leaves[x[2]])
      /\ \A x \in Slices(leaves) : x[2] > x[1] + 1 => R[x] = NodeHash(R[Left(x)], R[Right(x)])
  <2>1. \A x \in Slices(leaves) : x[1] \in Nat /\ x[2] \in Nat /\ x = <<x[1], x[2]>>
    BY SliceBounds
  <2> QED BY <2>1, RootOne, RootTwo
<1> HIDE DEF R
<1>1. s \in D /\ D \in SUBSET Spans
  <2>1. Size(s) <= Size(s)
    BY <1>0 DEF Size
  <2> QED BY <1>0, <2>1 DEF Spans, Slices
<1>2. ASSUME NEW x \in D
      PROVE  \/ x[2] = x[1] + 1 /\ R[x] = LeafHash(e)
             \/ /\ x[2] > x[1] + 1 /\ m < Middle(x) /\ Left(x) \in D
                /\ \E p : R[x] = NodeHash(R[Left(x)], p)
             \/ /\ x[2] > x[1] + 1 /\ Middle(x) <= m /\ Right(x) \in D
                /\ \E p : R[x] = NodeHash(p, R[Right(x)])
  <2> DEFINE x1 == x[1]
             x2 == x[2]
             c == Middle(x)
  <2>1. x1 \in Nat /\ x2 \in Nat /\ x1 <= m /\ m < x2 /\ x \in Slices(leaves) /\ Size(x) <= Size(s)
    BY <1>0
  <2>2. CASE x2 = x1 + 1
    <3>1. x2 = m + 1
      <4> HIDE DEF x1, x2
      <4> QED BY <2>1, <2>2
    <3> QED BY <1>0, <2>1, <2>2, <3>1
  <2>3. CASE x2 > x1 + 1
    <3>1. /\ Left(x) \in Slices(leaves) /\ Right(x) \in Slices(leaves)
          /\ Left(x)[1] = x1 /\ Left(x)[2] = c /\ Right(x)[1] = c /\ Right(x)[2] = x2
          /\ c \in Nat /\ x1 < c /\ c < x2
      BY <2>1, <2>3, Parts
    <3>2. R[x] = NodeHash(R[Left(x)], R[Right(x)])
      BY <1>0, <2>1, <2>3
    <3> DEFINE a == Size(s)
    <3>3. a \in Int /\ x2 - x1 <= a
      BY <1>0, <2>1 DEF Size
    <3> HIDE DEF x1, x2, c, a
    <3>4. c - x1 <= a /\ x2 - c <= a /\ (m < c \/ c <= m)
      BY <2>1, <3>1, <3>3
    <3>5. Size(Left(x)) = c - x1 /\ Size(Right(x)) = x2 - c
      BY <3>1 DEF Size
    <3>6. CASE m < c
      <4>1. Left(x) \in D
        BY <2>1, <3>1, <3>4, <3>5, <3>6 DEF a
      <4> QED BY <2>3, <3>2, <3>6, <4>1 DEF x1, x2, c
    <3>7. CASE c <= m
      <4>1. Right(x) \in D
        BY <2>1, <3>1, <3>4, <3>5, <3>7 DEF a
      <4> QED BY <2>3, <3>2, <3>7, <4>1 DEF x1, x2, c
    <3> QED BY <3>4, <3>6, <3>7
  <2>4. x2 = x1 + 1 \/ x2 > x1 + 1
    <3> HIDE DEF x1, x2
    <3> QED BY <2>1
  <2> QED BY <2>2, <2>3, <2>4
<1>3. \A x \in D : x[1] <= m /\ m < x[2] /\ Size(x) <= Size(s)
  OBVIOUS
<1> HIDE DEF D, e
<1>4. Vouching(R, D, s, m, e)
  BY <1>1, <1>2, <1>3 DEF Vouching
<1> QED BY <1>4 DEF Vouches, R, e

\* A log's root vouches for one leaf at each position, the log's own.
LEMMA VouchBinds ==
  ASSUME NEW leaves, Len(leaves) \in Nat, NEW s \in Slices(leaves), NEW m \in Nat,
         s[1] <= m, m < s[2], NEW data, Vouches(SliceRoots(leaves)[s], s, m, data)
  PROVE  data = leaves[m + 1]
<1> DEFINE R == SliceRoots(leaves)
           e == leaves[m + 1]
           Holds(x) == x[1] <= m /\ m < x[2] /\ Vouches(R[x], x, m, data) => data = e
           S == {d \in Nat : \A x \in Slices(leaves) : Size(x) <= d => Holds(x)}
<1>0. /\ \A x \in Slices(leaves) : x[1] \in Nat /\ x[2] \in Nat /\ x = <<x[1], x[2]>>
      /\ \A x \in Slices(leaves) : x[2] = x[1] + 1 => R[x] = LeafHash(leaves[x[2]])
      /\ \A x \in Slices(leaves) : x[2] > x[1] + 1 => R[x] = NodeHash(R[Left(x)], R[Right(x)])
  <2>1. \A x \in Slices(leaves) : x[1] \in Nat /\ x[2] \in Nat /\ x = <<x[1], x[2]>>
    BY SliceBounds
  <2> QED BY <2>1, RootOne, RootTwo
<1>10. Vouches(R[s], s, m, data)
  OBVIOUS
<1> HIDE DEF R
<1>1. 0 \in S
  BY <1>0 DEF Size
<1>2. ASSUME NEW d \in Nat, d \in S PROVE d + 1 \in S
  <2> SUFFICES ASSUME NEW x \in Slices(leaves), Size(x) <= d + 1, x[1] <= m, m < x[2],
                      Vouches(R[x], x, m, data)
               PROVE  data = e
    BY <1>2
  <2>1. x[1] \in Nat /\ x[2] \in Nat /\ x \in Spans
    BY <1>0 DEF Spans
  <2>2. CASE x[2] = x[1] + 1
    <3> DEFINE h == R[x]
    <3>1. h = LeafHash(leaves[x[2]]) /\ x[2] = m + 1
      BY <1>0, <2>1, <2>2
    <3>2. Vouches(h, x, m, data)
      OBVIOUS
    <3> HIDE DEF h
    <3>3. h = LeafHash(data)
      BY <2>1, <2>2, <3>2, VouchOne
    <3> QED BY <3>1, <3>3, LeafBinds
  <2>3. CASE x[2] > x[1] + 1
    <3> DEFINE h == R[x]
               Step(k, p) ==
                 \/ m < Middle(x) /\ h = NodeHash(k, p) /\ Vouches(k, Left(x), m, data)
                 \/ Middle(x) <= m /\ h = NodeHash(p, k) /\ Vouches(k, Right(x), m, data)
    <3>1. h = NodeHash(R[Left(x)], R[Right(x)])
      BY <1>0, <2>3
    <3>2. Vouches(h, x, m, data)
      OBVIOUS
    <3> HIDE DEF h
    <3>3. VouchedBelow(h, x, m, data)
      BY <2>1, <2>3, <3>2, VouchDown
    <3>4. PICK k, p : Step(k, p)
      BY <3>3 DEF VouchedBelow
    <3>5. /\ Left(x) \in Slices(leaves) /\ Right(x) \in Slices(leaves)
          /\ Left(x)[1] = x[1] /\ Left(x)[2] = Middle(x)
          /\ Right(x)[1] = Middle(x) /\ Right(x)[2] = x[2]
      BY <2>3, Parts
    <3>6. Size(Left(x)) <= d /\ Size(Right(x)) <= d
      BY <2>3, Smaller
    <3>7. Holds(Left(x)) /\ Holds(Right(x))
      BY <1>2, <3>5, <3>6
    <3>8. CASE m < Middle(x) /\ h = NodeHash(k, p) /\ Vouches(k, Left(x), m, data)
      <4>1. k = R[Left(x)]
        BY <3>1, <3>8, NodeBinds
      <4> QED BY <3>5, <3>7, <3>8, <4>1
    <3>9. CASE Middle(x) <= m /\ h = NodeHash(p, k) /\ Vouches(k, Right(x), m, data)
      <4> DEFINE a == R[Left(x)]
                 b == R[Right(x)]
      <4>2. NodeHash(p, k) = NodeHash(a, b)
        BY <3>1, <3>9
      <4> HIDE DEF a, b
      <4>3. k = b
        BY <4>2, NodeBinds
      <4>1. k = R[Right(x)]
        BY <4>3 DEF b
      <4> QED BY <3>5, <3>7, <3>9, <4>1
    <3> QED BY <3>4, <3>8, <3>9
  <2>4. x[2] = x[1] + 1 \/ x[2] > x[1] + 1
    BY <2>1
  <2> QED BY <2>2, <2>3, <2>4
<1>3. Size(s) \in Nat
  BY <1>0 DEF Size
<1>4. Size(s) \in S
  <2> DEFINE k == Size(s)
  <2> HIDE DEF S, k
  <2>1. k \in Nat
    BY <1>3 DEF k
  <2>2. k \in S
    BY <1>1, <1>2, <2>1, Upwards
  <2> QED BY <2>2 DEF k
<1>5. Holds(s)
  <2> HIDE DEF Holds
  <2>1. Size(s) <= Size(s)
    BY <1>3
  <2> QED BY <1>4, <2>1
<1> QED BY <1>5, <1>10

-----------------------------------------------------------------------------
(* The folds, in terms of what they vouch for. *)

\* An inclusion fold vouches for its leaf at every node it comes to.
VouchedAt(w, n, m, data) ==
  \E q \in Powers : Stands(w, n, q) /\ Vouches(w.second, Node(w, n, q), m, data)

\* An inclusion walk starts at its own leaf.
LEMMA VouchStart ==
  ASSUME NEW n \in Nat, NEW m \in Nat, m < n, NEW data
  PROVE  VouchedAt(InclusionWalk(data, m, n), n, m, data)
<1> DEFINE w == InclusionWalk(data, m, n)
           s == Node(w, n, 1)
<1>1. w.fn = m /\ w.sn = n - 1 /\ w.second = LeafHash(data)
  BY DEF InclusionWalk, WalkFrom
<1>2. Stands(w, n, 1) /\ 1 \in Powers
  BY <1>1, PowersDouble DEF Stands
<1>3. s = <<m, m + 1>>
  BY <1>1 DEF Node
<1>4. s \in Spans /\ s[1] = m /\ s[2] = m + 1
  BY <1>3 DEF Spans
<1> HIDE DEF s
<1>5. Vouches(LeafHash(data), s, m, data)
  BY <1>4, VouchBase
<1> HIDE DEF w
<1> QED BY <1>1, <1>2, <1>5 DEF VouchedAt, s, w

\* The node a fold comes to from another: which child of it the other was.
Joins(w, x, p, s, t) ==
  /\ t \in Spans /\ t[2] > t[1] + 1 /\ s \in Spans /\ s[1] < s[2]
  /\ t[1] \in Nat /\ t[2] \in Nat /\ s[1] \in Nat /\ s[2] \in Nat
  /\ \/ RisesRight(w, x, p, s, t)
     \/ RisesLeft(w, x, p, s, t)

\* A fold goes up to the parent, from its left or from its right.
LEMMA FoldJoins ==
  ASSUME NEW w, NEW p, NEW n \in Nat, NEW q, Stands(w, n, q), w.sn # 0, NEW x, x = FoldStep(w, p)
  PROVE  \E r \in Powers : Stands(x, n, r) /\ Joins(w, x, p, Node(w, n, q), Node(x, n, r))
<1> DEFINE s == Node(w, n, q)
<1>1. PICK r \in Powers :
        /\ Stands(x, n, r)
        /\ RisesRight(w, x, p, s, Node(x, n, r)) \/ RisesLeft(w, x, p, s, Node(x, n, r))
  BY StepUp
<1> DEFINE t == Node(x, n, r)
<1>2. s[1] \in Nat /\ s[2] \in Nat /\ s[1] < s[2] /\ s = <<s[1], s[2]>>
  BY NodeIs
<1>3. t[1] \in Nat /\ t[2] \in Nat /\ t = <<t[1], t[2]>>
  BY <1>1, NodeIs
<1>4. RisesRight(w, x, p, s, t) \/ RisesLeft(w, x, p, s, t)
  BY <1>1
<1> HIDE DEF s, t
<1>5. s \in Spans /\ t \in Spans
  BY <1>2, <1>3 DEF Spans
<1>6. t[2] > t[1] + 1
  <2>1. \/ t[1] < s[1] /\ t[2] = s[2]
        \/ t[1] = s[1] /\ s[2] < t[2]
    BY <1>4 DEF RisesRight, RisesLeft
  <2> QED BY <1>2, <1>3, <2>1
<1>7. Joins(w, x, p, s, t)
  BY <1>2, <1>3, <1>4, <1>5, <1>6 DEF Joins
<1> QED BY <1>1, <1>7 DEF s, t

\* A hash folded in, the walk still vouches for its leaf.
LEMMA VouchFold ==
  ASSUME NEW w, NEW p, NEW n \in Nat, w.sn # 0, NEW x, x = FoldStep(w, p), NEW m \in Nat, NEW data,
         VouchedAt(w, n, m, data)
  PROVE  VouchedAt(x, n, m, data)
<1>1. PICK q \in Powers : Stands(w, n, q) /\ Vouches(w.second, Node(w, n, q), m, data)
  BY DEF VouchedAt
<1> DEFINE s == Node(w, n, q)
           h == w.second
           k == x.second
<1>2. PICK r \in Powers : Stands(x, n, r) /\ Joins(w, x, p, s, Node(x, n, r))
  BY <1>1, FoldJoins
<1> DEFINE t == Node(x, n, r)
<1>3. Vouches(h, s, m, data)
  BY <1>1
<1>4. /\ t \in Spans /\ t[2] > t[1] + 1
      /\ \/ Left(t) = s /\ k = NodeHash(h, p)
         \/ Right(t) = s /\ k = NodeHash(p, h)
  <2> HIDE DEF s, t
  <2> QED BY <1>2 DEF Joins, RisesRight, RisesLeft, t
<1> HIDE DEF s, t, h, k
<1>5. Vouches(k, t, m, data)
  BY <1>3, <1>4, VouchUp
<1> QED BY <1>2, <1>5 DEF VouchedAt, t, k

\* At the root, for the leaf of a tree of n.
LEMMA AtTop ==
  ASSUME NEW w, NEW n \in Nat, NEW q, Stands(w, n, q), w.sn = 0
  PROVE  Node(w, n, q) = <<0, n>>
<1> DEFINE s == Node(w, n, q)
<1>1. /\ s[1] \in Nat /\ s[2] \in Nat /\ s = <<s[1], s[2]>>
      /\ s[1] = w.fn * q /\ (w.fn = w.sn => s[2] = n)
  BY NodeIs
<1>2. w.fn = 0 /\ q \in Nat
  BY PowersHalve DEF Stands
<1>3. s[1] = 0 /\ s[2] = n
  BY <1>1, <1>2
<1> HIDE DEF s
<1>4. s = <<0, n>>
  BY <1>1, <1>3
<1> QED BY <1>4 DEF s

\* At the root, the walk's hash vouches for the leaf in a tree of n.
LEMMA VouchEnd ==
  ASSUME NEW w, NEW n \in Nat, w.sn = 0, NEW m \in Nat, NEW data, VouchedAt(w, n, m, data)
  PROVE  Vouches(w.second, <<0, n>>, m, data)
<1>1. PICK q \in Powers : Stands(w, n, q) /\ Vouches(w.second, Node(w, n, q), m, data)
  BY DEF VouchedAt
<1>2. Node(w, n, q) = <<0, n>>
  BY <1>1, AtTop
<1> QED BY <1>1, <1>2

\* A consistency fold from a log's root binds what its other root vouches for,
\* as far as that log goes.
Binds(h, s, f, leaves) ==
  \A m \in Nat : \A data :
    s[1] <= m /\ m < f /\ Vouches(h, s, m, data) => data = leaves[m + 1]

BindsAt(w, n, leaves) ==
  LET f == Len(leaves) IN
  \E q \in Powers :
    /\ Stands(w, n, q)
    /\ LET s == Node(w, n, q) IN
       /\ s[1] < f /\ f <= s[2]
       /\ w.first = SliceRoots(leaves)[<<s[1], f>>] => Binds(w.second, s, f, leaves)

\* A growth walk starts at the slice the earlier log ends, with one hash for both.
LEMMA BindStart ==
  ASSUME NEW leaves, Len(leaves) \in Nat, 0 < Len(leaves), NEW n \in Nat, Len(leaves) < n,
         NEW at, at = Boundary(Len(leaves) - 1, n - 1), NEW h
  PROVE  BindsAt(WalkFrom(at, h), n, leaves)
<1> DEFINE f == Len(leaves)
           w == WalkFrom(at, h)
           R == SliceRoots(leaves)
<1>1. f \in Nat /\ 0 < f /\ f < n
  OBVIOUS
<1>2. PICK q \in Powers : Stands(at, n, q) /\ Node(at, n, q)[2] = f
  <2>1. at = Boundary(f - 1, n - 1)
    OBVIOUS
  <2> HIDE DEF f
  <2> QED BY <1>1, <2>1, BoundaryAt
<1>3. w.fn = at.fn /\ w.sn = at.sn /\ w.first = h /\ w.second = h
  BY DEF WalkFrom
<1> HIDE DEF w
<1> DEFINE s == Node(w, n, q)
<1>4. Stands(w, n, q) /\ s[2] = f
  BY <1>2, <1>3 DEF Stands, Node
<1>5. s[1] \in Nat /\ s[2] \in Nat /\ s[1] < s[2] /\ s = <<s[1], s[2]>>
  BY <1>4, NodeIs
<1> HIDE DEF s
<1>6. s \in Slices(leaves) /\ s[1] < f /\ f <= s[2] /\ s = <<s[1], f>>
  <2>1. s[1] \in 0 .. f /\ s[2] \in 0 .. f
    BY <1>1, <1>4, <1>5
  <2> QED BY <1>1, <1>4, <1>5, <2>1 DEF Slices
<1>7. ASSUME h = R[<<s[1], f>>] PROVE Binds(h, s, f, leaves)
  <2> SUFFICES ASSUME NEW m \in Nat, NEW data, s[1] <= m, m < f, Vouches(h, s, m, data)
               PROVE  data = leaves[m + 1]
    BY DEF Binds
  <2>1. Vouches(R[s], s, m, data) /\ m < s[2]
    BY <1>4, <1>6, <1>7
  <2> QED BY <1>6, <2>1, VouchBinds
<1> QED BY <1>3, <1>4, <1>6, <1>7 DEF BindsAt, s, w

\* A hash folded in, the walk still binds the earlier log's leaves.
LEMMA BindFold ==
  ASSUME NEW leaves, Len(leaves) \in Nat, NEW w, NEW p, NEW n \in Nat, w.sn # 0,
         NEW x, x = FoldStep(w, p), BindsAt(w, n, leaves)
  PROVE  BindsAt(x, n, leaves)
<1> DEFINE f == Len(leaves)
           R == SliceRoots(leaves)
           Start(q) ==
             /\ Stands(w, n, q)
             /\ LET s == Node(w, n, q) IN
                /\ s[1] < f /\ f <= s[2]
                /\ w.first = R[<<s[1], f>>] => Binds(w.second, s, f, leaves)
<1>1. PICK q \in Powers : Start(q)
  BY DEF BindsAt
<1> DEFINE s == Node(w, n, q)
<1>2. PICK r \in Powers : Stands(x, n, r) /\ Joins(w, x, p, s, Node(x, n, r))
  BY <1>1, FoldJoins
<1> DEFINE t == Node(x, n, r)
           g == w.first
           h == w.second
           a == t[1]
           b == s[1]
           d == s[2]
<1>3. b < f /\ f <= d /\ (g = R[<<b, f>>] => Binds(h, s, f, leaves)) /\ f \in Nat
  BY <1>1
<1>4. Joins(w, x, p, s, t)
  BY <1>2
<1> HIDE DEF s, t
<1>5. /\ t \in Spans /\ t[2] > a + 1 /\ s \in Spans /\ b < d
      /\ a \in Nat /\ t[2] \in Nat /\ b \in Nat /\ d \in Nat
  BY <1>4 DEF Joins
<1>6. CASE RisesLeft(w, x, p, s, t)
  <2>1. /\ Left(t) = s /\ Middle(t) = d /\ a = b /\ d < t[2]
        /\ x.first = g /\ x.second = NodeHash(h, p)
    BY <1>6 DEF RisesLeft
  <2>2. a < f /\ f <= t[2]
    <3> HIDE DEF f, a, b, d
    <3> QED BY <1>3, <1>5, <2>1
  <2>3. ASSUME x.first = R[<<a, f>>] PROVE Binds(x.second, t, f, leaves)
    <3> SUFFICES ASSUME NEW m \in Nat, NEW data, a <= m, m < f, Vouches(x.second, t, m, data)
                 PROVE  data = leaves[m + 1]
      BY DEF Binds
    <3>1. Binds(h, s, f, leaves)
      BY <1>3, <2>1, <2>3
    <3> DEFINE k == NodeHash(h, p)
    <3>2. Vouches(k, t, m, data)
      BY <2>1
    <3> HIDE DEF k
    <3>3. VouchedBelow(k, t, m, data)
      BY <1>5, <3>2, VouchDown
    <3> DEFINE Step(i, j) ==
          \/ m < Middle(t) /\ k = NodeHash(i, j) /\ Vouches(i, Left(t), m, data)
          \/ Middle(t) <= m /\ k = NodeHash(j, i) /\ Vouches(i, Right(t), m, data)
    <3>4. PICK i, j : Step(i, j)
      BY <3>3 DEF VouchedBelow
    <3>5. ~(Middle(t) <= m)
      <4> DEFINE c == Middle(t)
      <4>1. c = d
        BY <2>1
      <4> HIDE DEF c, f, d
      <4>2. ~(c <= m)
        BY <1>3, <1>5, <4>1
      <4> QED BY <4>2 DEF c
    <3>6. k = NodeHash(i, j) /\ Vouches(i, s, m, data)
      BY <2>1, <3>4, <3>5
    <3> HIDE DEF h
    <3>7. i = h
      <4>1. NodeHash(i, j) = NodeHash(h, p)
        BY <3>6 DEF k
      <4> QED BY <4>1, NodeBinds
    <3>8. b <= m
      BY <2>1
    <3> QED BY <3>1, <3>6, <3>7, <3>8 DEF Binds
  <2> HIDE DEF f
  <2> QED BY <1>2, <2>2, <2>3 DEF BindsAt, t, a, f
<1>7. CASE RisesRight(w, x, p, s, t)
  <2>1. /\ Right(t) = s /\ Middle(t) = b /\ a < b /\ t[2] = d /\ Left(t)[1] = a /\ Left(t)[2] = b
        /\ b - a \in Powers /\ d - b <= b - a
        /\ x.first = NodeHash(p, g) /\ x.second = NodeHash(p, h)
    BY <1>7 DEF RisesRight
  <2>2. Left(t) = <<a, b>>
    BY <2>1 DEF Left
  <2> DEFINE l == <<a, b>>
             u == <<a, f>>
             v == <<b, f>>
  <2>3. a < f /\ f <= t[2] /\ a \in 0 .. f /\ b \in 0 .. f /\ f \in 0 .. f
    <3> HIDE DEF f, a, b, d
    <3> QED BY <1>3, <1>5, <2>1
  <2>4. /\ l \in Slices(leaves) /\ l[1] = a /\ l[2] = b
        /\ u \in Slices(leaves) /\ u[1] = a /\ u[2] = f /\ v \in Slices(leaves)
    <3> HIDE DEF a, b
    <3> QED BY <2>3, SliceIn
  <2>5. Left(u) = l /\ Right(u) = v
    <3> DEFINE z == b - a
    <3>1. a + z < f /\ f <= a + 2 * z /\ a + z = b
      <4> HIDE DEF f, a, b, d
      <4> QED BY <1>3, <1>5, <2>1
    <3>2. z \in Powers
      BY <2>1
    <3> HIDE DEF f, a, b, z
    <3>3. Left(u) = <<a, a + z>> /\ Right(u) = <<a + z, f>>
      BY <1>3, <1>5, <3>1, <3>2, DividesAt
    <3> QED BY <3>1, <3>3
  <2>6. u[2] > u[1] + 1
    <3> HIDE DEF u, a, b, f
    <3> QED BY <1>3, <1>5, <2>1, <2>4
  <2>7. R[u] = NodeHash(R[l], R[v])
    <3> HIDE DEF u, l, v
    <3> QED BY <2>4, <2>5, <2>6, RootTwo
  <2>8. ASSUME x.first = R[u] PROVE Binds(x.second, t, f, leaves)
    <3> SUFFICES ASSUME NEW m \in Nat, NEW data, a <= m, m < f, Vouches(x.second, t, m, data)
                 PROVE  data = leaves[m + 1]
      BY DEF Binds
    <3> DEFINE k == NodeHash(p, h)
               y == R[l]
               z == R[v]
    <3>1. p = y /\ g = z
      <4>1. NodeHash(p, g) = NodeHash(y, z)
        BY <2>1, <2>7, <2>8
      <4> HIDE DEF g, y, z
      <4> QED BY <4>1, NodeBinds
    <3>2. Binds(h, s, f, leaves)
      BY <1>3, <3>1
    <3>3. Vouches(k, t, m, data)
      BY <2>1
    <3> HIDE DEF k
    <3>4. VouchedBelow(k, t, m, data)
      BY <1>5, <3>3, VouchDown
    <3> DEFINE Step(i, j) ==
          \/ m < Middle(t) /\ k = NodeHash(i, j) /\ Vouches(i, Left(t), m, data)
          \/ Middle(t) <= m /\ k = NodeHash(j, i) /\ Vouches(i, Right(t), m, data)
    <3>5. PICK i, j : Step(i, j)
      BY <3>4 DEF VouchedBelow
    <3>6. CASE m < Middle(t) /\ k = NodeHash(i, j) /\ Vouches(i, Left(t), m, data)
      <4>1. i = p
        <5>1. NodeHash(i, j) = NodeHash(p, h)
          BY <3>6 DEF k
        <5> HIDE DEF h
        <5> QED BY <5>1, NodeBinds
      <4>2. Vouches(R[l], l, m, data) /\ m < l[2] /\ l[1] <= m
        BY <2>1, <2>2, <2>4, <3>1, <3>6, <4>1
      <4> HIDE DEF l
      <4> QED BY <2>4, <4>2, VouchBinds
    <3>7. CASE Middle(t) <= m /\ k = NodeHash(j, i) /\ Vouches(i, Right(t), m, data)
      <4>1. i = h
        <5>1. NodeHash(j, i) = NodeHash(p, h)
          BY <3>7 DEF k
        <5> HIDE DEF h
        <5> QED BY <5>1, NodeBinds
      <4>2. Vouches(h, s, m, data) /\ b <= m
        BY <2>1, <3>7, <4>1
      <4> HIDE DEF h
      <4> QED BY <3>2, <4>2 DEF Binds
    <3> QED BY <3>5, <3>6, <3>7
  <2>9. a < f /\ f <= t[2]
    BY <2>3
  <2> HIDE DEF f
  <2> QED BY <1>2, <2>8, <2>9 DEF BindsAt, t, a, f
<1> QED BY <1>4, <1>6, <1>7 DEF Joins

\* At the root, the log's leaves are the only ones vouched for.
LEMMA BindEnd ==
  ASSUME NEW leaves, Len(leaves) \in Nat, NEW w, NEW n \in Nat, w.sn = 0, BindsAt(w, n, leaves),
         w.first = Root(leaves)
  PROVE  Binds(w.second, <<0, n>>, Len(leaves), leaves)
<1> DEFINE f == Len(leaves)
           Start(q) ==
             /\ Stands(w, n, q)
             /\ LET s == Node(w, n, q) IN
                /\ s[1] < f /\ f <= s[2]
                /\ w.first = SliceRoots(leaves)[<<s[1], f>>] => Binds(w.second, s, f, leaves)
<1>1. PICK q \in Powers : Start(q)
  BY DEF BindsAt
<1>2. Node(w, n, q) = <<0, n>>
  BY <1>1, AtTop
<1>3. Node(w, n, q)[1] = 0
  BY <1>2
<1>4. Root(leaves) = SliceRoots(leaves)[<<0, f>>]
  BY DEF Root
<1> HIDE DEF f
<1> QED BY <1>1, <1>2, <1>3, <1>4 DEF f

-----------------------------------------------------------------------------
(* Logs, the anchors taken of them, and bundles. *)

Entry == [install : Installs, record : Records]
IsLog(l) == l \in Seq(Entry)

\* A log is a sequence of entries.
LEMMA LogIs ==
  ASSUME NEW l, IsLog(l)
  PROVE  /\ Len(l) \in Nat /\ DOMAIN l = 1 .. Len(l)
         /\ \A i \in 1 .. Len(l) : l[i] \in Entry
BY DEF IsLog

\* The leaves of a log, one per entry.
LEMMA LeavesAre ==
  ASSUME NEW l, IsLog(l)
  PROVE  /\ Len(Leaves(l)) = Len(l) /\ Len(Leaves(l)) \in Nat /\ DOMAIN Leaves(l) = 1 .. Len(l)
         /\ \A i \in 1 .. Len(l) : Leaves(l)[i] = TreeLeaf(l[i].install, l[i].record)
<1> DEFINE n == Len(l)
           f == Leaves(l)
           T == {f[i] : i \in 1 .. n}
<1>1. n \in Nat /\ DOMAIN l = 1 .. n
  BY LogIs
<1>2. /\ f = [i \in 1 .. n |-> TreeLeaf(l[i].install, l[i].record)]
      /\ DOMAIN f = 1 .. n
      /\ \A i \in 1 .. n : f[i] = TreeLeaf(l[i].install, l[i].record)
  BY <1>1 DEF Leaves
<1> HIDE DEF f, n
<1>3. f \in [1 .. n -> T]
  BY <1>2
<1> HIDE DEF T
<1>4. f \in Seq(T) /\ Len(f) = n
  BY <1>1, <1>3
<1> QED BY <1>1, <1>2, <1>4 DEF f, n

\* The first n entries of a log are a log.
LEMMA SubLog ==
  ASSUME NEW l, IsLog(l), NEW n \in 0 .. Len(l)
  PROVE  LET k == SubSeq(l, 1, n) IN
         IsLog(k) /\ Len(k) = n /\ \A i \in 1 .. n : k[i] = l[i]
<1> DEFINE k == SubSeq(l, 1, n)
<1>1. l \in Seq(Entry) /\ Len(l) \in Nat /\ n \in Nat /\ n <= Len(l)
  BY LogIs DEF IsLog
<1>2. \A i \in 1 .. n : l[i] \in Entry
  BY <1>1
<1> HIDE DEF Entry
<1>3. /\ k \in Seq(Entry) /\ Len(k) = (IF 1 <= n THEN n - 1 + 1 ELSE 0)
      /\ \A i \in 1 .. n - 1 + 1 : k[i] = l[1 + i - 1]
  BY <1>1, <1>2, SubSeqProperties
<1> HIDE DEF k
<1>4. Len(k) = n /\ \A i \in 1 .. n : k[i] = l[i]
  BY <1>1, <1>3
<1> QED BY <1>3, <1>4 DEF IsLog, k

\* The leaves of a shorter log are the first of the longer one's.
LEMMA SubLeaves ==
  ASSUME NEW l, IsLog(l), NEW n \in 1 .. Len(l)
  PROVE  LET a == Leaves(SubSeq(l, 1, n)) IN Len(a) = n /\ Begins(a, Leaves(l))
<1> DEFINE k == SubSeq(l, 1, n)
<1>1. IsLog(k) /\ Len(k) = n /\ (\A i \in 1 .. n : k[i] = l[i]) /\ n \in Nat /\ n <= Len(l)
  <2>1. n \in 0 .. Len(l) /\ n \in Nat /\ n <= Len(l)
    BY LogIs
  <2> QED BY <2>1, SubLog
<1> HIDE DEF k
<1>2. /\ Len(Leaves(k)) = n
      /\ \A i \in 1 .. n : Leaves(k)[i] = TreeLeaf(k[i].install, k[i].record)
  BY <1>1, LeavesAre
<1>3. \A i \in 1 .. n : Leaves(l)[i] = TreeLeaf(l[i].install, l[i].record)
  <2>1. Len(l) \in Nat
    BY LogIs
  <2> QED BY <1>1, <2>1, LeavesAre
<1> QED BY <1>1, <1>2, <1>3 DEF Begins, k

\* A log with one more entry is a log.
LEMMA MoreLog ==
  ASSUME NEW l, IsLog(l), NEW e \in Entry
  PROVE  /\ IsLog(Append(l, e)) /\ Len(Append(l, e)) = Len(l) + 1
         /\ Append(l, e)[Len(l) + 1] = e /\ \A i \in 1 .. Len(l) : Append(l, e)[i] = l[i]
<1> HIDE DEF Entry
<1> QED BY AppendProperties DEF IsLog

IsAnchor(a) ==
  /\ IsLog(a.entries) /\ a.seq \in 1 .. Len(a.entries)
  /\ a.kind = "root" => a.seq = Len(a.entries) /\ a.link = LogRoot(a.entries)
  /\ a.kind = "leaf" => a.link = LeafHash(Leaves(a.entries)[a.seq])

IsClaim(c) ==
  /\ c = [chained |-> c.chained, seq |-> c.seq, prev |-> c.prev, link |-> c.link,
          included |-> c.included, path |-> c.path,
          core |-> c.core, beside |-> c.beside, install |-> c.install, pack |-> c.pack]
  /\ c.seq \in Nat \ {0}
AreClaims(s) == s # << >> /\ \E S : s \in Seq(S) /\ \A c \in S : IsClaim(c)

IsHead(h) == h = [seq |-> h.seq, link |-> h.link, prev |-> h.prev] /\ h.seq \in Nat \ {0}

\* What no leaf is hashed to.
IsNode(h) == \E a, b : h = NodeHash(a, b)

IsGrown(g) ==
  /\ g = [from |-> g.from, root |-> g.root, path |-> g.path]
  /\ \/ g = NoGrowth
     \/ g.from \in Nat \ {0}

AreCoords(A) == IsFiniteSet(A) /\ \A a \in A : a.seq \in Nat \ {0}

IsBundle(b) ==
  /\ b = [keyed |-> b.keyed, producer |-> b.producer, param |-> b.param, claims |-> b.claims,
          head |-> b.head, growth |-> b.growth, anchors |-> b.anchors]
  /\ AreClaims(b.claims) /\ IsHead(b.head) /\ IsGrown(b.growth) /\ AreCoords(b.anchors)

\* A root of more than one leaf is the hash of a node.
LEMMA RootNode ==
  ASSUME NEW leaves, Len(leaves) \in Nat, Len(leaves) > 1
  PROVE  IsNode(Root(leaves))
<1> DEFINE top == <<0, Len(leaves)>>
<1>1. /\ top \in Slices(leaves) /\ top[1] = 0 /\ top[2] = Len(leaves)
      /\ Root(leaves) = SliceRoots(leaves)[top]
  BY TopIs
<1> HIDE DEF top
<1>2. top[2] > top[1] + 1
  BY <1>1
<1>3. Root(leaves) = NodeHash(SliceRoots(leaves)[Left(top)], SliceRoots(leaves)[Right(top)])
  BY <1>1, <1>2, RootTwo
<1> QED BY <1>3 DEF IsNode

\* A disclosed entry is a claim at its own position.
LEMMA DisclosedIs ==
  ASSUME NEW e, IsLog(e), NEW n \in 1 .. Len(e)
  PROVE  IsClaim(Disclosed(e, n)) /\ Disclosed(e, n).seq = n
<1>1. n \in Nat \ {0}
  BY LogIs
<1> QED BY <1>1 DEF IsClaim, Disclosed

\* What a producer states of its growth is well formed.
LEMMA GrowthIs ==
  ASSUME NEW e, IsLog(e), NEW from \in 1 .. Len(e)
  PROVE  IsGrown(Growth(e, from)) /\ Growth(e, from).from = from
<1> DEFINE k == SubSeq(e, 1, from)
           g == Growth(e, from)
<1>1. from \in Nat \ {0} /\ from \in 0 .. Len(e)
  BY LogIs
<1>3. g.from = from /\ g.root = LogRoot(k) /\ g = [from |-> g.from, root |-> g.root, path |-> g.path]
  BY DEF Growth
<1> HIDE DEF k, g
<1>6. IsGrown(g)
  BY <1>1, <1>3 DEF IsGrown
<1> QED BY <1>3, <1>6 DEF g

\* The claims of a bundle are one or more, each at a position from 1.
LEMMA ClaimsAre ==
  ASSUME NEW s, AreClaims(s)
  PROVE  /\ Len(s) \in Nat \ {0} /\ DOMAIN s = 1 .. Len(s)
         /\ \A i \in 1 .. Len(s) : IsClaim(s[i])
<1>1. PICK S : s \in Seq(S) /\ \A c \in S : IsClaim(c)
  BY DEF AreClaims
<1>2. s # << >>
  BY DEF AreClaims
<1>3. Len(s) \in Nat \ {0} /\ DOMAIN s = 1 .. Len(s) /\ \A i \in 1 .. Len(s) : s[i] \in S
  BY <1>1, <1>2, EmptySeq
<1> QED BY <1>1, <1>3

\* A claim exchanged for another leaves claims.
LEMMA ClaimPut ==
  ASSUME NEW s, AreClaims(s), NEW i \in DOMAIN s, NEW c, IsClaim(c)
  PROVE  AreClaims([s EXCEPT ![i] = c])
<1> DEFINE t == [s EXCEPT ![i] = c]
<1>1. PICK S : s \in Seq(S) /\ \A x \in S : IsClaim(x)
  BY DEF AreClaims
<1> DEFINE T == S \union {c}
<1>2. Len(s) \in Nat \ {0} /\ DOMAIN s = 1 .. Len(s) /\ s \in [1 .. Len(s) -> S]
  BY <1>1, ClaimsAre
<1> DEFINE n == Len(s)
<1>3. t \in [1 .. n -> T]
  BY <1>2
<1>4. \A x \in T : IsClaim(x)
  BY <1>1
<1>5. n \in Nat /\ n # 0
  BY <1>2
<1> HIDE DEF t, T, n
<1>6. t \in Seq(T) /\ Len(t) = n
  BY <1>3, <1>5
<1>7. t # << >>
  BY <1>5, <1>6
<1> QED BY <1>4, <1>6, <1>7 DEF AreClaims, t

\* A claim taken out of several leaves claims.
LEMMA ClaimOut ==
  ASSUME NEW s, AreClaims(s), Len(s) > 1, NEW i \in DOMAIN s
  PROVE  AreClaims(RemoveAt(s, i))
<1>1. PICK S : s \in Seq(S) /\ \A x \in S : IsClaim(x)
  BY DEF AreClaims
<1> DEFINE n == Len(s)
           a == SubSeq(s, 1, i - 1)
           b == SubSeq(s, i + 1, n)
<1>2. n \in Nat /\ n > 1 /\ i \in 1 .. n
  BY <1>1
<1>3. a \in Seq(S) /\ Len(a) = i - 1
  <2>1. \A j \in 1 .. i - 1 : s[j] \in S
    BY <1>1, <1>2
  <2>2. a \in Seq(S) /\ Len(a) = (IF 1 <= i - 1 THEN i - 1 - 1 + 1 ELSE 0)
    BY <1>1, <1>2, <2>1, SubSeqProperties
  <2> HIDE DEF a
  <2> QED BY <1>2, <2>2
<1>4. b \in Seq(S) /\ Len(b) = n - i
  <2>1. \A j \in i + 1 .. n : s[j] \in S
    BY <1>1, <1>2
  <2>2. b \in Seq(S) /\ Len(b) = (IF i + 1 <= n THEN n - (i + 1) + 1 ELSE 0)
    BY <1>1, <1>2, <2>1, SubSeqProperties
  <2> HIDE DEF b
  <2> QED BY <1>2, <2>2
<1>5. RemoveAt(s, i) = a \o b
  BY DEF RemoveAt
<1> HIDE DEF a, b, n
<1>6. a \o b \in Seq(S) /\ Len(a \o b) = Len(a) + Len(b)
  BY <1>3, <1>4, ConcatProperties
<1>7. Len(a \o b) # 0
  BY <1>2, <1>3, <1>4, <1>6
<1>8. a \o b # << >>
  BY <1>7
<1> QED BY <1>1, <1>5, <1>6, <1>8 DEF AreClaims

\* A bundle with one member replaced.
LEMMA BundlePut ==
  ASSUME NEW b, IsBundle(b), NEW v
  PROVE  /\ AreClaims(v) => IsBundle([b EXCEPT !.claims = v])
         /\ IsHead(v) => IsBundle([b EXCEPT !.head = v])
         /\ IsGrown(v) => IsBundle([b EXCEPT !.growth = v])
         /\ IsBundle([b EXCEPT !.keyed = v])
         /\ IsBundle([b EXCEPT !.producer = v])
         /\ IsBundle([b EXCEPT !.param = v])
<1> DEFINE Shaped(x) ==
      x = [keyed |-> x.keyed, producer |-> x.producer, param |-> x.param, claims |-> x.claims,
           head |-> x.head, growth |-> x.growth, anchors |-> x.anchors]
<1>1. Shaped(b) /\ AreClaims(b.claims) /\ IsHead(b.head) /\ IsGrown(b.growth) /\ AreCoords(b.anchors)
  BY DEF IsBundle
<1>2. \A x : /\ Shaped(x) /\ AreClaims(x.claims) /\ IsHead(x.head) /\ IsGrown(x.growth)
             /\ AreCoords(x.anchors)
             => IsBundle(x)
  BY DEF IsBundle
<1>3. ASSUME AreClaims(v) PROVE IsBundle([b EXCEPT !.claims = v])
  <2> DEFINE x == [b EXCEPT !.claims = v]
  <2>1. /\ Shaped(x) /\ x.claims = v /\ x.head = b.head /\ x.growth = b.growth
        /\ x.anchors = b.anchors
    BY <1>1
  <2> HIDE DEF x, Shaped
  <2>2. IsBundle(x)
    BY <1>1, <1>2, <1>3, <2>1
  <2> QED BY <2>2 DEF x
<1>4. ASSUME IsHead(v) PROVE IsBundle([b EXCEPT !.head = v])
  <2> DEFINE x == [b EXCEPT !.head = v]
  <2>1. /\ Shaped(x) /\ x.claims = b.claims /\ x.head = v /\ x.growth = b.growth
        /\ x.anchors = b.anchors
    BY <1>1
  <2> HIDE DEF x, Shaped
  <2>2. IsBundle(x)
    BY <1>1, <1>2, <1>4, <2>1
  <2> QED BY <2>2 DEF x
<1>5. ASSUME IsGrown(v) PROVE IsBundle([b EXCEPT !.growth = v])
  <2> DEFINE x == [b EXCEPT !.growth = v]
  <2>1. /\ Shaped(x) /\ x.claims = b.claims /\ x.head = b.head /\ x.growth = v
        /\ x.anchors = b.anchors
    BY <1>1
  <2> HIDE DEF x, Shaped
  <2>2. IsBundle(x)
    BY <1>1, <1>2, <1>5, <2>1
  <2> QED BY <2>2 DEF x
<1>6. ASSUME NEW x, x = [b EXCEPT !.keyed = v] \/ x = [b EXCEPT !.producer = v]
                    \/ x = [b EXCEPT !.param = v]
      PROVE  IsBundle(x)
  <2>1. /\ Shaped(x) /\ x.claims = b.claims /\ x.head = b.head /\ x.growth = b.growth
        /\ x.anchors = b.anchors
    BY <1>1, <1>6
  <2> HIDE DEF Shaped
  <2> QED BY <1>1, <1>2, <2>1
<1> QED BY <1>3, <1>4, <1>5, <1>6

\* A claim with one member replaced.
LEMMA ClaimSet ==
  ASSUME NEW c, IsClaim(c), NEW v
  PROVE  /\ IsClaim([c EXCEPT !.pack = v]) /\ IsClaim([c EXCEPT !.core = v])
         /\ IsClaim([c EXCEPT !.link = v]) /\ IsClaim([c EXCEPT !.prev = v])
         /\ IsClaim([c EXCEPT !.chained = v]) /\ IsClaim([c EXCEPT !.included = v])
         /\ IsClaim([c EXCEPT !.path = v])
         /\ v \in Nat \ {0} => IsClaim([c EXCEPT !.seq = v])
BY DEF IsClaim

\* An edit of one claim.
LEMMA ClaimEdited ==
  ASSUME NEW b, IsBundle(b), NEW i \in DOMAIN b.claims, NEW c, IsClaim(c)
  PROVE  /\ IsBundle([b EXCEPT !.claims[i] = c])
         /\ [b EXCEPT !.claims[i] = c].claims[i] = c
         /\ DOMAIN [b EXCEPT !.claims[i] = c].claims = DOMAIN b.claims
         /\ [b EXCEPT !.claims[i] = c].param = b.param
<1> DEFINE s == [b.claims EXCEPT ![i] = c]
           x == [b EXCEPT !.claims[i] = c]
<1>1. AreClaims(b.claims)
  BY DEF IsBundle
<1>2. AreClaims(s)
  BY <1>1, ClaimPut
<1>3. x = [b EXCEPT !.claims = s]
  OBVIOUS
<1>4. IsBundle(x)
  <2> HIDE DEF s, x
  <2> QED BY <1>2, <1>3, BundlePut
<1>5. x.claims = s /\ x.param = b.param
  BY DEF IsBundle
<1>6. s[i] = c /\ DOMAIN s = DOMAIN b.claims
  OBVIOUS
<1> QED BY <1>4, <1>5, <1>6

\* What an edit may be taken from is a log.
LEMMA HistoryIs ==
  ASSUME IsLog(log), IsLog(source), \A a \in ledger : IsAnchor(a), NEW e \in History
  PROVE  IsLog(e) /\ DOMAIN e = 1 .. Len(e) /\ Len(e) \in Nat
<1>1. IsLog(e)
  BY DEF History, IsAnchor
<1> QED BY <1>1, LogIs

\* What a graft makes of bundle b with anchor a and claim i.
Grafted(b, a, i, x) ==
  LET c == Releafed(b, i).claims[i]
      n == a.seq + 1
  IN  x = [b EXCEPT
        !.claims = <<[c EXCEPT !.seq = n, !.path = <<a.link>>]>>,
        !.head = [seq |-> n, link |-> NodeHash(a.link, c.link), prev |-> NoLink],
        !.growth = [from |-> a.seq, root |-> a.link, path |-> <<c.link>>]]

\* A graft makes nothing else of a file.
LEMMA GraftIs ==
  ASSUME Graft
  PROVE  \E a \in ledger : \E i \in DOMAIN bundle.claims : Grafted(bundle, a, i, bundle')
BY DEF Graft, Grafted

\* A claim with its leaf hash recomputed is a claim.
LEMMA ReleafIs ==
  ASSUME NEW b, IsBundle(b), NEW i \in DOMAIN b.claims
  PROVE  IsBundle(Releafed(b, i)) /\ IsClaim(Releafed(b, i).claims[i])
<1> DEFINE l == LeafHash(TreeLeaf(b.param, b.claims[i]))
           d == [b.claims[i] EXCEPT !.link = l]
<1>1. Releafed(b, i) = [b EXCEPT !.claims[i].link = l]
  BY DEF Releafed
<1> HIDE DEF l
<1>2. Releafed(b, i) = [b EXCEPT !.claims[i] = d]
  BY <1>1
<1>3. IsClaim(b.claims[i])
  BY ClaimsAre DEF IsBundle
<1>4. IsClaim(d)
  BY <1>3, ClaimSet
<1> HIDE DEF d
<1>5. IsBundle([b EXCEPT !.claims[i] = d]) /\ [b EXCEPT !.claims[i] = d].claims[i] = d
  BY <1>4, ClaimEdited
<1> QED BY <1>2, <1>4, <1>5

\* A graft on an anchor of a log is a bundle.
LEMMA GraftedIs ==
  ASSUME NEW b, IsBundle(b), NEW a, IsAnchor(a), NEW i \in DOMAIN b.claims, NEW x, Grafted(b, a, i, x)
  PROVE  IsBundle(x)
<1> DEFINE c == Releafed(b, i).claims[i]
           n == a.seq + 1
           d == [c EXCEPT !.seq = n, !.path = <<a.link>>]
           h == [seq |-> n, link |-> NodeHash(a.link, c.link), prev |-> NoLink]
           g == [from |-> a.seq, root |-> a.link, path |-> <<c.link>>]
<1>1. a.seq \in Nat \ {0} /\ n \in Nat \ {0}
  BY LogIs DEF IsAnchor
<1>2. IsClaim(c)
  BY ReleafIs
<1>3. x = [b EXCEPT !.claims = <<d>>, !.head = h, !.growth = g]
  BY DEF Grafted
<1>4. IsHead(h) /\ IsGrown(g)
  BY <1>1 DEF IsHead, IsGrown
<1>5. IsClaim(d)
  <2> DEFINE p == <<a.link>>
             j == [c EXCEPT !.seq = n]
  <2>1. d = [j EXCEPT !.path = p]
    OBVIOUS
  <2> HIDE DEF c, n, p, d
  <2>2. IsClaim(j)
    BY <1>1, <1>2, ClaimSet
  <2> HIDE DEF j
  <2> QED BY <2>1, <2>2, ClaimSet
<1> HIDE DEF c, n, d, h, g
<1>6. AreClaims(<<d>>)
  <2> DEFINE s == <<d>>
             S == {d}
  <2>1. s \in Seq(S) /\ s # << >>
    OBVIOUS
  <2>2. \A k \in S : IsClaim(k)
    BY <1>5
  <2> HIDE DEF s, S
  <2>3. AreClaims(s)
    BY <2>1, <2>2 DEF AreClaims
  <2> QED BY <2>3 DEF s
<1> DEFINE y == [b EXCEPT !.claims = <<d>>]
           z == [y EXCEPT !.head = h]
<1>7. IsBundle(y)
  BY <1>6, BundlePut
<1>8. x = [z EXCEPT !.growth = g]
  BY <1>3
<1> HIDE DEF y
<1>9. IsBundle(z)
  BY <1>4, <1>7, BundlePut
<1> HIDE DEF z
<1> QED BY <1>4, <1>8, <1>9, BundlePut

\* Whatever becomes of a file, it is a bundle.
LEMMA EditedIs ==
  ASSUME IsLog(log), IsLog(source), \A a \in ledger : IsAnchor(a), IsBundle(bundle), Edit
  PROVE  IsBundle(bundle')
<1> DEFINE b == bundle
<1>0. /\ AreClaims(b.claims) /\ IsHead(b.head) /\ IsGrown(b.growth)
      /\ \A i \in DOMAIN b.claims : IsClaim(b.claims[i])
  BY ClaimsAre DEF IsBundle
<1>1. CASE Repackage
  <2>1. PICK i \in DOMAIN b.claims, pack \in Pack : bundle' = [b EXCEPT !.claims[i].pack = pack]
    BY <1>1 DEF Repackage
  <2>2. bundle' = [b EXCEPT !.claims[i] = [b.claims[i] EXCEPT !.pack = pack]]
    BY <2>1
  <2>3. IsClaim([b.claims[i] EXCEPT !.pack = pack])
    BY <1>0, ClaimSet
  <2> QED BY <2>2, <2>3, ClaimEdited
<1>2. CASE AlterClaim
  <2> DEFINE Step(i, core) ==
        bundle' \in {[b EXCEPT !.claims[i].core = core], Releafed([b EXCEPT !.claims[i].core = core], i)}
  <2>1. PICK i \in DOMAIN b.claims : \E core \in Core : Step(i, core)
    BY <1>2 DEF AlterClaim
  <2>2. PICK core \in Core : Step(i, core)
    BY <2>1
  <2> DEFINE c == [b.claims[i] EXCEPT !.core = core]
             x == [b EXCEPT !.claims[i] = c]
  <2>3. x = [b EXCEPT !.claims[i].core = core]
    OBVIOUS
  <2>4. IsClaim(c)
    BY <1>0, ClaimSet
  <2> HIDE DEF c
  <2>5. IsBundle(x) /\ x.claims[i] = c /\ i \in DOMAIN x.claims
    BY <2>4, ClaimEdited
  <2>6. bundle' = x \/ bundle' = Releafed(x, i)
    BY <2>2, <2>3
  <2> HIDE DEF x
  <2>7. IsBundle(Releafed(x, i))
    <3> DEFINE l == LeafHash(TreeLeaf(x.param, x.claims[i]))
               d == [c EXCEPT !.link = l]
    <3>1. Releafed(x, i) = [x EXCEPT !.claims[i].link = l]
      BY DEF Releafed
    <3> HIDE DEF l
    <3>2. Releafed(x, i) = [x EXCEPT !.claims[i] = d]
      BY <2>5, <3>1
    <3>3. IsClaim(d)
      BY <2>4, ClaimSet
    <3> HIDE DEF d
    <3> QED BY <2>5, <3>2, <3>3, ClaimEdited
  <2> QED BY <2>5, <2>6, <2>7
<1>3. CASE MoveClaim
  <2>1. PICK i \in DOMAIN b.claims :
          \/ \E n \in 1 .. MaxLog + 1 : bundle' = [b EXCEPT !.claims[i].seq = n]
          \/ bundle' = [b EXCEPT !.claims[i].prev = StrayHash]
          \/ bundle' = [b EXCEPT !.claims[i].chained = FALSE]
          \/ bundle' = [b EXCEPT !.claims[i].included = FALSE]
    BY <1>3 DEF MoveClaim
  <2> DEFINE c == b.claims[i]
  <2>2. IsClaim(c)
    BY <1>0
  <2>3. \A n \in 1 .. MaxLog + 1 : n \in Nat \ {0}
    BY TreeBoundsAssumption
  <2>4. PICK d : IsClaim(d) /\ bundle' = [b EXCEPT !.claims[i] = d]
    <3>1. ASSUME NEW n \in 1 .. MaxLog + 1, bundle' = [b EXCEPT !.claims[i].seq = n]
          PROVE  \E d : IsClaim(d) /\ bundle' = [b EXCEPT !.claims[i] = d]
      <4>1. IsClaim([c EXCEPT !.seq = n])
        BY <2>2, <2>3, ClaimSet
      <4>2. bundle' = [b EXCEPT !.claims[i] = [c EXCEPT !.seq = n]]
        BY <3>1
      <4> QED BY <4>1, <4>2
    <3>2. ASSUME bundle' = [b EXCEPT !.claims[i].prev = StrayHash]
          PROVE  \E d : IsClaim(d) /\ bundle' = [b EXCEPT !.claims[i] = d]
      <4>1. IsClaim([c EXCEPT !.prev = StrayHash])
        BY <2>2, ClaimSet
      <4>2. bundle' = [b EXCEPT !.claims[i] = [c EXCEPT !.prev = StrayHash]]
        BY <3>2
      <4> QED BY <4>1, <4>2
    <3>3. ASSUME bundle' = [b EXCEPT !.claims[i].chained = FALSE]
          PROVE  \E d : IsClaim(d) /\ bundle' = [b EXCEPT !.claims[i] = d]
      <4>1. IsClaim([c EXCEPT !.chained = FALSE])
        BY <2>2, ClaimSet
      <4>2. bundle' = [b EXCEPT !.claims[i] = [c EXCEPT !.chained = FALSE]]
        BY <3>3
      <4> QED BY <4>1, <4>2
    <3>4. ASSUME bundle' = [b EXCEPT !.claims[i].included = FALSE]
          PROVE  \E d : IsClaim(d) /\ bundle' = [b EXCEPT !.claims[i] = d]
      <4>1. IsClaim([c EXCEPT !.included = FALSE])
        BY <2>2, ClaimSet
      <4>2. bundle' = [b EXCEPT !.claims[i] = [c EXCEPT !.included = FALSE]]
        BY <3>4
      <4> QED BY <4>1, <4>2
    <3> HIDE DEF c
    <3> QED BY <2>1, <3>1, <3>2, <3>3, <3>4
  <2> QED BY <2>4, ClaimEdited
<1>4. CASE SpliceClaim
  <2> DEFINE Step(i, e, n) ==
        bundle' \in {[b EXCEPT !.claims[i] = Disclosed(e, n)],
                     [b EXCEPT !.claims[i].path = Disclosed(e, n).path]}
  <2>1. PICK i \in DOMAIN b.claims, e \in History : \E n \in DOMAIN e : Step(i, e, n)
    BY <1>4 DEF SpliceClaim
  <2>2. PICK n \in DOMAIN e : Step(i, e, n)
    BY <2>1
  <2> DEFINE c == Disclosed(e, n)
             q == c.path
  <2>3. IsClaim(c)
    <3>1. IsLog(e) /\ n \in 1 .. Len(e)
      BY HistoryIs
    <3> QED BY <3>1, DisclosedIs
  <2>4. IsClaim([b.claims[i] EXCEPT !.path = q])
    BY <1>0, ClaimSet
  <2> HIDE DEF c, q
  <2>5. \/ bundle' = [b EXCEPT !.claims[i] = c]
        \/ bundle' = [b EXCEPT !.claims[i] = [b.claims[i] EXCEPT !.path = q]]
    BY <2>2 DEF c, q
  <2> QED BY <2>3, <2>4, <2>5, ClaimEdited
<1>5. CASE DropClaim
  <2>1. PICK i \in DOMAIN b.claims : bundle' = [b EXCEPT !.claims = RemoveAt(@, i)]
    BY <1>5 DEF DropClaim
  <2> DEFINE s == RemoveAt(b.claims, i)
  <2>2. AreClaims(s)
    <3>1. Len(b.claims) > 1
      BY <1>5 DEF DropClaim
    <3> QED BY <1>0, <3>1, ClaimOut
  <2>3. bundle' = [b EXCEPT !.claims = s]
    BY <2>1
  <2> HIDE DEF s
  <2> QED BY <2>2, <2>3, BundlePut
<1>6. CASE SetHead
  <2>1. \A n \in 1 .. MaxLog + 1 : n \in Nat \ {0}
    BY TreeBoundsAssumption
  <2>2. \A e \in History \ {<< >>} : Len(e) \in Nat \ {0}
    BY HistoryIs, EmptySeq DEF IsLog
  <2>3. \/ \E n \in 1 .. MaxLog + 1 : bundle' = [b EXCEPT !.head.seq = n]
        \/ \E e \in History \ {<< >>} :
             bundle' = [b EXCEPT !.head.link = LogRoot(e), !.head.seq = Len(e)]
        \/ bundle' = [b EXCEPT !.head.prev = StrayHash]
    BY <1>6 DEF SetHead
  <2> DEFINE h == b.head
  <2>4. h = [seq |-> h.seq, link |-> h.link, prev |-> h.prev] /\ h.seq \in Nat \ {0}
    BY <1>0 DEF IsHead
  <2>5. ASSUME NEW n \in 1 .. MaxLog + 1, bundle' = [b EXCEPT !.head.seq = n]
        PROVE  IsBundle(bundle')
    <3> DEFINE k == [h EXCEPT !.seq = n]
    <3>1. bundle' = [b EXCEPT !.head = k]
      BY <2>5
    <3>2. IsHead(k)
      BY <2>1, <2>4 DEF IsHead
    <3> HIDE DEF k
    <3> QED BY <3>1, <3>2, BundlePut
  <2>6. ASSUME NEW e \in History \ {<< >>},
               bundle' = [b EXCEPT !.head.link = LogRoot(e), !.head.seq = Len(e)]
        PROVE  IsBundle(bundle')
    <3> DEFINE l == LogRoot(e)
               n == Len(e)
    <3>1. n \in Nat \ {0}
      BY <2>2
    <3>2. bundle' = [b EXCEPT !.head.link = l, !.head.seq = n]
      BY <2>6
    <3> HIDE DEF l, n
    <3> DEFINE k == [h EXCEPT !.link = l, !.seq = n]
    <3>3. bundle' = [b EXCEPT !.head = k]
      BY <3>2 DEF IsBundle
    <3>4. IsHead(k)
      <4> HIDE DEF h
      <4> DEFINE i == [h EXCEPT !.link = l]
                 j == [i EXCEPT !.seq = n]
      <4>1. k = j
        OBVIOUS
      <4>2. i = [seq |-> i.seq, link |-> i.link, prev |-> i.prev]
        BY <2>4
      <4> HIDE DEF i
      <4>3. j.seq = n /\ j = [seq |-> j.seq, link |-> j.link, prev |-> j.prev]
        BY <4>2
      <4> HIDE DEF j, k
      <4> QED BY <3>1, <4>1, <4>3 DEF IsHead
    <3> HIDE DEF k
    <3> QED BY <3>3, <3>4, BundlePut
  <2>7. ASSUME bundle' = [b EXCEPT !.head.prev = StrayHash]
        PROVE  IsBundle(bundle')
    <3> DEFINE k == [h EXCEPT !.prev = StrayHash]
    <3>1. bundle' = [b EXCEPT !.head = k]
      BY <2>7
    <3>2. IsHead(k)
      BY <2>4 DEF IsHead
    <3> HIDE DEF k
    <3> QED BY <3>1, <3>2, BundlePut
  <2> QED BY <2>3, <2>5, <2>6, <2>7
<1>7. CASE SetGrowth
  <2> DEFINE Step(e, from) ==
        bundle' \in {[b EXCEPT !.growth = Growth(e, from)],
                     [b EXCEPT !.growth = [b.growth EXCEPT !.from = Growth(e, from).from,
                                                           !.root = Growth(e, from).root]]}
  <2>1. \/ \E e \in History : \E from \in DOMAIN e : Step(e, from)
        \/ bundle' = [b EXCEPT !.growth = NoGrowth]
    BY <1>7 DEF SetGrowth
  <2>2. IsGrown(NoGrowth)
    BY DEF IsGrown, NoGrowth
  <2>3. ASSUME NEW e \in History, NEW from \in DOMAIN e, Step(e, from) PROVE IsBundle(bundle')
    <3> DEFINE g == Growth(e, from)
               old == b.growth
               k == [old EXCEPT !.from = g.from, !.root = g.root]
    <3>1. IsGrown(g) /\ g.from = from /\ from \in Nat \ {0}
      <4>1. IsLog(e) /\ from \in 1 .. Len(e) /\ Len(e) \in Nat
        BY HistoryIs
      <4> QED BY <4>1, GrowthIs
    <3>2. bundle' = [b EXCEPT !.growth = g] \/ bundle' = [b EXCEPT !.growth = k]
      BY <2>3
    <3> HIDE DEF g
    <3>4. IsGrown(k)
      <4>1. old = [from |-> old.from, root |-> old.root, path |-> old.path]
        BY <1>0 DEF IsGrown
      <4> HIDE DEF old
      <4> DEFINE u == g.from
                 v == g.root
                 j == [old EXCEPT !.from = u]
                 i == [j EXCEPT !.root = v]
      <4>3. k = i
        OBVIOUS
      <4> HIDE DEF u, v
      <4>4. j.from = u /\ j.path = old.path /\ j = [from |-> j.from, root |-> j.root, path |-> j.path]
        BY <4>1
      <4> HIDE DEF j
      <4>2. i.from = u /\ i.root = v /\ i = [from |-> i.from, root |-> i.root, path |-> i.path]
        BY <4>4
      <4> HIDE DEF i, k
      <4>5. IsGrown(i)
        BY <3>1, <4>2 DEF IsGrown, u, v
      <4> QED BY <4>3, <4>5
    <3> HIDE DEF k
    <3>5. IsBundle([b EXCEPT !.growth = g]) /\ IsBundle([b EXCEPT !.growth = k])
      <4> HIDE DEF b
      <4> QED BY <3>1, <3>4, BundlePut DEF b
    <3> QED BY <3>2, <3>5
  <2> HIDE DEF Step
  <2>4. ASSUME bundle' = [b EXCEPT !.growth = NoGrowth] PROVE IsBundle(bundle')
    BY <2>2, <2>4, BundlePut
  <2> QED BY <2>1, <2>3, <2>4
<1>8. CASE Relabel
  <2>1. \/ bundle' = [b EXCEPT !.keyed = ~@]
        \/ \E install \in Installs : \E param \in {b.param, install, NoInstall} :
             bundle' = [b EXCEPT !.producer = install, !.param = param]
    BY <1>8 DEF Relabel
  <2>2. ASSUME bundle' = [b EXCEPT !.keyed = ~@] PROVE IsBundle(bundle')
    <3> DEFINE v == ~b.keyed
    <3>1. bundle' = [b EXCEPT !.keyed = v]
      BY <2>2
    <3> HIDE DEF v
    <3> QED BY <3>1, BundlePut
  <2>3. ASSUME NEW u, NEW v, bundle' = [b EXCEPT !.producer = u, !.param = v] PROVE IsBundle(bundle')
    <3> DEFINE x == [b EXCEPT !.producer = u]
    <3>1. bundle' = [x EXCEPT !.param = v]
      BY <2>3
    <3>2. IsBundle(x)
      BY BundlePut
    <3> HIDE DEF x
    <3> QED BY <3>1, <3>2, BundlePut
  <2> QED BY <2>1, <2>2, <2>3
<1>9. CASE Graft
  <2>1. PICK a \in ledger : \E i \in DOMAIN b.claims : Grafted(b, a, i, bundle')
    BY <1>9, GraftIs
  <2>2. PICK i \in DOMAIN b.claims : Grafted(b, a, i, bundle')
    BY <2>1
  <2>3. IsAnchor(a)
    OBVIOUS
  <2> HIDE DEF b
  <2> QED BY <2>2, <2>3, GraftedIs DEF b
<1> QED BY <1>1, <1>2, <1>3, <1>4, <1>5, <1>6, <1>7, <1>8, <1>9 DEF Edit

-----------------------------------------------------------------------------
(* What is kept of the data: logs, anchors that say what was recorded, a   *)
(* bundle once there is one.                                               *)

\* A bundle as it was cut from a log.
Honest(b, e) ==
  /\ b.keyed = FALSE /\ b.param = b.producer /\ b.param # NoInstall
  /\ b.head = [seq |-> Len(e), link |-> LogRoot(e), prev |-> NoLink]
  /\ b.growth = NoGrowth \/ \E from \in 1 .. Len(e) : b.growth = Growth(e, from)
  /\ \A i \in DOMAIN b.claims :
       /\ b.claims[i].seq \in 1 .. Len(e)
       /\ b.claims[i] = Disclosed(e, b.claims[i].seq)
       /\ e[b.claims[i].seq].install = b.param
  /\ \A i, j \in DOMAIN b.claims : i < j => b.claims[i].seq < b.claims[j].seq

DataInv ==
  /\ IsLog(log) /\ Len(log) <= MaxLog /\ \A i \in DOMAIN log : log[i].install = Owner
  /\ IsLog(source)
  /\ restores \in 0 .. MaxRestores /\ edits \in 0 .. MaxEdits
  /\ IsFiniteSet(ledger) /\ Cardinality(ledger) <= MaxAnchors /\ \A a \in ledger : IsAnchor(a)
  /\ phase # "idle" => IsBundle(bundle) /\ source # << >>
  /\ phase # "idle" /\ edits = 0 => Honest(bundle, source)

\* The verifier changes no data.
LEMMA RunReads ==
  ASSUME VerifyTree
  PROVE  /\ bundle' = bundle /\ phase \in TreeWalking /\ phase' \in TreeWalking \union {"done"}
         /\ phase # "idle" /\ phase' # "idle" /\ phase # "transit" /\ phase' # "transit"
         /\ phase' # "declared" /\ phase # "done"
<1>1. CASE CheckDeclaration
  BY <1>1 DEF CheckDeclaration, TreeFail, TreeGoto, TreeWalking
<1>2. CASE CheckClaim
  BY <1>2 DEF CheckClaim, TreeFail, TreeGoto, TreeWalking
<1>3. CASE FoldClaim
  BY <1>3 DEF FoldClaim, FoldHash, TreeFail, TreeGoto, TreeWalking
<1>4. CASE CheckGrowth
  BY <1>4 DEF CheckGrowth, TreeFail, TreeGoto, TreeWalking
<1>5. CASE FoldGrowth
  BY <1>5 DEF FoldGrowth, FoldHash, TreeFail, TreeGoto, TreeWalking
<1>6. CASE CheckTreeAnchors
  BY <1>6 DEF CheckTreeAnchors, TreeWalking
<1> QED BY <1>1, <1>2, <1>3, <1>4, <1>5, <1>6 DEF VerifyTree

\* It holds at the start, and every action keeps it.
LEMMA DataStart == Init => DataInv
<1> SUFFICES ASSUME Init PROVE DataInv
  OBVIOUS
<1>1. /\ log = << >> /\ source = << >> /\ ledger = {} /\ restores = 0 /\ edits = 0 /\ phase = "idle"
  BY DEF Init
<1>2. IsFiniteSet({}) /\ Cardinality({}) = 0
  BY FS_EmptySet
<1>3. IsLog(<< >>) /\ Len(<< >>) = 0 /\ DOMAIN << >> = {}
  <2> HIDE DEF Entry
  <2> QED BY DEF IsLog
<1> QED BY <1>1, <1>2, <1>3, TreeBoundsAssumption DEF DataInv

\* A record appended is an entry of the owner's.
LEMMA DataAppended == DataInv /\ Append1 => DataInv'
<1> SUFFICES ASSUME DataInv, Append1 PROVE DataInv'
  OBVIOUS
<1>1. PICK r \in Records : log' = Append(log, [install |-> Owner, record |-> r])
  BY DEF Append1
<1> DEFINE e == [install |-> Owner, record |-> r]
           n == Len(log)
<1>2. e \in Entry /\ e.install = Owner
  BY TreeOwnerAssumption DEF Entry
<1>3. IsLog(log) /\ n \in Nat /\ n < MaxLog /\ DOMAIN log = 1 .. n
  BY LogIs DEF DataInv, Append1
<1> HIDE DEF e
<1>4. /\ IsLog(log') /\ Len(log') = n + 1 /\ log'[n + 1] = e /\ \A i \in 1 .. n : log'[i] = log[i]
  BY <1>1, <1>2, <1>3, MoreLog DEF e
<1>5. DOMAIN log' = 1 .. n + 1
  BY <1>4, LogIs
<1>6. \A i \in DOMAIN log' : log'[i].install = Owner
  <2>1. \A i \in 1 .. n + 1 : i \in 1 .. n \/ i = n + 1
    BY <1>3
  <2>2. \A i \in 1 .. n : log[i].install = Owner
    BY <1>3 DEF DataInv
  <2> QED BY <1>2, <1>4, <1>5, <2>1, <2>2
<1>7. Len(log') <= MaxLog
  <2> HIDE DEF n
  <2> QED BY <1>3, <1>4, TreeBoundsAssumption
<1>8. UNCHANGED <<ledger, restores, edits, source, bundle, phase>>
  BY DEF Append1, treeVars, fileVars, runVars
<1> QED BY <1>4, <1>6, <1>7, <1>8 DEF DataInv

\* An earlier log is a log of the owner's.
LEMMA DataRestored == DataInv /\ Restore => DataInv'
<1> SUFFICES ASSUME DataInv, Restore PROVE DataInv'
  OBVIOUS
<1>1. PICK n \in 0 .. Len(log) - 1 : log' = SubSeq(log, 1, n)
  BY DEF Restore
<1>2. IsLog(log) /\ Len(log) \in Nat /\ DOMAIN log = 1 .. Len(log) /\ n \in 0 .. Len(log) /\ Len(log) <= MaxLog
  BY LogIs DEF DataInv
<1>3. IsLog(log') /\ Len(log') = n /\ \A i \in 1 .. n : log'[i] = log[i]
  BY <1>1, <1>2, SubLog
<1>4. DOMAIN log' = 1 .. n
  BY <1>3, LogIs
<1>5. \A i \in DOMAIN log' : log'[i].install = Owner
  BY <1>2, <1>3, <1>4 DEF DataInv
<1>6. UNCHANGED <<ledger, edits, source, bundle, phase>> /\ restores' \in 0 .. MaxRestores
  BY TreeBoundsAssumption DEF DataInv, Restore, treeVars, fileVars, runVars
<1>7. Len(log') <= MaxLog
  BY <1>2, <1>3, TreeBoundsAssumption
<1> QED BY <1>3, <1>5, <1>6, <1>7 DEF DataInv

\* What a third party records says what the log held.
LEMMA DataRecorded ==
  ASSUME DataInv, NEW kind, NEW n, NEW link, Recorded(kind, n, link),
         IsAnchor([kind |-> kind, seq |-> n, link |-> link, entries |-> log])
  PROVE  DataInv'
<1> DEFINE a == [kind |-> kind, seq |-> n, link |-> link, entries |-> log]
<1>1. /\ ledger' = ledger \union {a} /\ Cardinality(ledger) < MaxAnchors
      /\ UNCHANGED <<log, restores, edits, source, bundle, phase>>
  BY DEF Recorded, treeVars, fileVars, runVars
<1>2. IsAnchor(a)
  OBVIOUS
<1> HIDE DEF a
<1>3. /\ IsFiniteSet(ledger') /\ Cardinality(ledger') \in {Cardinality(ledger), Cardinality(ledger) + 1}
      /\ Cardinality(ledger) \in Nat
  <2>1. IsFiniteSet(ledger)
    BY DEF DataInv
  <2> QED BY <1>1, <2>1, FS_AddElement, FS_CardinalityType
<1>4. Cardinality(ledger') <= MaxAnchors
  <2> DEFINE c == Cardinality(ledger)
             d == Cardinality(ledger')
  <2> HIDE DEF c, d
  <2>1. c \in Nat /\ d \in {c, c + 1} /\ c < MaxAnchors
    BY <1>1, <1>3 DEF c, d
  <2>2. d <= MaxAnchors
    BY <2>1, TreeBoundsAssumption
  <2> QED BY <2>2 DEF d
<1>5. \A x \in ledger' : IsAnchor(x)
  BY <1>1, <1>2 DEF DataInv
<1> QED BY <1>1, <1>3, <1>4, <1>5 DEF DataInv

\* Recording a root keeps the data.
LEMMA RootAnchored == DataInv /\ AnchorRoot => DataInv'
<1> SUFFICES ASSUME DataInv, AnchorRoot PROVE DataInv'
  OBVIOUS
<1> DEFINE n == Len(log)
           l == LogRoot(log)
           a == [kind |-> "root", seq |-> n, link |-> l, entries |-> log]
<1>1. Recorded("root", n, l) /\ log # << >> /\ IsLog(log)
  BY DEF AnchorRoot, DataInv
<1>2. n \in 1 .. n
  BY <1>1, EmptySeq DEF IsLog
<1>3. /\ a.kind = "root" /\ a.seq = n /\ a.link = l /\ a.entries = log
  OBVIOUS
<1>4. IsAnchor(a)
  <2> HIDE DEF a
  <2> QED BY <1>1, <1>2, <1>3 DEF IsAnchor
<1> HIDE DEF n, l
<1> QED BY <1>1, <1>4, DataRecorded

\* Recording a leaf keeps the data.
LEMMA LeafAnchored == DataInv /\ AnchorLeaf => DataInv'
<1> SUFFICES ASSUME DataInv, AnchorLeaf PROVE DataInv'
  OBVIOUS
<1>1. PICK n \in DOMAIN log : Recorded("leaf", n, LeafHash(Leaves(log)[n]))
  BY DEF AnchorLeaf
<1> DEFINE l == LeafHash(Leaves(log)[n])
           a == [kind |-> "leaf", seq |-> n, link |-> l, entries |-> log]
<1>2. IsLog(log) /\ n \in 1 .. Len(log)
  BY LogIs DEF DataInv
<1>3. /\ a.kind = "leaf" /\ a.seq = n /\ a.link = l /\ a.entries = log
  OBVIOUS
<1>4. IsAnchor(a)
  <2> HIDE DEF a
  <2> QED BY <1>2, <1>3 DEF IsAnchor
<1> HIDE DEF l
<1> QED BY <1>1, <1>4, DataRecorded DEF l

\* The positions a bundle is cut at.
InTurn(s, n) ==
  /\ Len(s) \in Nat \ {0} /\ DOMAIN s = 1 .. Len(s)
  /\ \A i \in DOMAIN s : s[i] \in 1 .. n
  /\ \A i, j \in DOMAIN s : i < j => s[i] < s[j]

\* The positions shown are positions, in order.
LEMMA ShownIs ==
  ASSUME NEW n \in Nat, NEW s \in Shown(n)
  PROVE  InTurn(s, n)
<1>1. PICK k \in 1 .. MaxShown : s \in [1 .. k -> 1 .. n]
  BY DEF Shown
<1>2. k \in Nat \ {0}
  BY TreeBoundsAssumption
<1>3. Len(s) = k
  BY <1>1, <1>2
<1>4. \A i, j \in DOMAIN s : i < j => s[i] < s[j]
  BY DEF Shown
<1> QED BY <1>1, <1>2, <1>3, <1>4 DEF InTurn

\* A bundle cut from a log is well formed and honest.
LEMMA CutIs ==
  ASSUME DataInv, NEW e, IsLog(e), e # << >>, NEW s, InTurn(s, Len(e)), NEW from \in 0 .. Len(e),
         NEW install \in Installs, \A i \in DOMAIN s : e[s[i]].install = install,
         Cut(install, e, s, from)
  PROVE  DataInv'
<1> DEFINE n == Len(e)
           head == [seq |-> n, link |-> LogRoot(e), prev |-> NoLink]
           g == IF from = 0 THEN NoGrowth ELSE Growth(e, from)
           cs == [i \in DOMAIN s |-> Disclosed(e, s[i])]
           A == {Coords(a) : a \in ledger} \union {Coords(head)}
           b == bundle'
<1>1. PICK anchors \in SUBSET A :
        b = [keyed |-> FALSE, producer |-> install, param |-> install,
             claims |-> cs, head |-> head, growth |-> g, anchors |-> anchors]
  BY DEF Cut
<1>2. n \in Nat \ {0}
  BY EmptySeq DEF IsLog
<1>3. IsHead(head) /\ Coords(head).seq = n
  BY <1>2 DEF IsHead, Coords
<1>4. g = NoGrowth \/ \E f \in 1 .. n : g = Growth(e, f)
  <2>1. from # 0 => from \in 1 .. n
    BY <1>2
  <2> QED BY <2>1
<1>5. IsGrown(g)
  <2>1. IsGrown(NoGrowth)
    BY DEF IsGrown, NoGrowth
  <2> HIDE DEF g
  <2> QED BY <1>4, <2>1, GrowthIs
<1>6. AreCoords(anchors)
  <2> DEFINE B == {Coords(a) : a \in ledger}
  <2>1. IsFiniteSet(ledger) /\ \A a \in ledger : IsAnchor(a)
    BY DEF DataInv
  <2>2. IsFiniteSet(B)
    <3>1. [a \in ledger |-> Coords(a)] \in Surjection(ledger, B)
      BY DEF Surjection
    <3> HIDE DEF B
    <3> QED BY <2>1, <3>1, FS_Surjection
  <2>3. \A x \in B : x.seq \in Nat \ {0}
    <3> SUFFICES ASSUME NEW a \in ledger PROVE Coords(a).seq \in Nat \ {0}
      OBVIOUS
    <3>1. a.seq \in Nat \ {0}
      BY <2>1, LogIs DEF IsAnchor
    <3> QED BY <3>1 DEF Coords
  <2> HIDE DEF B
  <2>4. IsFiniteSet(A) /\ \A x \in A : x.seq \in Nat \ {0}
    <3>1. A = B \union {Coords(head)}
      BY DEF B
    <3> HIDE DEF A, head
    <3> QED BY <1>2, <1>3, <2>2, <2>3, <3>1, FS_AddElement
  <2> HIDE DEF A
  <2> QED BY <2>4, FS_Subset DEF AreCoords
<1>7. /\ DOMAIN cs = 1 .. Len(s) /\ Len(s) \in Nat \ {0} /\ DOMAIN s = 1 .. Len(s)
      /\ \A i \in DOMAIN cs : cs[i] = Disclosed(e, s[i]) /\ s[i] \in 1 .. n
      /\ \A i \in DOMAIN cs : cs[i].seq = s[i] /\ IsClaim(cs[i])
  <2>1. DOMAIN s = 1 .. Len(s) /\ Len(s) \in Nat \ {0} /\ \A i \in DOMAIN s : s[i] \in 1 .. n
    BY DEF InTurn
  <2>2. \A k \in 1 .. n : IsClaim(Disclosed(e, k)) /\ Disclosed(e, k).seq = k
    BY DisclosedIs
  <2> HIDE DEF n
  <2> QED BY <2>1, <2>2
<1>8. AreClaims(cs)
  <2> DEFINE S == {cs[i] : i \in DOMAIN cs}
             k == Len(s)
  <2>1. cs \in [1 .. k -> S] /\ k \in Nat /\ k # 0
    BY <1>7
  <2>2. \A c \in S : IsClaim(c)
    BY <1>7
  <2> HIDE DEF S, cs, k
  <2>3. cs \in Seq(S) /\ Len(cs) = k
    BY <2>1
  <2>4. cs # << >>
    BY <2>1, <2>3
  <2> QED BY <2>2, <2>3, <2>4 DEF AreClaims
<1>9. IsBundle(b)
  <2> HIDE DEF cs, head, g, A
  <2> QED BY <1>1, <1>3, <1>5, <1>6, <1>8 DEF IsBundle
<1>10. Honest(b, e)
  <2>1. /\ b.keyed = FALSE /\ b.param = install /\ b.producer = install /\ b.claims = cs
        /\ b.head = head /\ b.growth = g
    BY <1>1
  <2>2. install # NoInstall
    BY InstallAssumption
  <2>3. \A i \in DOMAIN cs : e[s[i]].install = install
    BY <1>7
  <2>4. \A i, j \in DOMAIN cs : i < j => cs[i].seq < cs[j].seq
    <3>1. \A i, j \in DOMAIN s : i < j => s[i] < s[j]
      BY DEF InTurn
    <3> HIDE DEF cs
    <3> QED BY <1>7, <3>1
  <2>5. \A i \in DOMAIN cs : /\ cs[i].seq \in 1 .. n /\ cs[i] = Disclosed(e, cs[i].seq)
                             /\ e[cs[i].seq].install = install
    <3> HIDE DEF cs
    <3> QED BY <1>7, <2>3
  <2> HIDE DEF b, cs, head, g
  <2> QED BY <1>4, <2>1, <2>2, <2>4, <2>5 DEF Honest, head
<1>11. /\ UNCHANGED <<log, ledger, restores>> /\ source' = e /\ edits' = 0 /\ phase' = "transit"
  BY DEF Cut, producerVars
<1> HIDE DEF b
<1> QED BY <1>9, <1>10, <1>11, TreeBoundsAssumption DEF DataInv, b

\* An export keeps the data.
LEMMA Exported == DataInv /\ Export => DataInv'
<1> SUFFICES ASSUME DataInv, Export PROVE DataInv'
  OBVIOUS
<1> DEFINE Step(n, s, f) == Cut(Owner, SubSeq(log, 1, n), s, f)
<1>1. PICK n \in DOMAIN log : \E s \in Shown(n), f \in 0 .. n : Step(n, s, f)
  BY DEF Export
<1>2. PICK s \in Shown(n), f \in 0 .. n : Step(n, s, f)
  BY <1>1
<1> DEFINE e == SubSeq(log, 1, n)
<1>3. IsLog(log) /\ n \in 1 .. Len(log) /\ n \in 0 .. Len(log) /\ n \in Nat /\ n # 0
  BY LogIs DEF DataInv
<1>4. IsLog(e) /\ Len(e) = n /\ \A i \in 1 .. n : e[i] = log[i]
  BY <1>3, SubLog
<1>5. Cut(Owner, e, s, f)
  BY <1>2
<1> HIDE DEF e
<1>6. InTurn(s, Len(e))
  BY <1>3, <1>4, ShownIs
<1>7. \A i \in DOMAIN s : e[s[i]].install = Owner
  <2>1. \A i \in 1 .. n : log[i].install = Owner
    BY <1>3, LogIs DEF DataInv
  <2>2. \A i \in DOMAIN s : s[i] \in 1 .. n
    BY <1>4, <1>6 DEF InTurn
  <2> QED BY <1>4, <2>1, <2>2
<1>8. e # << >> /\ f \in 0 .. Len(e)
  BY <1>3, <1>4
<1> QED BY <1>4, <1>5, <1>6, <1>7, <1>8, TreeOwnerAssumption, CutIs

\* Another installation's export keeps the data.
LEMMA OtherExported == DataInv /\ ExportOther => DataInv'
<1> SUFFICES ASSUME DataInv, ExportOther PROVE DataInv'
  OBVIOUS
<1> DEFINE Step(n, u, r, f) ==
      Cut(u, Append(SubSeq(log, 1, n), [install |-> u, record |-> r]), <<n + 1>>, f)
<1>1. PICK n \in DOMAIN log, u \in Installs \ {Owner}, r \in Records : \E f \in 0 .. n : Step(n, u, r, f)
  BY DEF ExportOther
<1>2. PICK f \in 0 .. n : Step(n, u, r, f)
  BY <1>1
<1> DEFINE k == SubSeq(log, 1, n)
           x == [install |-> u, record |-> r]
           e == Append(k, x)
           s == <<n + 1>>
<1>3. IsLog(log) /\ n \in 1 .. Len(log) /\ n \in 0 .. Len(log) /\ n \in Nat
  BY LogIs DEF DataInv
<1>4. IsLog(k) /\ Len(k) = n
  BY <1>3, SubLog
<1>5. x \in Entry /\ x.install = u
  BY DEF Entry
<1>6. Cut(u, e, s, f)
  BY <1>2
<1> HIDE DEF k, x
<1>7. IsLog(e) /\ Len(e) = n + 1 /\ e[n + 1] = x
  BY <1>4, <1>5, MoreLog
<1>8. s[1] = n + 1 /\ Len(s) = 1 /\ DOMAIN s = 1 .. 1
  OBVIOUS
<1> HIDE DEF e, s
<1>9. InTurn(s, Len(e))
  <2>1. n + 1 \in 1 .. n + 1 /\ \A i \in 1 .. 1 : i = 1
    BY <1>3
  <2> QED BY <1>7, <1>8, <2>1 DEF InTurn
<1>10. \A i \in DOMAIN s : e[s[i]].install = u
  BY <1>5, <1>7, <1>8
<1>11. e # << >> /\ f \in 0 .. Len(e) /\ u \in Installs
  BY <1>3, <1>7
<1> QED BY <1>6, <1>7, <1>9, <1>10, <1>11, CutIs

\* An edited bundle is still a bundle, if no longer an honest one.
LEMMA DataEdited == DataInv /\ Edit => DataInv'
<1> SUFFICES ASSUME DataInv, Edit PROVE DataInv'
  OBVIOUS
<1>1. Edited
  BY DEF Edit, Repackage, AlterClaim, MoveClaim, SpliceClaim, DropClaim, SetHead, SetGrowth, Graft,
         Relabel
<1>2. /\ UNCHANGED <<source, log, ledger, restores, phase>> /\ phase = "transit"
      /\ edits < MaxEdits /\ edits' = edits + 1
  BY <1>1 DEF Edited, producerVars, treeVars, runVars
<1>3. IsLog(log) /\ IsLog(source) /\ (\A a \in ledger : IsAnchor(a)) /\ IsBundle(bundle)
      /\ source # << >> /\ edits \in 0 .. MaxEdits
  BY <1>2 DEF DataInv
<1>4. IsBundle(bundle')
  BY <1>3, EditedIs
<1>5. edits' \in 0 .. MaxEdits /\ edits' # 0
  BY <1>2, <1>3, TreeBoundsAssumption
<1> HIDE DEF Edit
<1> QED BY <1>2, <1>3, <1>4, <1>5 DEF DataInv

\* Every step keeps the data.
LEMMA DataKept == DataInv /\ [Next]_vars => DataInv'
<1> SUFFICES ASSUME DataInv, [Next]_vars PROVE DataInv'
  OBVIOUS
<1>1. CASE Append1
  BY <1>1, DataAppended
<1>2. CASE Restore
  BY <1>2, DataRestored
<1>3. CASE AnchorRoot
  BY <1>3, RootAnchored
<1>4. CASE AnchorLeaf
  BY <1>4, LeafAnchored
<1>5. CASE Export
  BY <1>5, Exported
<1>6. CASE ExportOther
  BY <1>6, OtherExported
<1>7. CASE Edit
  BY <1>7, DataEdited
<1>8. CASE Deliver
  <2>1. UNCHANGED <<log, ledger, restores, edits, source, bundle>> /\ phase = "transit" /\ phase' = "declared"
    BY <1>8 DEF Deliver, producerVars, fileVars
  <2> QED BY <2>1 DEF DataInv
<1>9. CASE Run
  <2>1. UNCHANGED <<log, ledger, restores, edits, source>> /\ VerifyTree
    BY <1>9 DEF Run, producerVars
  <2>2. bundle' = bundle /\ phase # "idle" /\ phase' # "idle"
    BY <2>1, RunReads
  <2> QED BY <2>1, <2>2 DEF DataInv
<1>10. CASE Discard
  <2>1. UNCHANGED <<log, ledger, restores>> /\ edits' = 0 /\ source' = << >> /\ phase' = "idle"
    BY <1>10 DEF Discard, producerVars
  <2>2. IsLog(<< >>)
    <3> HIDE DEF Entry
    <3> QED BY DEF IsLog
  <2> QED BY <2>1, <2>2, TreeBoundsAssumption DEF DataInv
<1>11. CASE UNCHANGED vars
  BY <1>11 DEF vars, treeVars, runVars, producerVars, fileVars, DataInv
<1> QED BY <1>1, <1>2, <1>3, <1>4, <1>5, <1>6, <1>7, <1>8, <1>9, <1>10, <1>11 DEF Next

-----------------------------------------------------------------------------
(* The verifier's registers have their types. *)

IsReport(r) ==
  /\ r.ok \in BOOLEAN /\ r.level \in Levels
  /\ {r.matched, r.declared, r.through, r.unanchored} \subseteq Nat

\* A walk stands at a node of some tree.
IsWalk(w) == \E n \in Nat : \E q : Stands(w, n, q)

RegistersInv ==
  /\ phase \in TreePhases /\ pos \in Nat /\ read \in Nat
  /\ err \in Errors \union {""} /\ mode \in {"", ModeFull}
  /\ headMatched \in BOOLEAN /\ growthOK \in BOOLEAN
  /\ IsWalk(walk) /\ IsReport(report)

\* A bundle's claims, head and growth, as the checks read them.
LEMMA BundleIs ==
  ASSUME NEW b, IsBundle(b)
  PROVE  /\ Len(b.claims) \in Nat \ {0} /\ DOMAIN b.claims = 1 .. Len(b.claims)
         /\ \A i \in DOMAIN b.claims : b.claims[i].seq \in Nat \ {0}
         /\ b.head.seq \in Nat \ {0}
         /\ HasGrowth(b) => b.growth.from \in Nat \ {0}
         /\ IsFiniteSet(b.anchors) /\ \A a \in b.anchors : a.seq \in Nat \ {0}
<1>1. AreClaims(b.claims) /\ IsHead(b.head) /\ IsGrown(b.growth) /\ AreCoords(b.anchors)
  BY DEF IsBundle
<1>2. /\ Len(b.claims) \in Nat \ {0} /\ DOMAIN b.claims = 1 .. Len(b.claims)
      /\ \A i \in 1 .. Len(b.claims) : IsClaim(b.claims[i])
  BY <1>1, ClaimsAre
<1>3. \A i \in DOMAIN b.claims : b.claims[i].seq \in Nat \ {0}
  BY <1>2 DEF IsClaim
<1> QED BY <1>1, <1>2, <1>3 DEF IsHead, IsGrown, AreCoords, HasGrowth

\* The walk at rest is a walk.
LEMMA NoWalkIs == IsWalk(NoWalk)
<1>1. NoWalk.fn = 0 /\ NoWalk.sn = 0
  BY DEF NoWalk, WalkFrom
<1>2. Stands(NoWalk, 1, 1)
  BY <1>1, PowersDouble DEF Stands
<1> QED BY <1>2 DEF IsWalk

\* A claim that passed its checks sits in the tree its head declares.
LEMMA ClaimWalk ==
  ASSUME NEW b, IsBundle(b), NEW i \in DOMAIN b.claims, ~Misshapen(b, i)
  PROVE  /\ b.claims[i].seq - 1 \in Nat /\ b.claims[i].seq - 1 < b.head.seq
         /\ b.claims[i].seq \in 1 .. b.head.seq
         /\ VouchedAt(InclusionWalk(TreeLeaf(b.param, b.claims[i]), LeafIndex(b.claims[i]), b.head.seq),
                      b.head.seq, b.claims[i].seq - 1, TreeLeaf(b.param, b.claims[i]))
<1> DEFINE c == b.claims[i]
           n == b.head.seq
           m == c.seq - 1
           data == TreeLeaf(b.param, c)
<1>1. c.seq \in Nat \ {0} /\ n \in Nat /\ c.seq <= n
  BY BundleIs DEF Misshapen
<1>2. m \in Nat /\ m < n /\ c.seq \in 1 .. n
  BY <1>1
<1>3. LeafIndex(c) = m
  BY DEF LeafIndex
<1> HIDE DEF m, n, data
<1>4. VouchedAt(InclusionWalk(data, m, n), n, m, data)
  BY <1>1, <1>2, VouchStart
<1> QED BY <1>1, <1>2, <1>3, <1>4 DEF m, n, data

\* A walk that vouches for a leaf stands at a node.
LEMMA VouchedWalk ==
  ASSUME NEW w, NEW n \in Nat, NEW m, NEW data, VouchedAt(w, n, m, data)
  PROVE  IsWalk(w)
BY DEF VouchedAt, IsWalk

\* A proof of growth starts at the boundary of the earlier log.
LEMMA GrowthWalk ==
  ASSUME NEW b, IsBundle(b), HasGrowth(b), b.growth.from < b.head.seq, NEW h
  PROVE  IsWalk(WalkFrom(Boundary(b.growth.from - 1, b.head.seq - 1), h))
<1> DEFINE f == b.growth.from
           n == b.head.seq
           at == Boundary(f - 1, n - 1)
           w == WalkFrom(at, h)
<1>1. f \in Nat /\ n \in Nat /\ 0 < f /\ f < n
  BY BundleIs
<1>2. w.fn = at.fn /\ w.sn = at.sn
  BY DEF WalkFrom
<1> HIDE DEF f, n, w
<1>3. PICK r \in Powers : Stands(at, n, r)
  BY <1>1, BoundaryAt
<1>4. Stands(w, n, r)
  BY <1>2, <1>3 DEF Stands
<1> QED BY <1>1, <1>4 DEF IsWalk, w, f, n

\* A fold leaves a walk at a node.
LEMMA FoldedWalk ==
  ASSUME NEW w, IsWalk(w), w.sn # 0, NEW p
  PROVE  IsWalk(FoldStep(w, p))
<1>1. PICK n \in Nat : \E q : Stands(w, n, q)
  BY DEF IsWalk
<1>2. PICK q : Stands(w, n, q)
  BY <1>1
<1> DEFINE x == FoldStep(w, p)
<1>3. \E r \in Powers : Stands(x, n, r)
  BY <1>2, FoldJoins
<1> QED BY <1>3 DEF IsWalk

\* Among finitely many coordinates at natural positions one is farthest on.
LEMMA FarthestExists ==
  ASSUME NEW M, IsFiniteSet(M), M # {}, \A a \in M : a.seq \in Nat
  PROVE  \E a \in M : \A c \in M : c.seq <= a.seq
<1> DEFINE T == {U \in SUBSET M : U # {} /\ \A a \in U : \E c \in U : ~(c.seq <= a.seq)}
<1> SUFFICES ASSUME T # {} PROVE FALSE
  <2>1. T = {} => M \notin T
    OBVIOUS
  <2> QED BY <2>1
<1>1. IsWellFoundedOn(StrictSubsetOrdering(M), SUBSET M)
  BY FS_StrictSubsetOrderingWellFounded, FS_FiniteSubsetsOfFinite
<1>2. PICK U \in T : \A V \in T : <<V, U>> \notin StrictSubsetOrdering(M)
  <2> HIDE DEF T
  <2>1. T \subseteq SUBSET M
    BY DEF T
  <2> QED BY <1>1, <2>1, WFMin
<1>3. PICK a \in U : TRUE
  OBVIOUS
<1> DEFINE W == U \ {a}
<1>4. <<W, U>> \in StrictSubsetOrdering(M) /\ W \in SUBSET M
  BY <1>3 DEF StrictSubsetOrdering
<1>5. \A c \in U : c.seq \in Nat
  OBVIOUS
<1>6. PICK y \in U : ~(y.seq <= a.seq)
  BY <1>3
<1>7. y \in W
  BY <1>3, <1>5, <1>6
<1>8. PICK z \in W : \A c \in W : c.seq <= z.seq
  BY <1>2, <1>4, <1>7
<1>9. \A c \in U : c.seq <= z.seq
  <2>1. a.seq <= z.seq
    BY <1>3, <1>5, <1>6, <1>7, <1>8
  <2> QED BY <1>8, <2>1
<1> QED BY <1>8, <1>9

\* The reach is a position, or zero.
LEMMA ReachOf ==
  ASSUME NEW M, IsFiniteSet(M), \A a \in M : a.seq \in Nat
  PROVE  AnchoredThrough(M) \in Nat
<1>1. CASE M = {}
  BY <1>1 DEF AnchoredThrough
<1>2. CASE M # {}
  <2> DEFINE far == CHOOSE a \in M : \A c \in M : c.seq <= a.seq
  <2>1. far \in M
    BY <1>2, FarthestExists
  <2>2. AnchoredThrough(M) = far.seq
    BY <1>2 DEF AnchoredThrough
  <2> HIDE DEF far
  <2> QED BY <1>2, <2>1, <2>2
<1> QED BY <1>1, <1>2

\* Every count the report holds is a natural number.
LEMMA CountsOf ==
  ASSUME NEW b, IsBundle(b), NEW h, NEW g
  PROVE  LET M == TreeMatched(b, h, g) IN
         {Cardinality(M), Cardinality(TreeDeclaredOnly(b, h, g)), AnchoredThrough(M),
          UnanchoredClaims(b, AnchoredThrough(M))} \subseteq Nat
<1> DEFINE M == TreeMatched(b, h, g)
           D == TreeDeclaredOnly(b, h, g)
<1>1. IsFiniteSet(b.anchors) /\ \A a \in b.anchors : a.seq \in Nat \ {0}
  BY BundleIs
<1>2. M \subseteq b.anchors /\ D \subseteq b.anchors
  BY DEF TreeMatched, TreeDeclaredOnly
<1> HIDE DEF M, D
<1>3. IsFiniteSet(M) /\ Cardinality(M) \in Nat /\ Cardinality(D) \in Nat /\ \A a \in M : a.seq \in Nat
  BY <1>1, <1>2, FS_Subset, FS_CardinalityType
<1>4. AnchoredThrough(M) \in Nat
  BY <1>3, ReachOf
<1>5. \A n : UnanchoredClaims(b, n) \in Nat
  <2> TAKE n
  <2> DEFINE U == {i \in DOMAIN b.claims : b.claims[i].chained /\ b.claims[i].seq > n}
  <2>1. IsFiniteSet(DOMAIN b.claims)
    <3>1. DOMAIN b.claims = 1 .. Len(b.claims) /\ 1 \in Int /\ Len(b.claims) \in Int
      BY BundleIs
    <3> QED BY <3>1, FS_Interval
  <2>2. U \subseteq DOMAIN b.claims
    OBVIOUS
  <2> HIDE DEF U
  <2>3. Cardinality(U) \in Nat
    BY <2>1, <2>2, FS_Subset, FS_CardinalityType
  <2> QED BY <2>3 DEF UnanchoredClaims, U
<1> QED BY <1>3, <1>4, <1>5 DEF M, D

\* No report yet is a report.
LEMMA NoReportIs == IsReport(NoReport)
<1>1. /\ NoReport.ok = FALSE /\ NoReport.level = "not verified"
      /\ NoReport.matched = 0 /\ NoReport.declared = 0
      /\ NoReport.through = 0 /\ NoReport.unanchored = 0
  BY DEF NoReport
<1>2. NoReport.ok \in BOOLEAN /\ NoReport.level \in Levels
  BY <1>1, Zenon DEF Levels
<1>3. {NoReport.matched, NoReport.declared, NoReport.through, NoReport.unanchored} \subseteq Nat
  <2>1. 0 \in Nat
    OBVIOUS
  <2> QED BY <1>1, <2>1, Zenon
<1> QED BY <1>2, <1>3 DEF IsReport

\* The last step makes a report, and a good one only without an error.
LEMMA ReportMade ==
  ASSUME IsBundle(bundle), CheckTreeAnchors
  PROVE  IsReport(report') /\ (report'.ok => err = "")
<1> DEFINE M == TreeMatched(bundle, headMatched, growthOK)
           D == TreeDeclaredOnly(bundle, headMatched, growthOK)
           ok == err = "" /\ bundle.anchors = M \union D
<1>1. /\ report'.ok = ok /\ report'.level = Level(ok, mode, M)
      /\ report'.matched = Cardinality(M) /\ report'.declared = Cardinality(D)
      /\ report'.through = AnchoredThrough(M)
      /\ report'.unanchored = UnanchoredClaims(bundle, AnchoredThrough(M))
  BY DEF CheckTreeAnchors
<1>2. {report'.matched, report'.declared, report'.through, report'.unanchored} \subseteq Nat
  <2>1. {Cardinality(M), Cardinality(D), AnchoredThrough(M),
         UnanchoredClaims(bundle, AnchoredThrough(M))} \subseteq Nat
    BY CountsOf
  <2> HIDE DEF M, D, ok
  <2> QED BY <1>1, <2>1
<1>3. report'.ok \in BOOLEAN /\ (report'.ok => err = "")
  BY <1>1
<1>4. report'.level \in Levels
  <2> HIDE DEF ok, M
  <2> QED BY <1>1 DEF Level, Levels
<1> QED BY <1>2, <1>3, <1>4 DEF IsReport

\* What a step of the verifier may write to its plain registers.
LEMMA RunWrites ==
  ASSUME VerifyTree
  PROVE  /\ pos' \in {pos, 1, pos + 1} /\ read' \in {read, 0, 1, read + 1}
         /\ err' \in Errors \union {err} /\ mode' \in {mode, ModeFull}
         /\ headMatched' \in {headMatched, TRUE} /\ growthOK' \in {growthOK, TRUE}
         /\ report' = report \/ CheckTreeAnchors
<1>1. {"ErrClaim", "ErrBroken", "ErrProfile"} \subseteq Errors
  BY DEF Errors
<1>2. CASE CheckDeclaration
  BY <1>1, <1>2 DEF CheckDeclaration, TreeFail, TreeGoto, foldVars
<1>3. CASE CheckClaim
  BY <1>1, <1>3 DEF CheckClaim, TreeFail, TreeGoto, foldVars
<1>4. CASE FoldClaim
  BY <1>1, <1>4 DEF FoldClaim, FoldHash, TreeFail, TreeGoto, foldVars
<1>5. CASE CheckGrowth
  BY <1>1, <1>5 DEF CheckGrowth, TreeFail, TreeGoto, foldVars
<1>6. CASE FoldGrowth
  BY <1>1, <1>6 DEF FoldGrowth, FoldHash, TreeFail, TreeGoto, foldVars
<1>7. CASE CheckTreeAnchors
  BY <1>7 DEF CheckTreeAnchors, foldVars
<1> QED BY <1>2, <1>3, <1>4, <1>5, <1>6, <1>7 DEF VerifyTree

\* A step of the verifier leaves the walk, starts one, or folds a hash into it.
LEMMA RunWalks ==
  ASSUME IsBundle(bundle), IsWalk(walk), VerifyTree
  PROVE  IsWalk(walk')
<1>1. CASE walk' = walk
  BY <1>1
<1>2. ASSUME NEW path, FoldHash(path) PROVE IsWalk(walk')
  <2>1. walk' = walk \/ (walk.sn # 0 /\ walk' = FoldStep(walk, path[read + 1]))
    BY <1>2 DEF FoldHash, TreeFail, AtRoot, foldVars
  <2> QED BY <2>1, FoldedWalk
<1>3. CASE CheckClaim
  <2>1. CASE pos \in DOMAIN bundle.claims /\ ~Misshapen(bundle, pos) /\
             walk' = InclusionWalk(TreeLeaf(bundle.param, bundle.claims[pos]),
                                   LeafIndex(bundle.claims[pos]), bundle.head.seq)
    <3>1. bundle.head.seq \in Nat
      BY BundleIs
    <3> QED BY <2>1, <3>1, ClaimWalk, VouchedWalk
  <2> QED BY <1>1, <1>3, <2>1 DEF CheckClaim, TreeFail, foldVars
<1>4. CASE CheckGrowth
  <2> DEFINE at == Boundary(bundle.growth.from - 1, bundle.head.seq - 1)
  <2>1. CASE HasGrowth(bundle) /\ bundle.growth.from < bundle.head.seq /\
             \E h : walk' = WalkFrom(at, h)
    BY <2>1, GrowthWalk
  <2> QED BY <1>1, <1>4, <2>1 DEF CheckGrowth, TreeFail, foldVars
<1>5. CASE FoldClaim
  BY <1>1, <1>2, <1>5 DEF FoldClaim, TreeFail, foldVars
<1>6. CASE FoldGrowth
  BY <1>1, <1>2, <1>6 DEF FoldGrowth, TreeFail, foldVars
<1>7. CASE CheckDeclaration
  BY <1>1, <1>7 DEF CheckDeclaration, TreeFail, foldVars
<1>8. CASE CheckTreeAnchors
  BY <1>1, <1>8 DEF CheckTreeAnchors, foldVars
<1> QED BY <1>3, <1>4, <1>5, <1>6, <1>7, <1>8 DEF VerifyTree

\* The registers have their types at the start.
LEMMA RegistersStart == Init => RegistersInv
<1> SUFFICES ASSUME Init PROVE RegistersInv
  OBVIOUS
<1>1. /\ phase = "idle" /\ pos = 0 /\ err = "" /\ headMatched = FALSE /\ mode = ""
      /\ report = NoReport /\ walk = NoWalk /\ read = 0 /\ growthOK = FALSE
  BY DEF Init
<1> QED BY <1>1, NoWalkIs, NoReportIs DEF RegistersInv, TreePhases

\* Every step keeps the registers' types.
LEMMA RegistersKept == DataInv /\ RegistersInv /\ [Next]_vars => RegistersInv'
<1> SUFFICES ASSUME DataInv, RegistersInv, [Next]_vars PROVE RegistersInv'
  OBVIOUS
<1>1. CASE Run
  <2>1. VerifyTree /\ IsBundle(bundle)
    BY <1>1, RunReads DEF Run, DataInv
  <2>2. IsReport(report')
    BY <2>1, RunWrites, ReportMade DEF RegistersInv
  <2>3. IsWalk(walk')
    BY <2>1, RunWalks DEF RegistersInv
  <2>4. phase' \in TreePhases
    BY <2>1, RunReads DEF TreePhases
  <2>5. pos' \in Nat /\ read' \in Nat
    <3>1. pos \in Nat /\ read \in Nat
      BY DEF RegistersInv
    <3>2. pos' \in {pos, 1, pos + 1} /\ read' \in {read, 0, 1, read + 1}
      BY <2>1, RunWrites
    <3> QED BY <3>1, <3>2
  <2>6. /\ err' \in Errors \union {""} /\ mode' \in {"", ModeFull}
        /\ headMatched' \in BOOLEAN /\ growthOK' \in BOOLEAN
    <3>1. /\ err' \in Errors \union {err} /\ mode' \in {mode, ModeFull}
          /\ headMatched' \in {headMatched, TRUE} /\ growthOK' \in {growthOK, TRUE}
      BY <2>1, RunWrites
    <3>2. TRUE \in BOOLEAN
      OBVIOUS
    <3> QED BY <3>1, <3>2, Zenon DEF RegistersInv
  <2> QED BY <2>2, <2>3, <2>4, <2>5, <2>6 DEF RegistersInv
<1>2. CASE Discard
  <2>1. /\ phase' = "idle" /\ pos' = 0 /\ err' = "" /\ headMatched' = FALSE /\ mode' = ""
        /\ report' = NoReport /\ walk' = NoWalk /\ read' = 0 /\ growthOK' = FALSE
    BY <1>2 DEF Discard
  <2> QED BY <2>1, NoWalkIs, NoReportIs DEF RegistersInv, TreePhases
<1>3. ASSUME phase' \in TreePhases,
             UNCHANGED <<pos, err, headMatched, mode, report, walk, read, growthOK>>
      PROVE  RegistersInv'
  BY <1>3 DEF RegistersInv
<1>4. CASE Export \/ ExportOther
  <2>1. phase' = "transit" /\ UNCHANGED <<pos, err, headMatched, mode, report, walk, read, growthOK>>
    BY <1>4 DEF Export, ExportOther, Cut, foldVars
  <2> QED BY <1>3, <2>1 DEF TreePhases
<1>5. CASE Deliver
  <2>1. phase' = "declared" /\ UNCHANGED <<pos, err, headMatched, mode, report, walk, read, growthOK>>
    BY <1>5 DEF Deliver, foldVars
  <2> QED BY <1>3, <2>1 DEF TreePhases, TreeWalking
<1>6. CASE Append1 \/ Restore \/ AnchorRoot \/ AnchorLeaf \/ UNCHANGED vars
  <2>1. UNCHANGED treeVars
    BY <1>6 DEF Append1, Restore, AnchorRoot, AnchorLeaf, Recorded, vars
  <2>2. phase' = phase /\ UNCHANGED <<pos, err, headMatched, mode, report, walk, read, growthOK>>
    BY <2>1 DEF treeVars, runVars, foldVars
  <2> QED BY <1>3, <2>2 DEF RegistersInv
<1>7. CASE Edit
  <2>1. UNCHANGED treeVars
    BY <1>7 DEF Edit, Repackage, AlterClaim, MoveClaim, SpliceClaim, DropClaim, SetHead, SetGrowth,
                Graft, Relabel, Edited
  <2>2. phase' = phase /\ UNCHANGED <<pos, err, headMatched, mode, report, walk, read, growthOK>>
    BY <2>1 DEF treeVars, runVars, foldVars
  <2> QED BY <1>3, <2>2 DEF RegistersInv
<1> QED BY <1>1, <1>2, <1>4, <1>5, <1>6, <1>7 DEF Next

\* TypeOK, of every installation, log and bundle.
THEOREM TreeLogTypes == Spec => []TypeOK
<1>1. DataInv /\ RegistersInv => TypeOK
  <2> SUFFICES ASSUME DataInv, RegistersInv PROVE TypeOK
    OBVIOUS
  <2>1. Len(log) \in 0 .. MaxLog
    BY LogIs, TreeBoundsAssumption DEF DataInv
  <2>2. Cardinality(ledger) \in 0 .. MaxAnchors
    <3>1. Cardinality(ledger) \in Nat
      BY FS_CardinalityType DEF DataInv
    <3> QED BY <3>1, TreeBoundsAssumption DEF DataInv
  <2>3. walk.fn \in Nat /\ walk.sn \in Nat /\ walk.fn <= walk.sn
    BY DEF RegistersInv, IsWalk, Stands
  <2> QED BY <2>1, <2>2, <2>3 DEF TypeOK, DataInv, RegistersInv, IsReport
<1>2. Init => DataInv /\ RegistersInv
  BY DataStart, RegistersStart
<1>3. DataInv /\ RegistersInv /\ [Next]_vars => (DataInv /\ RegistersInv)'
  BY DataKept, RegistersKept
<1> QED BY <1>1, <1>2, <1>3, PTL DEF Spec

-----------------------------------------------------------------------------
(* What the checks a bundle has passed so far make sure of. *)

ClaimPassed(b, i) == ~Misshapen(b, i) /\ Ascends(b, i) /\ LeafRecomputes(b, i)

\* The head's link vouches for the claim's leaf where the claim says it sits.
ClaimHeld(b, i) ==
  /\ ClaimPassed(b, i)
  /\ Vouches(b.head.link, <<0, b.head.seq>>, b.claims[i].seq - 1, TreeLeaf(b.param, b.claims[i]))

AllHeld(b) == \A i \in DOMAIN b.claims : ClaimHeld(b, i)

PathHeld(b, i, w) ==
  /\ i \in DOMAIN b.claims /\ ClaimPassed(b, i)
  /\ VouchedAt(w, b.head.seq, b.claims[i].seq - 1, TreeLeaf(b.param, b.claims[i]))

\* Whatever the log was that the bundle claims to have grown from.
ProofHeld(b, w) ==
  /\ HasGrowth(b) /\ b.growth.from < b.head.seq
  /\ \A leaves : Len(leaves) \in Nat /\ Len(leaves) = b.growth.from => BindsAt(w, b.head.seq, leaves)

GrowthHeld(b) ==
  /\ HasGrowth(b) /\ b.growth.from <= b.head.seq
  /\ \A leaves : Len(leaves) \in Nat /\ Len(leaves) = b.growth.from /\ Root(leaves) = b.growth.root =>
       Binds(b.head.link, <<0, b.head.seq>>, b.growth.from, leaves)

\* A claim that passed starts a walk from its own leaf.
LEMMA PathStarts ==
  ASSUME NEW b, IsBundle(b), NEW i \in DOMAIN b.claims, ClaimPassed(b, i)
  PROVE  PathHeld(b, i, InclusionWalk(TreeLeaf(b.param, b.claims[i]), LeafIndex(b.claims[i]), b.head.seq))
BY ClaimWalk DEF PathHeld, ClaimPassed

\* A hash folded in keeps what the walk vouches for.
LEMMA PathFolds ==
  ASSUME NEW b, IsBundle(b), NEW i, NEW w, PathHeld(b, i, w), w.sn # 0, NEW p
  PROVE  PathHeld(b, i, FoldStep(w, p))
<1> DEFINE n == b.head.seq
           m == b.claims[i].seq - 1
           data == TreeLeaf(b.param, b.claims[i])
           x == FoldStep(w, p)
<1>1. i \in DOMAIN b.claims /\ ClaimPassed(b, i) /\ VouchedAt(w, n, m, data)
  BY DEF PathHeld
<1>2. n \in Nat /\ m \in Nat
  BY <1>1, BundleIs, ClaimWalk DEF ClaimPassed
<1>3. x = FoldStep(w, p)
  OBVIOUS
<1> HIDE DEF n, m, data, x
<1>4. VouchedAt(x, n, m, data)
  BY <1>1, <1>2, <1>3, VouchFold
<1> QED BY <1>1, <1>4 DEF PathHeld, n, m, data, x

\* A walk that comes to the head's link holds the claim.
LEMMA PathEnds ==
  ASSUME NEW b, IsBundle(b), NEW i, NEW w, PathHeld(b, i, w), w.sn = 0, w.second = b.head.link
  PROVE  ClaimHeld(b, i)
<1> DEFINE n == b.head.seq
           m == b.claims[i].seq - 1
           data == TreeLeaf(b.param, b.claims[i])
<1>1. i \in DOMAIN b.claims /\ ClaimPassed(b, i) /\ VouchedAt(w, n, m, data)
  BY DEF PathHeld
<1>2. n \in Nat /\ m \in Nat
  BY <1>1, BundleIs, ClaimWalk DEF ClaimPassed
<1> HIDE DEF n, m, data
<1>3. Vouches(w.second, <<0, n>>, m, data)
  BY <1>1, <1>2, VouchEnd
<1> QED BY <1>1, <1>3 DEF ClaimHeld, n, m, data

\* A proof of growth starts bound to the earlier log.
LEMMA ProofStarts ==
  ASSUME NEW b, IsBundle(b), HasGrowth(b), b.growth.from < b.head.seq, NEW h
  PROVE  ProofHeld(b, WalkFrom(Boundary(b.growth.from - 1, b.head.seq - 1), h))
<1> DEFINE f == b.growth.from
           n == b.head.seq
           at == Boundary(f - 1, n - 1)
           w == WalkFrom(at, h)
<1>1. f \in Nat /\ n \in Nat /\ 0 < f /\ f < n
  BY BundleIs
<1>2. ASSUME NEW leaves, Len(leaves) \in Nat, Len(leaves) = f
      PROVE  BindsAt(w, n, leaves)
  <2>1. at = Boundary(Len(leaves) - 1, n - 1)
    BY <1>2
  <2> HIDE DEF at, f, n
  <2> QED BY <1>1, <1>2, <2>1, BindStart
<1> QED BY <1>2 DEF ProofHeld

\* A hash folded in keeps it bound.
LEMMA ProofFolds ==
  ASSUME NEW b, IsBundle(b), NEW w, ProofHeld(b, w), w.sn # 0, NEW p
  PROVE  ProofHeld(b, FoldStep(w, p))
<1> DEFINE n == b.head.seq
           x == FoldStep(w, p)
<1>1. n \in Nat
  BY BundleIs
<1>2. x = FoldStep(w, p)
  OBVIOUS
<1> HIDE DEF x
<1>3. ASSUME NEW leaves, Len(leaves) \in Nat, Len(leaves) = b.growth.from
      PROVE  BindsAt(x, n, leaves)
  <2>1. BindsAt(w, n, leaves)
    BY <1>3 DEF ProofHeld
  <2> HIDE DEF n
  <2> QED BY <1>1, <1>2, <1>3, <2>1, BindFold
<1> QED BY <1>3 DEF ProofHeld, x

\* A proof that comes to both roots holds the growth.
LEMMA ProofEnds ==
  ASSUME NEW b, IsBundle(b), NEW w, ProofHeld(b, w), GrowthProved(b, w)
  PROVE  GrowthHeld(b)
<1> DEFINE n == b.head.seq
           f == b.growth.from
<1>1. n \in Nat /\ f \in Nat /\ f < n /\ HasGrowth(b)
  BY BundleIs DEF ProofHeld
<1>2. w.sn = 0 /\ w.first = b.growth.root /\ w.second = b.head.link
  BY DEF GrowthProved, AtRoot
<1>3. ASSUME NEW leaves, Len(leaves) \in Nat, Len(leaves) = f, Root(leaves) = b.growth.root
      PROVE  Binds(b.head.link, <<0, n>>, f, leaves)
  <2>1. BindsAt(w, n, leaves)
    BY <1>3 DEF ProofHeld
  <2> HIDE DEF n, f
  <2>2. Binds(w.second, <<0, n>>, Len(leaves), leaves)
    BY <1>1, <1>2, <1>3, <2>1, BindEnd
  <2> QED BY <1>2, <1>3, <2>2
<1> QED BY <1>1, <1>3 DEF GrowthHeld

\* A root binds what it vouches for itself: growth from a log of the same size.
LEMMA RootBinds ==
  ASSUME NEW leaves, Len(leaves) \in Nat
  PROVE  Binds(Root(leaves), <<0, Len(leaves)>>, Len(leaves), leaves)
<1> DEFINE top == <<0, Len(leaves)>>
<1>1. /\ top \in Slices(leaves) /\ top[1] = 0 /\ top[2] = Len(leaves)
      /\ Root(leaves) = SliceRoots(leaves)[top]
  BY TopIs
<1> HIDE DEF top
<1> SUFFICES ASSUME NEW m \in Nat, NEW data, top[1] <= m, m < Len(leaves),
                    Vouches(Root(leaves), top, m, data)
             PROVE  data = leaves[m + 1]
  BY DEF Binds, top
<1> QED BY <1>1, VouchBinds

\* Growth from the head's own size and link holds.
LEMMA SameGrowth ==
  ASSUME NEW b, IsBundle(b), HasGrowth(b), b.growth.from = b.head.seq, b.growth.root = b.head.link
  PROVE  GrowthHeld(b)
<1>1. b.growth.from <= b.head.seq
  BY BundleIs
<1> QED BY <1>1, RootBinds DEF GrowthHeld

Judging == {"anchors", "done"}

ChecksInv ==
  /\ phase \notin Judging => err = "" /\ headMatched = FALSE /\ growthOK = FALSE
  /\ phase \in {"claim", "path"} => pos \in Nat \ {0}
  /\ phase \in {"claim", "path"} => \A i \in DOMAIN bundle.claims : i < pos => ClaimHeld(bundle, i)
  /\ phase = "path" => PathHeld(bundle, pos, walk)
  /\ phase = "proof" => ProofHeld(bundle, walk)
  /\ (phase \in {"growth", "proof"} \/ (phase \in Judging /\ err = "")) => AllHeld(bundle)
  /\ phase \in Judging /\ err = "" => headMatched = TRUE
  /\ phase \in Judging /\ growthOK = TRUE => GrowthHeld(bundle)
  /\ phase = "done" /\ report.ok => err = ""

\* A failed check leaves nothing to be sure of.
LEMMA ChecksFailed ==
  ASSUME ChecksInv, phase \notin Judging, NEW e, e # "", TreeFail(e)
  PROVE  ChecksInv'
<1>1. growthOK' = FALSE /\ err' # "" /\ phase' = "anchors"
  BY DEF ChecksInv, TreeFail
<1> QED BY <1>1 DEF ChecksInv, Judging

\* The declaration's check.
LEMMA ChecksDeclared == ChecksInv /\ IsBundle(bundle) /\ CheckDeclaration => ChecksInv'
<1> SUFFICES ASSUME ChecksInv, IsBundle(bundle), CheckDeclaration PROVE ChecksInv'
  OBVIOUS
<1>1. phase = "declared"
  BY DEF CheckDeclaration
<1>2. CASE TreeFail("ErrProfile") \/ TreeFail("ErrClaim")
  BY <1>1, <1>2, ChecksFailed DEF Judging
<1>3. CASE pos' = 1 /\ TreeGoto("claim")
  <2>1. /\ phase' = "claim" /\ pos' = 1 /\ bundle' = bundle
        /\ UNCHANGED <<err, headMatched, growthOK>>
    BY <1>3 DEF TreeGoto
  <2>2. pos' \in Nat \ {0} /\ \A i \in DOMAIN bundle.claims : ~(i < pos')
    BY <2>1, BundleIs
  <2> QED BY <1>1, <2>1, <2>2 DEF ChecksInv, Judging
<1> QED BY <1>2, <1>3 DEF CheckDeclaration

\* The check of one claim, or the end of the claims.
LEMMA ChecksClaim == ChecksInv /\ IsBundle(bundle) /\ CheckClaim => ChecksInv'
<1> SUFFICES ASSUME ChecksInv, IsBundle(bundle), CheckClaim PROVE ChecksInv'
  OBVIOUS
<1>1. phase = "claim" /\ \A i \in DOMAIN bundle.claims : i < pos => ClaimHeld(bundle, i)
  BY DEF CheckClaim, ChecksInv
<1>2. CASE TreeFail("ErrClaim") \/ TreeFail("ErrBroken")
  BY <1>1, <1>2, ChecksFailed DEF Judging
<1>3. CASE /\ pos \in DOMAIN bundle.claims /\ ~Misshapen(bundle, pos)
           /\ Ascends(bundle, pos) /\ LeafRecomputes(bundle, pos)
           /\ walk' = InclusionWalk(TreeLeaf(bundle.param, bundle.claims[pos]),
                                    LeafIndex(bundle.claims[pos]), bundle.head.seq)
           /\ TreeGoto("path") /\ UNCHANGED pos
  <2>1. phase' = "path" /\ UNCHANGED <<bundle, pos, err, headMatched, growthOK>>
    BY <1>3 DEF TreeGoto
  <2>2. PathHeld(bundle, pos, walk')
    BY <1>3, PathStarts DEF ClaimPassed
  <2> QED BY <1>1, <2>1, <2>2 DEF ChecksInv, Judging
<1>4. CASE pos \notin DOMAIN bundle.claims /\ TreeGoto("growth")
  <2>1. phase' = "growth" /\ UNCHANGED <<bundle, err, headMatched, growthOK>>
    BY <1>4 DEF TreeGoto
  <2>2. AllHeld(bundle)
    <3> SUFFICES ASSUME NEW i \in DOMAIN bundle.claims PROVE ClaimHeld(bundle, i)
      BY DEF AllHeld
    <3>1. DOMAIN bundle.claims = 1 .. Len(bundle.claims) /\ Len(bundle.claims) \in Nat
      BY BundleIs
    <3>2. pos \in Nat /\ pos # 0
      BY <1>1 DEF ChecksInv
    <3>3. i < pos
      BY <1>4, <3>1, <3>2
    <3> QED BY <1>1, <3>3
  <2> QED BY <1>1, <2>1, <2>2 DEF ChecksInv, Judging
<1> QED BY <1>2, <1>3, <1>4 DEF CheckClaim

\* A hash of a claim's path, or its end.
LEMMA ChecksFold == ChecksInv /\ IsBundle(bundle) /\ FoldClaim => ChecksInv'
<1> SUFFICES ASSUME ChecksInv, IsBundle(bundle), FoldClaim PROVE ChecksInv'
  OBVIOUS
<1>1. /\ phase = "path" /\ PathHeld(bundle, pos, walk) /\ pos \in Nat \ {0}
      /\ \A i \in DOMAIN bundle.claims : i < pos => ClaimHeld(bundle, i)
  BY DEF FoldClaim, ChecksInv
<1>2. CASE TreeFail("ErrBroken")
  BY <1>1, <1>2, ChecksFailed DEF Judging
<1>3. ASSUME NEW path, walk.sn # 0, walk' = FoldStep(walk, path[read + 1]), TreeGoto(phase),
             UNCHANGED pos
      PROVE  ChecksInv'
  <2>1. phase' = phase /\ UNCHANGED <<bundle, pos, err, headMatched, growthOK>>
    BY <1>3 DEF TreeGoto
  <2>2. PathHeld(bundle, pos, walk')
    BY <1>1, <1>3, PathFolds
  <2> QED BY <1>1, <2>1, <2>2 DEF ChecksInv, Judging
<1>4. CASE AtRoot(walk) /\ walk.second = bundle.head.link /\ pos' = pos + 1 /\ TreeGoto("claim")
  <2>1. phase' = "claim" /\ UNCHANGED <<bundle, err, headMatched, growthOK>>
    BY <1>4 DEF TreeGoto
  <2>2. ClaimHeld(bundle, pos)
    BY <1>1, <1>4, PathEnds DEF AtRoot
  <2>3. \A i \in DOMAIN bundle.claims : i < pos' => ClaimHeld(bundle, i)
    <3> SUFFICES ASSUME NEW i \in DOMAIN bundle.claims, i < pos + 1 PROVE ClaimHeld(bundle, i)
      BY <1>4
    <3>1. i \in Nat /\ pos \in Nat
      BY <1>1, BundleIs
    <3>2. i < pos \/ i = pos
      BY <3>1
    <3> QED BY <1>1, <2>2, <3>2
  <2>4. pos' \in Nat \ {0}
    BY <1>1, <1>4
  <2> QED BY <1>1, <2>1, <2>3, <2>4 DEF ChecksInv, Judging
<1> QED BY <1>2, <1>3, <1>4 DEF FoldClaim, FoldHash, AtRoot

\* Growth shown by a proof, or by there being nothing to show.
LEMMA ChecksJudged ==
  ASSUME ChecksInv, phase \in {"growth", "proof"}, phase' = "anchors", UNCHANGED <<bundle, err>>,
         headMatched' = TRUE, growthOK' = growthOK \/ GrowthHeld(bundle)
  PROVE  ChecksInv'
<1>1. err' = "" /\ AllHeld(bundle) /\ growthOK = FALSE
  BY DEF ChecksInv, Judging
<1>2. growthOK' = TRUE => GrowthHeld(bundle)
  BY <1>1
<1> QED BY <1>1, <1>2 DEF ChecksInv, Judging

\* The checks before a proof of growth is folded.
LEMMA ChecksGrowth == ChecksInv /\ IsBundle(bundle) /\ CheckGrowth => ChecksInv'
<1> SUFFICES ASSUME ChecksInv, IsBundle(bundle), CheckGrowth PROVE ChecksInv'
  OBVIOUS
<1> DEFINE at == Boundary(bundle.growth.from - 1, bundle.head.seq - 1)
<1>1. phase = "growth" /\ AllHeld(bundle)
  BY DEF CheckGrowth, ChecksInv
<1>2. CASE TreeFail("ErrClaim") \/ TreeFail("ErrBroken")
  BY <1>1, <1>2, ChecksFailed DEF Judging
<1>3. CASE /\ headMatched' = TRUE /\ phase' = "anchors"
           /\ UNCHANGED <<bundle, pos, err, report, foldVars, growthOK>>
  BY <1>1, <1>3, ChecksJudged
<1>4. CASE /\ HasGrowth(bundle) /\ bundle.growth.from = bundle.head.seq
           /\ bundle.growth.root = bundle.head.link /\ headMatched' = TRUE
           /\ phase' = "anchors" /\ UNCHANGED <<bundle, pos, err, report, foldVars>>
  BY <1>1, <1>4, ChecksJudged, SameGrowth
<1>5. ASSUME NEW h, HasGrowth(bundle), bundle.growth.from < bundle.head.seq,
             walk' = WalkFrom(at, h), TreeGoto("proof")
      PROVE  ChecksInv'
  <2>1. phase' = "proof" /\ UNCHANGED <<bundle, err, headMatched, growthOK>>
    BY <1>5 DEF TreeGoto
  <2>2. ProofHeld(bundle, walk')
    BY <1>5, ProofStarts
  <2> QED BY <1>1, <2>1, <2>2 DEF ChecksInv, Judging
<1> HIDE DEF at
<1> QED BY <1>2, <1>3, <1>4, <1>5 DEF CheckGrowth, at

\* A hash of a proof of growth, or its end.
LEMMA ChecksProof == ChecksInv /\ IsBundle(bundle) /\ FoldGrowth => ChecksInv'
<1> SUFFICES ASSUME ChecksInv, IsBundle(bundle), FoldGrowth PROVE ChecksInv'
  OBVIOUS
<1>1. phase = "proof" /\ AllHeld(bundle) /\ ProofHeld(bundle, walk)
  BY DEF FoldGrowth, ChecksInv
<1>2. CASE TreeFail("ErrBroken")
  BY <1>1, <1>2, ChecksFailed DEF Judging
<1>3. ASSUME NEW path, walk.sn # 0, walk' = FoldStep(walk, path[read + 1]), TreeGoto(phase)
      PROVE  ChecksInv'
  <2>1. phase' = phase /\ UNCHANGED <<bundle, err, headMatched, growthOK>>
    BY <1>3 DEF TreeGoto
  <2>2. ProofHeld(bundle, walk')
    BY <1>1, <1>3, ProofFolds
  <2> QED BY <1>1, <2>1, <2>2 DEF ChecksInv, Judging
<1>4. CASE /\ GrowthProved(bundle, walk) /\ headMatched' = TRUE /\ phase' = "anchors"
           /\ UNCHANGED <<bundle, pos, err, report, foldVars>>
  <2>1. GrowthHeld(bundle)
    BY <1>1, <1>4, ProofEnds
  <2> QED BY <1>1, <1>4, <2>1, ChecksJudged
<1> QED BY <1>2, <1>3, <1>4 DEF FoldGrowth, FoldHash, AtRoot

\* The report.
LEMMA ChecksAnchored == ChecksInv /\ IsBundle(bundle) /\ CheckTreeAnchors => ChecksInv'
<1> SUFFICES ASSUME ChecksInv, IsBundle(bundle), CheckTreeAnchors PROVE ChecksInv'
  OBVIOUS
<1>1. /\ phase = "anchors" /\ phase' = "done"
      /\ UNCHANGED <<bundle, pos, err, headMatched, mode, foldVars, growthOK>>
  BY DEF CheckTreeAnchors
<1>2. report'.ok => err' = ""
  BY <1>1, ReportMade
<1> QED BY <1>1, <1>2 DEF ChecksInv, Judging

\* Nothing is checked at the start.
LEMMA ChecksStart == Init => ChecksInv
BY DEF Init, ChecksInv, Judging

\* Every step keeps what the checks made sure of.
LEMMA ChecksKept == DataInv /\ ChecksInv /\ [Next]_vars => ChecksInv'
<1> SUFFICES ASSUME DataInv, ChecksInv, [Next]_vars PROVE ChecksInv'
  OBVIOUS
<1>1. CASE Run
  <2>1. VerifyTree /\ IsBundle(bundle)
    BY <1>1, RunReads DEF Run, DataInv
  <2> QED BY <2>1, ChecksDeclared, ChecksClaim, ChecksFold, ChecksGrowth, ChecksProof, ChecksAnchored
          DEF VerifyTree
<1>2. CASE Discard
  <2>1. phase' = "idle" /\ err' = "" /\ headMatched' = FALSE /\ growthOK' = FALSE
    BY <1>2 DEF Discard
  <2> QED BY <2>1 DEF ChecksInv, Judging
<1>3. CASE Export \/ ExportOther
  <2>1. phase = "idle" /\ phase' = "transit" /\ UNCHANGED <<err, headMatched, growthOK>>
    BY <1>3 DEF Export, ExportOther, Cut
  <2> QED BY <2>1 DEF ChecksInv, Judging
<1>4. CASE Deliver
  <2>1. phase = "transit" /\ phase' = "declared" /\ UNCHANGED <<err, headMatched, growthOK>>
    BY <1>4 DEF Deliver
  <2> QED BY <2>1 DEF ChecksInv, Judging
<1>5. CASE Edit
  <2>1. phase = "transit" /\ UNCHANGED treeVars
    BY <1>5 DEF Edit, Repackage, AlterClaim, MoveClaim, SpliceClaim, DropClaim, SetHead, SetGrowth,
                Graft, Relabel, Edited
  <2>2. phase' = "transit" /\ UNCHANGED <<err, headMatched, growthOK>>
    BY <2>1 DEF treeVars, runVars
  <2> QED BY <2>1, <2>2 DEF ChecksInv, Judging
<1>6. CASE Append1 \/ Restore \/ AnchorRoot \/ AnchorLeaf \/ UNCHANGED vars
  <2>1. UNCHANGED treeVars /\ UNCHANGED fileVars
    BY <1>6 DEF Append1, Restore, AnchorRoot, AnchorLeaf, Recorded, vars
  <2> QED BY <2>1 DEF treeVars, runVars, foldVars, fileVars, ChecksInv, Judging
<1> QED BY <1>1, <1>2, <1>3, <1>4, <1>5, <1>6 DEF Next

-----------------------------------------------------------------------------
(* What a verdict means. *)

\* A verdict stands on every check.
LEMMA JudgedIs ==
  ASSUME DataInv, RegistersInv, ChecksInv, Verdict
  PROVE  /\ IsBundle(bundle) /\ AllHeld(bundle) /\ headMatched = TRUE
         /\ growthOK \in BOOLEAN /\ (growthOK => GrowthHeld(bundle))
         /\ IsLog(source) /\ source # << >>
<1>1. phase = "done" /\ err = "" /\ IsBundle(bundle) /\ IsLog(source) /\ source # << >>
  BY DEF Verdict, ChecksInv, DataInv
<1>2. growthOK \in BOOLEAN
  BY DEF RegistersInv
<1>3. growthOK = TRUE => GrowthHeld(bundle)
  BY <1>1 DEF ChecksInv, Judging
<1>4. growthOK => GrowthHeld(bundle)
  BY <1>2, <1>3, Zenon
<1>5. AllHeld(bundle) /\ headMatched = TRUE
  BY <1>1 DEF ChecksInv, Judging
<1> QED BY <1>1, <1>2, <1>4, <1>5

\* The three kinds of coordinates an anchor is matched against.
LEMMA MatchedBy ==
  ASSUME NEW b, NEW h, NEW g, NEW a, TreeVerified(b, h, g, a)
  PROVE  \/ g /\ a.seq = b.growth.from /\ a.link = b.growth.root
         \/ a.seq = b.head.seq /\ a.link = b.head.link
         \/ \E i \in DOMAIN b.claims : Coords(b.claims[i]) = a
<1> DEFINE G == g /\ a.seq = b.growth.from
           H == h /\ a.seq = b.head.seq
           C == \E i \in DOMAIN b.claims :
                  /\ b.claims[i].chained
                  /\ Coords(b.claims[i]) = a
                  /\ \A j \in DOMAIN b.claims :
                       j > i /\ b.claims[j].chained => b.claims[j].seq # a.seq
<1>1. IF G THEN a.link = b.growth.root ELSE IF H THEN a.link = b.head.link ELSE C
  BY DEF TreeVerified, Verified
<1>2. C => \E i \in DOMAIN b.claims : Coords(b.claims[i]) = a
  OBVIOUS
<1>3. G => g /\ a.seq = b.growth.from
  OBVIOUS
<1>4. H => a.seq = b.head.seq
  OBVIOUS
<1> HIDE DEF G, H, C
<1> QED BY <1>1, <1>2, <1>3, <1>4, Zenon

\* A recorded anchor that was matched, and against what.
LEMMA WitnessIs ==
  ASSUME DataInv, RegistersInv, ChecksInv, Verdict, NEW kind, NEW a \in Witnesses(kind)
  PROVE  /\ a \in ledger /\ a.kind = kind /\ IsAnchor(a)
         /\ \/ GrowthHeld(bundle) /\ a.seq = bundle.growth.from /\ a.link = bundle.growth.root
            \/ a.seq = bundle.head.seq /\ a.link = bundle.head.link
            \/ \E i \in DOMAIN bundle.claims :
                 bundle.claims[i].seq = a.seq /\ bundle.claims[i].link = a.link
<1>1. /\ a \in ledger /\ a.kind = kind /\ IsAnchor(a)
      /\ TreeVerified(bundle, headMatched, growthOK, Coords(a))
  BY DEF Witnesses, TreeMatched, DataInv
<1>2. Coords(a).seq = a.seq /\ Coords(a).link = a.link
  BY DEF Coords
<1>3. \/ growthOK /\ a.seq = bundle.growth.from /\ a.link = bundle.growth.root
      \/ a.seq = bundle.head.seq /\ a.link = bundle.head.link
      \/ \E i \in DOMAIN bundle.claims : Coords(bundle.claims[i]) = Coords(a)
  <2> DEFINE k == Coords(a)
  <2>1. TreeVerified(bundle, headMatched, growthOK, k) /\ k.seq = a.seq /\ k.link = a.link
    BY <1>1, <1>2
  <2> HIDE DEF k
  <2>2. \/ growthOK /\ k.seq = bundle.growth.from /\ k.link = bundle.growth.root
        \/ k.seq = bundle.head.seq /\ k.link = bundle.head.link
        \/ \E i \in DOMAIN bundle.claims : Coords(bundle.claims[i]) = k
    BY <2>1, MatchedBy
  <2> QED BY <2>1, <2>2, Zenon DEF k
<1>4. growthOK => GrowthHeld(bundle)
  BY JudgedIs
<1>5. \A i \in DOMAIN bundle.claims : Coords(bundle.claims[i]) = Coords(a) =>
        bundle.claims[i].seq = a.seq /\ bundle.claims[i].link = a.link
  BY DEF Coords
<1> QED BY <1>1, <1>3, <1>4, <1>5, Zenon

\* The same leaf, the same entry: what a leaf hash commits.
LEMMA SameEntry ==
  ASSUME NEW e, IsLog(e), NEW b, NEW c, c.seq \in 1 .. Len(e),
         TreeLeaf(b.param, c) = Leaves(e)[c.seq]
  PROVE  /\ c.seq \in DOMAIN e /\ b.param = e[c.seq].install
         /\ ClaimContent(c) = ClaimContent(e[c.seq].record)
<1>1. DOMAIN e = 1 .. Len(e) /\ Leaves(e)[c.seq] = TreeLeaf(e[c.seq].install, e[c.seq].record)
  BY LogIs, LeavesAre
<1>2. TreeLeaf(b.param, c) = TreeLeaf(e[c.seq].install, e[c.seq].record)
  BY <1>1
<1>3. \A u, v, x, y : <<ProfileMerkle, u, x>> = <<ProfileMerkle, v, y>> => u = v /\ x = y
  OBVIOUS
<1>4. b.param = e[c.seq].install /\ ClaimContent(c) = ClaimContent(e[c.seq].record)
  <2> DEFINE x == ClaimContent(c)
             y == ClaimContent(e[c.seq].record)
  <2>1. <<ProfileMerkle, b.param, x>> = <<ProfileMerkle, e[c.seq].install, y>>
    BY <1>2 DEF TreeLeaf
  <2> HIDE DEF x, y
  <2>2. b.param = e[c.seq].install /\ x = y
    BY <1>3, <2>1
  <2> QED BY <2>2 DEF x, y
<1> QED BY <1>1, <1>4

\* A claim with the leaf recorded shows the entry recorded.
LEMMA EntryShown ==
  ASSUME NEW a, IsLog(a.entries), NEW c, c.seq \in 1 .. Len(a.entries),
         TreeLeaf(bundle.param, c) = Leaves(a.entries)[c.seq]
  PROVE  ShowsEntry(c, a)
<1> DEFINE e == a.entries
           b == bundle
<1>1. IsLog(e) /\ c.seq \in 1 .. Len(e) /\ TreeLeaf(b.param, c) = Leaves(e)[c.seq]
  OBVIOUS
<1> HIDE DEF e, b
<1>2. /\ c.seq \in DOMAIN e /\ b.param = e[c.seq].install
      /\ ClaimContent(c) = ClaimContent(e[c.seq].record)
  BY <1>1, SameEntry
<1> QED BY <1>2 DEF ShowsEntry, e, b

\* A claim's leaf, where the head binds a log's leaves.
LEMMA BoundEntry ==
  ASSUME NEW b, IsBundle(b), AllHeld(b), NEW e, IsLog(e), NEW i \in DOMAIN b.claims,
         b.claims[i].seq <= Len(e), Binds(b.head.link, <<0, b.head.seq>>, Len(e), Leaves(e))
  PROVE  b.claims[i].seq \in 1 .. Len(e) /\ TreeLeaf(b.param, b.claims[i]) = Leaves(e)[b.claims[i].seq]
<1> DEFINE n == b.claims[i].seq
           m == n - 1
           top == <<0, b.head.seq>>
           data == TreeLeaf(b.param, b.claims[i])
<1>1. n \in Nat \ {0} /\ Len(e) \in Nat /\ n <= Len(e)
  BY BundleIs, LogIs
<1>2. m \in Nat /\ m < Len(e) /\ m + 1 = n /\ n \in 1 .. Len(e)
  BY <1>1
<1>3. Vouches(b.head.link, top, m, data) /\ top[1] <= m
  <2>1. top[1] = 0
    OBVIOUS
  <2>2. Vouches(b.head.link, top, m, data)
    BY DEF AllHeld, ClaimHeld
  <2> HIDE DEF top, m, n
  <2> QED BY <1>2, <2>1, <2>2
<1>4. Binds(b.head.link, top, Len(e), Leaves(e))
  OBVIOUS
<1> HIDE DEF top, m, data, n
<1>5. data = Leaves(e)[m + 1]
  BY <1>2, <1>3, <1>4 DEF Binds
<1> QED BY <1>2, <1>5 DEF data, n

\* Of the roots recorded, whichever way one was matched.
LEMMA RootShows ==
  ASSUME DataInv, RegistersInv, ChecksInv, Verdict, NEW a \in Witnesses("root"),
         NEW i \in DOMAIN bundle.claims, bundle.claims[i].seq <= a.seq
  PROVE  ShowsEntry(bundle.claims[i], a)
<1> DEFINE b == bundle
           e == a.entries
           L == Leaves(e)
           c == b.claims[i]
<1>1. IsBundle(b) /\ AllHeld(b)
  BY JudgedIs
<1>2. a \in ledger /\ IsAnchor(a) /\ a.kind = "root"
  BY WitnessIs
<1>3. /\ IsLog(e) /\ Len(e) \in Nat \ {0} /\ a.seq = Len(e) /\ a.link = Root(L)
      /\ Len(L) = Len(e) /\ Len(L) \in Nat
  BY <1>2, LogIs, LeavesAre DEF IsAnchor, LogRoot
<1>4. ASSUME TreeLeaf(b.param, c) = L[c.seq], c.seq \in 1 .. Len(e) PROVE ShowsEntry(c, a)
  <2> HIDE DEF c
  <2> QED BY <1>3, <1>4, EntryShown
<1>5. ASSUME Binds(b.head.link, <<0, b.head.seq>>, Len(e), L) PROVE ShowsEntry(c, a)
  BY <1>1, <1>3, <1>4, <1>5, BoundEntry
<1>6. CASE GrowthHeld(b) /\ a.seq = b.growth.from /\ a.link = b.growth.root
  <2>1. Binds(b.head.link, <<0, b.head.seq>>, Len(e), L)
    BY <1>3, <1>6 DEF GrowthHeld
  <2> QED BY <1>5, <2>1
<1>7. CASE a.seq = b.head.seq /\ a.link = b.head.link
  <2>1. Binds(Root(L), <<0, Len(L)>>, Len(L), L)
    BY <1>3, RootBinds
  <2> QED BY <1>3, <1>5, <1>7, <2>1
<1>8. CASE \E j \in DOMAIN b.claims : b.claims[j].seq = a.seq /\ b.claims[j].link = a.link
  <2>1. PICK j \in DOMAIN b.claims : b.claims[j].seq = a.seq /\ b.claims[j].link = a.link
    BY <1>8
  <2> DEFINE leaf == TreeLeaf(b.param, b.claims[j])
  <2>2. ClaimPassed(b, j) /\ ClaimPassed(b, i)
    BY <1>1, <2>1 DEF AllHeld, ClaimHeld
  <2>3. Root(L) = LeafHash(leaf)
    BY <1>3, <2>1, <2>2 DEF ClaimPassed, LeafRecomputes
  <2>4. Len(L) = 1
    <3>1. ~IsNode(Root(L))
      BY <2>3, LeafNoNode DEF IsNode
    <3>2. ~(Len(L) > 1)
      BY <1>3, <3>1, RootNode
    <3>3. Len(L) \in Nat \ {0}
      BY <1>3
    <3> DEFINE k == Len(L)
    <3>4. k \in Nat \ {0} /\ ~(k > 1)
      BY <3>2, <3>3
    <3> HIDE DEF k
    <3>5. k = 1
      BY <3>4
    <3> QED BY <3>5 DEF k
  <2>5. leaf = L[1]
    <3> DEFINE top == <<0, Len(L)>>
    <3>1. top \in Slices(L) /\ top[1] = 0 /\ top[2] = 1 /\ Root(L) = SliceRoots(L)[top]
      BY <1>3, <2>4, TopIs
    <3> HIDE DEF top
    <3>2. top[2] = top[1] + 1
      BY <3>1
    <3>3. Root(L) = LeafHash(L[1])
      BY <1>3, <3>1, <3>2, RootOne
    <3> HIDE DEF leaf, L
    <3> QED BY <2>3, <3>3, LeafBinds
  <2>6. /\ c.seq = 1 /\ b.claims[j].seq = 1
        /\ i \in Nat /\ j \in Nat /\ i >= 1 /\ j >= 1
    <3>1. c.seq \in Nat \ {0} /\ i \in 1 .. Len(b.claims) /\ j \in 1 .. Len(b.claims) /\ Len(b.claims) \in Nat
      BY <1>1, <2>1, BundleIs
    <3>2. c.seq <= 1 /\ b.claims[j].seq = 1
      BY <1>3, <2>1, <2>4
    <3> QED BY <3>1, <3>2
  <2>7. i = j
    <3>1. ~(i < j)
      <4> SUFFICES ASSUME i < j PROVE FALSE
        OBVIOUS
      <4>1. i \in 1 .. j - 1
        BY <2>6
      <4>2. c.seq < b.claims[j].seq
        BY <2>2, <4>1 DEF ClaimPassed, Ascends
      <4> QED BY <2>6, <4>2
    <3>2. ~(j < i)
      <4> SUFFICES ASSUME j < i PROVE FALSE
        OBVIOUS
      <4>1. j \in 1 .. i - 1
        BY <2>6
      <4>2. b.claims[j].seq < c.seq
        BY <2>2, <4>1 DEF ClaimPassed, Ascends
      <4> QED BY <2>6, <4>2
    <3> QED BY <2>6, <3>1, <3>2
  <2>8. TreeLeaf(b.param, c) = L[c.seq] /\ c.seq \in 1 .. Len(e)
    BY <1>3, <2>4, <2>5, <2>6, <2>7
  <2> QED BY <1>4, <2>8
<1>9. \/ GrowthHeld(b) /\ a.seq = b.growth.from /\ a.link = b.growth.root
      \/ a.seq = b.head.seq /\ a.link = b.head.link
      \/ \E j \in DOMAIN b.claims : b.claims[j].seq = a.seq /\ b.claims[j].link = a.link
  BY WitnessIs
<1> QED BY <1>6, <1>7, <1>8, <1>9

\* What vouches for a leaf among others is the hash of a node.
LEMMA VouchNode ==
  ASSUME NEW h, NEW n \in Nat, n > 1, NEW m, NEW data, Vouches(h, <<0, n>>, m, data)
  PROVE  IsNode(h)
<1> DEFINE s == <<0, n>>
<1>1. s[1] = 0 /\ s[2] = n
  OBVIOUS
<1> HIDE DEF s
<1>2. PICK g, D : Vouching(g, D, s, m, data) /\ g[s] = h
  BY DEF Vouches, s
<1>3. s[2] # s[1] + 1
  BY <1>1
<1> QED BY <1>2, <1>3 DEF Vouching, IsNode

\* What vouches for a leaf alone is its hash.
LEMMA VouchAlone ==
  ASSUME NEW h, NEW m \in Nat, NEW data, Vouches(h, <<0, 1>>, m, data)
  PROVE  m = 0 /\ h = LeafHash(data)
<1> DEFINE s == <<0, 1>>
<1>1. s[1] = 0 /\ s[2] = 1
  OBVIOUS
<1> HIDE DEF s
<1>2. PICK g, D : Vouching(g, D, s, m, data) /\ g[s] = h
  BY DEF Vouches, s
<1>3. s \in D /\ s[1] <= m /\ m < s[2]
  BY <1>2 DEF Vouching
<1>4. g[s] = LeafHash(data)
  <2>1. ~(s[2] > s[1] + 1)
    BY <1>1
  <2> QED BY <1>2, <1>3, <2>1 DEF Vouching
<1> QED BY <1>1, <1>2, <1>3, <1>4

\* A matched leaf is shown as it was recorded, unless the log grew from it.
LEMMA LeafShows ==
  ASSUME DataInv, RegistersInv, ChecksInv, Verdict, NEW a \in Witnesses("leaf"),
         Coords(a) # [seq |-> bundle.growth.from, link |-> bundle.growth.root]
  PROVE  \E i \in DOMAIN bundle.claims :
           bundle.claims[i].seq = a.seq /\ ShowsEntry(bundle.claims[i], a)
<1> DEFINE b == bundle
           e == a.entries
           leaf == Leaves(e)[a.seq]
<1>1. IsBundle(b) /\ AllHeld(b)
  BY JudgedIs
<1>2. a \in ledger /\ IsAnchor(a) /\ a.kind = "leaf"
  BY WitnessIs
<1>3. IsLog(e) /\ a.seq \in 1 .. Len(e) /\ a.link = LeafHash(leaf) /\ a.seq \in Nat \ {0}
  BY <1>2, LogIs DEF IsAnchor
<1>4. ~IsNode(a.link)
  BY <1>3, LeafNoNode DEF IsNode
<1>5. ~(a.seq = b.growth.from /\ a.link = b.growth.root)
  BY DEF Coords
<1>6. ASSUME a.seq = b.head.seq, a.link = b.head.link
      PROVE  b.claims[1].seq = a.seq /\ b.claims[1].link = a.link /\ 1 \in DOMAIN b.claims
  <2> DEFINE x == TreeLeaf(b.param, b.claims[1])
  <2>1. 1 \in DOMAIN b.claims /\ b.claims[1].seq \in Nat \ {0}
    BY <1>1, BundleIs
  <2>2. /\ Vouches(a.link, <<0, a.seq>>, b.claims[1].seq - 1, x)
        /\ b.claims[1].link = LeafHash(x)
    BY <1>1, <1>6, <2>1 DEF AllHeld, ClaimHeld, ClaimPassed, LeafRecomputes
  <2> HIDE DEF x
  <2>3. a.seq = 1
    BY <1>3, <1>4, <2>2, VouchNode
  <2>4. Vouches(a.link, <<0, 1>>, b.claims[1].seq - 1, x)
    BY <2>2, <2>3
  <2>5. b.claims[1].seq - 1 = 0 /\ a.link = LeafHash(x)
    <3> DEFINE m == b.claims[1].seq - 1
    <3>1. m \in Nat
      BY <2>1
    <3>2. Vouches(a.link, <<0, 1>>, m, x)
      BY <2>4
    <3> HIDE DEF m
    <3>3. m = 0 /\ a.link = LeafHash(x)
      BY <3>1, <3>2, VouchAlone
    <3> QED BY <3>3 DEF m
  <2> QED BY <2>1, <2>2, <2>3, <2>5
<1>7. PICK j \in DOMAIN b.claims : b.claims[j].seq = a.seq /\ b.claims[j].link = a.link
  BY <1>5, <1>6, WitnessIs
<1>8. b.claims[j].link = LeafHash(TreeLeaf(b.param, b.claims[j]))
  BY <1>1, <1>7 DEF AllHeld, ClaimHeld, ClaimPassed, LeafRecomputes
<1>9. TreeLeaf(b.param, b.claims[j]) = leaf
  <2> DEFINE x == TreeLeaf(b.param, b.claims[j])
  <2>1. LeafHash(x) = LeafHash(leaf)
    BY <1>3, <1>7, <1>8
  <2> HIDE DEF x, leaf
  <2> QED BY <2>1, LeafBinds DEF x
<1>10. ShowsEntry(b.claims[j], a)
  <2> DEFINE c == b.claims[j]
  <2>1. c.seq \in 1 .. Len(e) /\ TreeLeaf(b.param, c) = Leaves(e)[c.seq]
    BY <1>3, <1>7, <1>9
  <2> HIDE DEF c
  <2>2. ShowsEntry(c, a)
    BY <1>3, <2>1, EntryShown
  <2> QED BY <2>2 DEF c
<1> QED BY <1>7, <1>10

\* Leaves that agree as far as the shorter log goes are a prefix.
LEMMA PrefixOf ==
  ASSUME NEW a, IsLog(a), NEW b, IsLog(b), 0 < Len(a), Len(a) <= Len(b),
         \A i \in 1 .. Len(a) : Leaves(a)[i] = Leaves(b)[i]
  PROVE  IsPrefix(Leaves(a), Leaves(b))
<1> DEFINE s == Leaves(a)
           t == Leaves(b)
           k == Len(a)
           S == {s[i] : i \in 1 .. k}
           T == {t[i] : i \in 1 .. Len(b)}
           x == SubSeq(s, 1, k)
           y == SubSeq(t, 1, k)
<1>1. /\ Len(s) = k /\ k \in Nat /\ 0 < k /\ Len(t) = Len(b) /\ Len(b) \in Nat /\ k <= Len(t)
      /\ \A i \in 1 .. k : s[i] = t[i]
  BY LeavesAre
<1>2. s \in Seq(S) /\ t \in Seq(T)
  <2>1. DOMAIN s = 1 .. k /\ s = [i \in 1 .. k |-> s[i]]
    BY LogIs, LeavesAre DEF Leaves
  <2>2. DOMAIN t = 1 .. Len(b) /\ t = [i \in 1 .. Len(b) |-> t[i]]
    BY LogIs, LeavesAre DEF Leaves
  <2> HIDE DEF s, t, k
  <2>3. s \in [1 .. k -> S] /\ t \in [1 .. Len(b) -> T]
    BY <2>1, <2>2
  <2> HIDE DEF S, T
  <2> QED BY <1>1, <2>3
<1> HIDE DEF s, t, S, T, k
<1>3. /\ x \in Seq(S) /\ Len(x) = k /\ \A i \in 1 .. k : x[i] = s[i]
  <2>1. \A i \in 1 .. k : s[i] \in S
    BY <1>1, <1>2
  <2>2. /\ x \in Seq(S) /\ Len(x) = (IF 1 <= k THEN k - 1 + 1 ELSE 0)
        /\ \A i \in 1 .. k - 1 + 1 : x[i] = s[1 + i - 1]
    BY <1>1, <1>2, <2>1, SubSeqProperties
  <2> HIDE DEF x
  <2> QED BY <1>1, <2>2
<1>4. /\ y \in Seq(T) /\ Len(y) = k /\ \A i \in 1 .. k : y[i] = t[i]
  <2>1. \A i \in 1 .. k : t[i] \in T
    BY <1>1, <1>2
  <2>2. /\ y \in Seq(T) /\ Len(y) = (IF 1 <= k THEN k - 1 + 1 ELSE 0)
        /\ \A i \in 1 .. k - 1 + 1 : y[i] = t[1 + i - 1]
    BY <1>1, <1>2, <2>1, SubSeqProperties
  <2> HIDE DEF y
  <2> QED BY <1>1, <2>2
<1>5. x = y
  <2> HIDE DEF x, y
  <2>1. x = [i \in 1 .. k |-> x[i]] /\ y = [i \in 1 .. k |-> y[i]]
    BY <1>3, <1>4
  <2> QED BY <1>1, <1>3, <1>4, <2>1
<1>6. SubSeq(s, 1, Len(s)) = SubSeq(t, 1, Len(s)) /\ Len(s) <= Len(t)
  BY <1>1, <1>5
<1> HIDE DEF x, y
<1>7. IsPrefix(s, t)
  BY <1>6 DEF IsPrefix
<1> QED BY <1>7 DEF s, t

\* Growth verified from a recorded root to a log's own head is growth.
LEMMA GrownPrefix ==
  ASSUME DataInv, RegistersInv, ChecksInv, Verdict, growthOK, NEW a \in Witnesses("root"),
         a.seq = bundle.growth.from, a.link = bundle.growth.root,
         bundle.head.seq = Len(source), bundle.head.link = LogRoot(source)
  PROVE  IsPrefix(Leaves(a.entries), Leaves(source))
<1> DEFINE e == a.entries
           A == Leaves(e)
           S == Leaves(source)
           f == Len(e)
           n == Len(source)
           top == <<0, n>>
<1>1. GrowthHeld(bundle) /\ IsBundle(bundle) /\ IsLog(source)
  BY JudgedIs
<1>2. a \in ledger /\ IsAnchor(a) /\ a.kind = "root"
  BY WitnessIs
<1>3. /\ IsLog(e) /\ f \in Nat \ {0} /\ a.seq = f /\ a.link = Root(A) /\ Len(A) = f
      /\ bundle.growth.from = f /\ bundle.growth.root = Root(A)
  BY <1>2, LogIs, LeavesAre DEF IsAnchor, LogRoot
<1>4. n \in Nat /\ f <= n /\ Binds(Root(S), top, f, A)
  BY <1>1, <1>3, LogIs DEF GrowthHeld, LogRoot
<1>5. /\ top \in Slices(S) /\ top[1] = 0 /\ top[2] = n /\ Root(S) = SliceRoots(S)[top] /\ Len(S) \in Nat
  <2>1. Len(S) = n
    BY <1>1, LeavesAre
  <2> QED BY <1>4, <2>1, TopIs
<1>6. ASSUME NEW i \in 1 .. f PROVE A[i] = S[i]
  <2> DEFINE m == i - 1
             R == SliceRoots(S)
  <2>1. m \in Nat /\ top[1] <= m /\ m < top[2] /\ m + 1 = i /\ m < f
    BY <1>3, <1>4, <1>5
  <2> HIDE DEF m, top, A, S, f
  <2>2. Vouches(R[top], top, m, S[m + 1])
    BY <1>5, <2>1, VouchOwn
  <2>3. S[m + 1] = A[m + 1]
    BY <1>4, <1>5, <2>1, <2>2 DEF Binds
  <2> QED BY <2>1, <2>3
<1>7. 0 < f /\ f <= n
  BY <1>3, <1>4
<1> HIDE DEF top
<1> QED BY <1>1, <1>3, <1>6, <1>7, PrefixOf

TreeInv == DataInv /\ RegistersInv /\ ChecksInv

\* The three parts of the invariant hold together.
LEMMA TreeInvariance == Spec => []TreeInv
<1>1. Init => TreeInv
  BY DataStart, RegistersStart, ChecksStart DEF TreeInv
<1>2. TreeInv /\ [Next]_vars => TreeInv'
  BY DataKept, RegistersKept, ChecksKept DEF TreeInv
<1> QED BY <1>1, <1>2, PTL DEF Spec

\* RootMeansRecorded, of every log, history of restores, set of witnesses and
\* edited bundle: what lies before a matched root is what was recorded.
THEOREM RootIsRecorded == Spec => []RootMeansRecorded
<1>1. TreeInv => RootMeansRecorded
  BY RootShows DEF TreeInv, RootMeansRecorded
<1> QED BY <1>1, TreeInvariance, PTL

\* LeafMeansEntry, of every log, history of restores, set of witnesses and
\* edited bundle: a matched leaf the log is not shown to have grown from is shown
\* as it was recorded.
THEOREM LeafIsEntry == Spec => []LeafMeansEntry
<1>1. TreeInv => LeafMeansEntry
  BY LeafShows DEF TreeInv, LeafMeansEntry
<1> QED BY <1>1, TreeInvariance, PTL

\* GrowthMeansPrefix, of every two logs: verified growth between recorded roots
\* is growth.
THEOREM GrowthIsPrefix == Spec => []GrowthMeansPrefix
<1>1. TreeInv => GrowthMeansPrefix
  <2> SUFFICES ASSUME DataInv, RegistersInv, ChecksInv, Verdict, growthOK, NEW a \in Witnesses("root"),
                      Coords(a) = [seq |-> bundle.growth.from, link |-> bundle.growth.root],
                      Coords(bundle.head) = [seq |-> Len(source), link |-> LogRoot(source)]
               PROVE  IsPrefix(Leaves(a.entries), Leaves(source))
    BY DEF TreeInv, GrowthMeansPrefix
  <2>1. /\ a.seq = bundle.growth.from /\ a.link = bundle.growth.root
        /\ bundle.head.seq = Len(source) /\ bundle.head.link = LogRoot(source)
    BY DEF Coords
  <2> QED BY <2>1, GrownPrefix
<1> QED BY <1>1, TreeInvariance, PTL

-----------------------------------------------------------------------------
(* An untouched bundle passes every check. *)

\* The part of a path read so far, one hash at a time.
LEMMA PathRead ==
  ASSUME NEW U, NEW P \in Seq(U)
  PROVE  /\ SubSeq(P, 1, 0) = << >> /\ SubSeq(P, 1, Len(P)) = P /\ Len(P) \in Nat
         /\ \A k \in 0 .. Len(P) : SubSeq(P, 1, k) \in Seq(U) /\ Len(SubSeq(P, 1, k)) = k
         /\ \A k \in 0 .. Len(P) : k < Len(P) =>
              P[k + 1] \in U /\ SubSeq(P, 1, k + 1) = Append(SubSeq(P, 1, k), P[k + 1])
<1> DEFINE n == Len(P)
<1>1. n \in Nat /\ DOMAIN P = 1 .. n /\ P = [i \in 1 .. n |-> P[i]] /\ \A i \in 1 .. n : P[i] \in U
  OBVIOUS
<1>2. ASSUME NEW k \in 0 .. n
      PROVE  LET Q == SubSeq(P, 1, k) IN
             Q \in Seq(U) /\ Len(Q) = k /\ (\A i \in 1 .. k : Q[i] = P[i]) /\ Q = [i \in 1 .. k |-> Q[i]]
  <2> DEFINE Q == SubSeq(P, 1, k)
  <2>1. k \in Nat /\ k <= n /\ \A i \in 1 .. k : P[i] \in U
    BY <1>1
  <2>2. /\ Q \in Seq(U) /\ Len(Q) = (IF 1 <= k THEN k - 1 + 1 ELSE 0)
        /\ \A i \in 1 .. k - 1 + 1 : Q[i] = P[1 + i - 1]
    BY <1>1, <2>1, SubSeqProperties
  <2> HIDE DEF Q
  <2>3. Len(Q) = k /\ \A i \in 1 .. k : Q[i] = P[i]
    BY <2>1, <2>2
  <2>4. Q = [i \in 1 .. k |-> Q[i]]
    BY <2>2, <2>3
  <2> QED BY <2>2, <2>3, <2>4 DEF Q
<1>3. SubSeq(P, 1, 0) = << >>
  <2> DEFINE Q == SubSeq(P, 1, 0)
  <2>1. Q \in Seq(U) /\ Len(Q) = 0
    BY <1>1, <1>2
  <2> HIDE DEF Q
  <2>2. Q = << >>
    BY <2>1, EmptySeq
  <2> QED BY <2>2 DEF Q
<1>4. SubSeq(P, 1, n) = P
  <2> DEFINE Q == SubSeq(P, 1, n)
  <2>1. n \in 0 .. n
    BY <1>1
  <2>2. (\A i \in 1 .. n : Q[i] = P[i]) /\ Q = [i \in 1 .. n |-> Q[i]]
    BY <1>2, <2>1
  <2> HIDE DEF Q, n
  <2>3. Q = P
    BY <1>1, <2>2
  <2> QED BY <2>3 DEF Q
<1>5. ASSUME NEW k \in 0 .. n, k < n
      PROVE  P[k + 1] \in U /\ SubSeq(P, 1, k + 1) = Append(SubSeq(P, 1, k), P[k + 1])
  <2> DEFINE Q == SubSeq(P, 1, k)
             R == SubSeq(P, 1, k + 1)
             e == P[k + 1]
  <2>1. k \in Nat /\ k + 1 \in 1 .. n /\ k + 1 \in 0 .. n
    BY <1>1, <1>5
  <2>2. e \in U
    BY <1>1, <2>1
  <2>3. Q \in Seq(U) /\ Len(Q) = k /\ \A i \in 1 .. k : Q[i] = P[i]
    BY <1>2
  <2>4. R \in Seq(U) /\ Len(R) = k + 1 /\ \A i \in 1 .. k + 1 : R[i] = P[i]
    BY <1>2, <2>1
  <2> HIDE DEF Q, R, n
  <2>5. R = Append(Q, e)
    <3> DEFINE X == Append(Q, e)
    <3>1. X \in Seq(U) /\ Len(X) = k + 1 /\ X[k + 1] = e /\ \A i \in 1 .. k : X[i] = Q[i]
      BY <2>1, <2>2, <2>3, AppendProperties
    <3> HIDE DEF X
    <3>2. \A i \in 1 .. k + 1 : X[i] = R[i]
      <4> TAKE i \in 1 .. k + 1
      <4>1. i \in 1 .. k \/ i = k + 1
        BY <2>1
      <4>2. R[i] = P[i]
        BY <2>4
      <4>3. CASE i \in 1 .. k
        BY <2>3, <3>1, <4>2, <4>3
      <4>4. CASE i = k + 1
        BY <3>1, <4>2, <4>4
      <4> QED BY <4>1, <4>3, <4>4
    <3>3. X = [i \in 1 .. k + 1 |-> X[i]] /\ R = [i \in 1 .. k + 1 |-> R[i]]
      BY <2>4, <3>1
    <3>4. X = R
      BY <3>2, <3>3
    <3> QED BY <3>4 DEF X
  <2> QED BY <2>2, <2>5 DEF Q, R
<1> QED BY <1>1, <1>2, <1>3, <1>4, <1>5

\* A claim as its producer disclosed it passes, with the path of its leaf.
LEMMA HonestClaim ==
  ASSUME NEW b, IsBundle(b), NEW e, IsLog(e), Honest(b, e), NEW i \in DOMAIN b.claims
  PROVE  LET c == b.claims[i] IN
         /\ ClaimPassed(b, i) /\ c.seq - 1 \in Nat /\ c.seq - 1 < Len(e) /\ c.seq - 1 + 1 = c.seq
         /\ TreeLeaf(b.param, c) = Leaves(e)[c.seq]
         /\ c.path = InclusionProof(c.seq - 1, Leaves(e))
         /\ b.head.seq = Len(e) /\ b.head.link = Root(Leaves(e))
<1> DEFINE c == b.claims[i]
           n == c.seq
           r == e[n].record
           d == Disclosed(e, n)
<1>1. n \in 1 .. Len(e) /\ c = d /\ e[n].install = b.param /\ Len(e) \in Nat
  BY LogIs DEF Honest
<1>2. b.head.seq = Len(e) /\ b.head.link = Root(Leaves(e))
  BY DEF Honest, LogRoot
<1>3. /\ d.chained = TRUE /\ d.included = TRUE /\ d.prev = NoLink /\ d.link = LeafHash(Leaves(e)[n])
      /\ d.path = InclusionProof(n - 1, Leaves(e))
      /\ d.core = r.core /\ d.beside = r.beside /\ d.install = r.install
  BY DEF Disclosed
<1> HIDE DEF d
<1>4. Leaves(e)[n] = TreeLeaf(b.param, r)
  BY <1>1, LeavesAre
<1>5. TreeLeaf(b.param, c) = TreeLeaf(b.param, r)
  <2>1. ClaimContent(c) = ClaimContent(r)
    BY <1>1, <1>3 DEF ClaimContent
  <2> QED BY <2>1 DEF TreeLeaf
<1>6. LeafRecomputes(b, i)
  BY <1>1, <1>3, <1>4, <1>5 DEF LeafRecomputes
<1>7. Ascends(b, i)
  <2>1. \A j \in 1 .. i - 1 : j \in DOMAIN b.claims /\ j < i
    BY BundleIs
  <2> QED BY <2>1 DEF Honest, Ascends
<1>8. ~Misshapen(b, i)
  <2>1. c.chained = TRUE /\ c.included = TRUE /\ c.prev = NoLink /\ ~(c.seq > b.head.seq)
    BY <1>1, <1>2, <1>3
  <2> QED BY <2>1, Zenon DEF Misshapen
<1>9. n - 1 \in Nat /\ n - 1 < Len(e) /\ n - 1 + 1 = n
  BY <1>1
<1> QED BY <1>1, <1>2, <1>3, <1>4, <1>5, <1>6, <1>7, <1>8, <1>9 DEF ClaimPassed

\* The fold of claim i's path, k hashes in.
AuditHeld(b, i, w, k, e) ==
  LET c == b.claims[i] IN
  /\ i \in DOMAIN b.claims /\ k \in 0 .. Len(c.path)
  /\ Audited(Leaves(e), c.seq - 1, TreeLeaf(b.param, c), w, SubSeq(c.path, 1, k))

\* An honest claim's walk starts with nothing read.
LEMMA AuditBegins ==
  ASSUME NEW b, IsBundle(b), NEW e, IsLog(e), Honest(b, e), NEW i \in DOMAIN b.claims
  PROVE  AuditHeld(b, i, InclusionWalk(TreeLeaf(b.param, b.claims[i]), LeafIndex(b.claims[i]),
                                       b.head.seq), 0, e)
<1> DEFINE c == b.claims[i]
           m == c.seq - 1
           data == TreeLeaf(b.param, c)
           S == Leaves(e)
           P == InclusionProof(m, S)
           w == InclusionWalk(data, m, Len(S))
<1>1. m \in Nat /\ m < Len(S) /\ c.path = P /\ b.head.seq = Len(S) /\ Len(S) \in Nat
  BY HonestClaim, LeavesAre
<1>2. LeafIndex(c) = m
  BY DEF LeafIndex
<1> HIDE DEF m, S, data
<1>3. Audited(S, m, data, w, << >>)
  BY <1>1, AuditStart
<1>4. P \in Seq(Hashes(S))
  <2> HIDE DEF w
  <2> QED BY <1>1, <1>3, AuditEnd
<1> HIDE DEF P, w
<1>5. SubSeq(P, 1, 0) = << >> /\ Len(P) \in Nat
  BY <1>4, PathRead
<1>6. AuditHeld(b, i, w, 0, e)
  <2>1. SubSeq(c.path, 1, 0) = << >> /\ 0 \in 0 .. Len(c.path)
    BY <1>1, <1>5
  <2>2. Audited(Leaves(e), c.seq - 1, TreeLeaf(b.param, c), w, SubSeq(c.path, 1, 0))
    BY <1>3, <2>1 DEF m, data, S
  <2> QED BY <2>1, <2>2 DEF AuditHeld
<1> QED BY <1>1, <1>2, <1>6 DEF w, data

\* A hash of an honest path keeps the walk on it.
LEMMA AuditOn ==
  ASSUME NEW b, IsBundle(b), NEW e, IsLog(e), Honest(b, e), NEW i, NEW w, NEW k,
         AuditHeld(b, i, w, k, e), w.sn # 0, k < Len(b.claims[i].path)
  PROVE  AuditHeld(b, i, FoldStep(w, b.claims[i].path[k + 1]), k + 1, e)
<1> DEFINE c == b.claims[i]
           m == c.seq - 1
           data == TreeLeaf(b.param, c)
           S == Leaves(e)
           P == c.path
           U == Hashes(S)
           p == P[k + 1]
           x == FoldStep(w, p)
           taken == SubSeq(P, 1, k)
<1>1. i \in DOMAIN b.claims /\ k \in 0 .. Len(P) /\ Audited(S, m, data, w, taken)
  BY DEF AuditHeld
<1>2. m \in Nat /\ m < Len(S) /\ P = InclusionProof(m, S) /\ Len(S) \in Nat
  BY <1>1, HonestClaim, LeavesAre
<1>3. x = FoldStep(w, p)
  OBVIOUS
<1>4. k < Len(P)
  OBVIOUS
<1> HIDE DEF m, S, data, P, x, p
<1>5. P \in Seq(U)
  <2> HIDE DEF taken, U
  <2> QED BY <1>1, <1>2, AuditEnd DEF U
<1>6. /\ Len(P) \in Nat /\ taken \in Seq(U) /\ p \in U
      /\ SubSeq(P, 1, k + 1) = Append(taken, p)
  <2> HIDE DEF U
  <2> QED BY <1>1, <1>4, <1>5, PathRead DEF p
<1> HIDE DEF taken
<1>7. Hashes(S) \subseteq U
  OBVIOUS
<1> HIDE DEF U
<1>8. Audited(S, m, data, x, Append(taken, p))
  BY <1>1, <1>2, <1>3, <1>6, <1>7, AuditStep
<1>9. k + 1 \in 0 .. Len(P)
  BY <1>1, <1>4, <1>6
<1>10. AuditHeld(b, i, x, k + 1, e)
  BY <1>1, <1>6, <1>8, <1>9 DEF AuditHeld, m, data, S, P
<1> QED BY <1>10 DEF x, p, P

\* The path is as long as the walk is, and proves the leaf.
LEMMA AuditDone ==
  ASSUME NEW b, IsBundle(b), NEW e, IsLog(e), Honest(b, e), NEW i, NEW w, NEW k,
         AuditHeld(b, i, w, k, e)
  PROVE  /\ k < Len(b.claims[i].path) => ~AtRoot(w)
         /\ k = Len(b.claims[i].path) => AtRoot(w) /\ w.second = b.head.link
<1> DEFINE c == b.claims[i]
           m == c.seq - 1
           data == TreeLeaf(b.param, c)
           S == Leaves(e)
           P == c.path
           U == Hashes(S)
           taken == SubSeq(P, 1, k)
<1>1. i \in DOMAIN b.claims /\ k \in 0 .. Len(P) /\ Audited(S, m, data, w, taken)
  BY DEF AuditHeld
<1>2. /\ m \in Nat /\ m < Len(S) /\ P = InclusionProof(m, S) /\ Len(S) \in Nat
      /\ data = S[m + 1] /\ b.head.link = Root(S)
  BY <1>1, HonestClaim, LeavesAre
<1> HIDE DEF m, S, data, P, taken
<1>3. /\ P \in Seq(U)
      /\ w.sn # 0 => Len(taken) < Len(P)
      /\ w.sn = 0 => Len(taken) = Len(P)
      /\ w.sn = 0 /\ taken = P => w.second = Root(S)
  BY <1>1, <1>2, AuditEnd
<1>4. /\ Len(P) \in Nat /\ Len(taken) = k
      /\ k = Len(P) => taken = P
  <2> HIDE DEF U
  <2> QED BY <1>1, <1>3, PathRead DEF taken
<1>5. k \in Nat
  BY <1>1
<1>6. k < Len(P) => w.sn # 0
  BY <1>3, <1>4, <1>5
<1>7. k = Len(P) => w.sn = 0 /\ w.second = Root(S)
  BY <1>3, <1>4, <1>5
<1> QED BY <1>2, <1>6, <1>7 DEF AtRoot, P

\* The log an honest proof of growth starts from, and where it ends.
LEMMA HonestGrowth ==
  ASSUME NEW b, NEW e, IsLog(e), Honest(b, e), HasGrowth(b)
  PROVE  LET A == Leaves(SubSeq(e, 1, b.growth.from))
             S == Leaves(e)
         IN  /\ b.growth.from \in 1 .. Len(e) /\ Len(A) = b.growth.from /\ Len(A) \in Nat /\ 0 < Len(A)
             /\ Len(S) = Len(e) /\ Len(S) \in Nat /\ Len(A) <= Len(S) /\ Begins(A, S)
             /\ b.growth.root = Root(A) /\ b.growth.path = ConsistencyProof(Len(A), S)
             /\ b.head.seq = Len(S) /\ b.head.link = Root(S)
             /\ b.growth.from = b.head.seq => b.growth.path = << >> /\ b.growth.root = b.head.link
<1> DEFINE f == b.growth.from
           A == Leaves(SubSeq(e, 1, f))
           S == Leaves(e)
<1>1. PICK from \in 1 .. Len(e) : b.growth = Growth(e, from)
  BY DEF Honest, HasGrowth
<1>2. f = from
  BY <1>1 DEF Growth
<1>3. b.growth.root = Root(A) /\ b.growth.path = ConsistencyProof(f, S)
  BY <1>1, <1>2 DEF Growth, LogRoot
<1>4. b.head.seq = Len(e) /\ b.head.link = Root(S)
  BY DEF Honest, LogRoot
<1>5. f \in 1 .. Len(e) /\ Len(e) \in Nat
  BY <1>1, <1>2, LogIs
<1> HIDE DEF f
<1>6. Len(A) = f /\ Begins(A, S) /\ Len(S) = Len(e)
  BY <1>5, SubLeaves, LeavesAre
<1> HIDE DEF A, S
<1>7. Len(A) \in Nat /\ 0 < Len(A) /\ Len(A) <= Len(S) /\ Len(S) \in Nat /\ 0 < Len(S)
  BY <1>5, <1>6
<1>8. ASSUME f = b.head.seq PROVE b.growth.path = << >> /\ b.growth.root = b.head.link
  <2>1. f = Len(S)
    BY <1>4, <1>6, <1>8
  <2>2. b.growth.path = << >>
    BY <1>3, <1>7, <2>1, NoProof
  <2>3. Root(A) = Root(S)
    BY <1>6, <1>7, <2>1, OneSize
  <2> QED BY <1>3, <1>4, <2>2, <2>3
<1> QED BY <1>3, <1>4, <1>5, <1>6, <1>7, <1>8 DEF f, A, S

\* The fold of a proof of growth, k hashes in.
GrowHeld(b, w, k, e) ==
  /\ HasGrowth(b) /\ b.growth.from < b.head.seq /\ k \in 0 .. Len(b.growth.path)
  /\ Growing(Leaves(SubSeq(e, 1, b.growth.from)), Leaves(e), w, SubSeq(b.growth.path, 1, k))

\* An honest proof starts with its first hash, or with the earlier root.
LEMMA GrowBegins ==
  ASSUME NEW b, NEW e, IsLog(e), Honest(b, e), HasGrowth(b), b.growth.from < b.head.seq,
         NEW at, at = Boundary(b.growth.from - 1, b.head.seq - 1)
  PROVE  /\ b.growth.path # << >>
         /\ GrowHeld(b, WalkFrom(at, IF at.fn = 0 THEN b.growth.root ELSE Head(b.growth.path)),
                     IF at.fn = 0 THEN 0 ELSE 1, e)
<1> DEFINE A == Leaves(SubSeq(e, 1, b.growth.from))
           S == Leaves(e)
           P == b.growth.path
           h == IF at.fn = 0 THEN b.growth.root ELSE Head(P)
           k == IF at.fn = 0 THEN 0 ELSE 1
           w == WalkFrom(at, h)
<1>1. /\ Len(A) = b.growth.from /\ Len(A) \in Nat /\ 0 < Len(A) /\ Len(S) \in Nat
      /\ b.growth.root = Root(A) /\ P = ConsistencyProof(Len(A), S)
      /\ b.head.seq = Len(S)
  BY HonestGrowth
<1>2. Len(A) < Len(S) /\ at = Boundary(Len(A) - 1, Len(S) - 1)
  BY <1>1
<1> HIDE DEF A, S, P
<1>3. /\ at.fn = 0 => Growing(A, S, WalkFrom(at, Root(A)), << >>)
      /\ at.fn # 0 => \A p : Growing(A, S, WalkFrom(at, p), <<p>>)
      /\ P # << >>
  BY <1>1, <1>2, GrowStart DEF ConsistencyProof
<1>4. Len(A) <= Len(S)
  BY <1>1, <1>2
<1>5. P \in Seq(Hashes(S))
  <2>1. \E v, path : Growing(A, S, v, path)
    BY <1>3
  <2> QED BY <1>1, <1>4, <2>1, GrowEnd
<1>6. /\ Len(P) \in Nat \ {0} /\ SubSeq(P, 1, 0) = << >>
      /\ SubSeq(P, 1, 1) = <<Head(P)>>
  <2> DEFINE U == Hashes(S)
  <2>1. P \in Seq(U)
    BY <1>5
  <2> HIDE DEF U
  <2>2. Len(P) \in Nat \ {0} /\ Head(P) = P[1]
    BY <1>3, <2>1, EmptySeq
  <2>3. 0 \in 0 .. Len(P) /\ 0 < Len(P)
    BY <2>2
  <2>4. SubSeq(P, 1, 0) = << >> /\ SubSeq(P, 1, 0 + 1) = Append(SubSeq(P, 1, 0), P[0 + 1])
    BY <2>1, <2>3, PathRead
  <2>5. 0 + 1 = 1
    OBVIOUS
  <2>6. SubSeq(P, 1, 1) = Append(<< >>, P[1])
    BY <2>4, <2>5
  <2>7. Append(<< >>, P[1]) = <<P[1]>>
    OBVIOUS
  <2> QED BY <2>2, <2>4, <2>6, <2>7
<1>7. k \in 0 .. Len(P)
  BY <1>6
<1>8. Growing(A, S, w, SubSeq(P, 1, k))
  <2>1. CASE at.fn = 0
    <3>1. h = Root(A) /\ k = 0
      BY <1>1, <2>1
    <3> QED BY <1>3, <1>6, <2>1, <3>1
  <2>2. CASE at.fn # 0
    <3>1. h = Head(P) /\ k = 1
      BY <2>2
    <3> QED BY <1>3, <1>6, <2>2, <3>1
  <2> QED BY <2>1, <2>2
<1>9. GrowHeld(b, w, k, e)
  <2> HIDE DEF k, w
  <2> QED BY <1>7, <1>8 DEF GrowHeld, A, S, P
<1> QED BY <1>3, <1>9 DEF P

\* A hash of an honest proof keeps the walk on it.
LEMMA GrowOn ==
  ASSUME NEW b, NEW e, IsLog(e), Honest(b, e), NEW w, NEW k,
         GrowHeld(b, w, k, e), w.sn # 0, k < Len(b.growth.path)
  PROVE  GrowHeld(b, FoldStep(w, b.growth.path[k + 1]), k + 1, e)
<1> DEFINE A == Leaves(SubSeq(e, 1, b.growth.from))
           S == Leaves(e)
           P == b.growth.path
           U == Hashes(S)
           p == P[k + 1]
           x == FoldStep(w, p)
           taken == SubSeq(P, 1, k)
<1>1. /\ HasGrowth(b) /\ b.growth.from < b.head.seq /\ k \in 0 .. Len(P)
      /\ Growing(A, S, w, taken)
  BY DEF GrowHeld
<1>2. /\ Len(A) \in Nat /\ 0 < Len(A) /\ Len(S) \in Nat /\ Len(A) <= Len(S)
      /\ P = ConsistencyProof(Len(A), S)
  BY <1>1, HonestGrowth
<1>3. x = FoldStep(w, p) /\ k < Len(P)
  OBVIOUS
<1> HIDE DEF A, S, P, x, p
<1>5. P \in Seq(U)
  <2> HIDE DEF taken
  <2> QED BY <1>1, <1>2, GrowEnd
<1>6. /\ Len(P) \in Nat /\ taken \in Seq(U) /\ p \in U
      /\ SubSeq(P, 1, k + 1) = Append(taken, p)
  <2> HIDE DEF U
  <2> QED BY <1>1, <1>3, <1>5, PathRead DEF p
<1> HIDE DEF taken
<1>7. Hashes(S) \subseteq U
  OBVIOUS
<1> HIDE DEF U
<1>8. Growing(A, S, x, Append(taken, p))
  BY <1>1, <1>2, <1>3, <1>6, <1>7, GrowStep
<1>9. k + 1 \in 0 .. Len(P)
  BY <1>1, <1>3, <1>6
<1>10. GrowHeld(b, x, k + 1, e)
  BY <1>1, <1>6, <1>8, <1>9 DEF GrowHeld, A, S, P
<1> QED BY <1>10 DEF x, p, P

\* The proof is as long as the walk is, and proves the growth.
LEMMA GrowDone ==
  ASSUME NEW b, NEW e, IsLog(e), Honest(b, e), NEW w, NEW k, GrowHeld(b, w, k, e)
  PROVE  /\ k < Len(b.growth.path) => ~AtRoot(w)
         /\ k = Len(b.growth.path) => GrowthProved(b, w)
<1> DEFINE A == Leaves(SubSeq(e, 1, b.growth.from))
           S == Leaves(e)
           P == b.growth.path
           U == Hashes(S)
           taken == SubSeq(P, 1, k)
<1>1. HasGrowth(b) /\ k \in 0 .. Len(P) /\ Growing(A, S, w, taken)
  BY DEF GrowHeld
<1>2. /\ Len(A) \in Nat /\ 0 < Len(A) /\ Len(S) \in Nat /\ Len(A) <= Len(S) /\ Begins(A, S)
      /\ P = ConsistencyProof(Len(A), S) /\ b.growth.root = Root(A) /\ b.head.link = Root(S)
  BY <1>1, HonestGrowth
<1> HIDE DEF A, S, P, taken
<1>3. /\ P \in Seq(U)
      /\ w.sn # 0 => Len(taken) < Len(P)
      /\ w.sn = 0 => Len(taken) = Len(P)
      /\ w.sn = 0 /\ taken = P => w.first = Root(A) /\ w.second = Root(S)
  BY <1>1, <1>2, GrowEnd
<1>4. /\ Len(P) \in Nat /\ Len(taken) = k
      /\ k = Len(P) => taken = P
  <2> HIDE DEF U
  <2> QED BY <1>1, <1>3, PathRead DEF taken
<1>5. k \in Nat
  BY <1>1
<1>6. k < Len(P) => w.sn # 0
  BY <1>3, <1>4, <1>5
<1>7. k = Len(P) => w.sn = 0 /\ w.first = Root(A) /\ w.second = Root(S)
  BY <1>3, <1>4, <1>5
<1> QED BY <1>2, <1>6, <1>7 DEF AtRoot, GrowthProved, P

HonestInv ==
  phase \notin {"idle", "transit"} /\ edits = 0 =>
    /\ err = ""
    /\ phase = "path" => AuditHeld(bundle, pos, walk, read, source)
    /\ phase = "proof" => GrowHeld(bundle, walk, read, source)
    /\ phase \in Judging /\ HasGrowth(bundle) => growthOK = TRUE

\* An untouched bundle under verification.
Untouched ==
  /\ IsBundle(bundle) /\ IsLog(source) /\ Honest(bundle, source) /\ ChecksInv /\ HonestInv
  /\ edits = 0 /\ UNCHANGED <<edits, source, bundle>>

\* An untouched bundle is declared as it has to be.
LEMMA HonestDeclared == Untouched /\ CheckDeclaration => HonestInv'
<1> SUFFICES ASSUME Untouched, CheckDeclaration PROVE HonestInv'
  OBVIOUS
<1> DEFINE K == bundle.keyed
<1>1. /\ K = FALSE /\ bundle.param # NoInstall /\ bundle.param = bundle.producer
      /\ bundle.head.prev = NoLink
  BY DEF Untouched, Honest
<1>2. /\ ~(K \/ bundle.param = NoInstall)
      /\ ~(bundle.param # bundle.producer \/ bundle.head.prev # NoLink)
  <2> HIDE DEF K
  <2> QED BY <1>1, Zenon
<1>3. TreeGoto("claim") /\ err = ""
  BY <1>2 DEF CheckDeclaration, Untouched, HonestInv
<1> HIDE DEF K
<1>4. phase' = "claim" /\ err' = ""
  BY <1>3 DEF TreeGoto
<1> QED BY <1>4 DEF HonestInv, Judging

\* Its claims have their shape, their order and their leaves.
LEMMA HonestChecked == Untouched /\ CheckClaim => HonestInv'
<1> SUFFICES ASSUME Untouched, CheckClaim PROVE HonestInv'
  OBVIOUS
<1>1. /\ IsBundle(bundle) /\ IsLog(source) /\ Honest(bundle, source) /\ phase = "claim" /\ err = ""
      /\ UNCHANGED <<edits, source, bundle>>
  BY DEF Untouched, HonestInv, CheckClaim
<1>2. pos \in DOMAIN bundle.claims => ClaimPassed(bundle, pos)
  BY <1>1, HonestClaim
<1>3. CASE pos \notin DOMAIN bundle.claims
  <2>1. phase' = "growth" /\ err' = ""
    BY <1>1, <1>3 DEF CheckClaim, TreeGoto
  <2> QED BY <2>1 DEF HonestInv, Judging
<1>4. CASE pos \in DOMAIN bundle.claims
  <2>1. ~Misshapen(bundle, pos) /\ Ascends(bundle, pos) /\ LeafRecomputes(bundle, pos)
    BY <1>2, <1>4 DEF ClaimPassed
  <2>2. /\ walk' = InclusionWalk(TreeLeaf(bundle.param, bundle.claims[pos]),
                                 LeafIndex(bundle.claims[pos]), bundle.head.seq)
        /\ read' = 0 /\ TreeGoto("path") /\ pos' = pos
    BY <1>4, <2>1 DEF CheckClaim
  <2>3. phase' = "path" /\ err' = ""
    BY <1>1, <2>2 DEF TreeGoto
  <2>4. AuditHeld(bundle, pos, walk', read', source)
    BY <1>1, <1>4, <2>2, AuditBegins
  <2> QED BY <1>1, <2>2, <2>3, <2>4 DEF HonestInv, Judging
<1> QED BY <1>3, <1>4

\* Their paths come to the root.
LEMMA HonestFolded == Untouched /\ FoldClaim => HonestInv'
<1> SUFFICES ASSUME Untouched, FoldClaim PROVE HonestInv'
  OBVIOUS
<1> DEFINE P == bundle.claims[pos].path
<1>1. /\ IsBundle(bundle) /\ IsLog(source) /\ Honest(bundle, source) /\ phase = "path" /\ err = ""
      /\ AuditHeld(bundle, pos, walk, read, source) /\ UNCHANGED <<edits, source, bundle>>
  BY DEF Untouched, HonestInv, FoldClaim
<1>2. /\ read < Len(P) => ~AtRoot(walk)
      /\ read = Len(P) => AtRoot(walk) /\ walk.second = bundle.head.link
  BY <1>1, AuditDone
<1>3. CASE /\ read < Len(P) /\ ~AtRoot(walk) /\ walk' = FoldStep(walk, P[read + 1])
           /\ read' = read + 1 /\ TreeGoto(phase) /\ UNCHANGED pos
  <2>1. phase' = "path" /\ err' = ""
    BY <1>1, <1>3 DEF TreeGoto
  <2>2. AuditHeld(bundle, pos, walk', read', source)
    BY <1>1, <1>3, AuditOn DEF AtRoot
  <2> QED BY <1>1, <1>3, <2>1, <2>2 DEF HonestInv, Judging
<1>4. CASE TreeGoto("claim")
  <2>1. phase' = "claim" /\ err' = ""
    BY <1>1, <1>4 DEF TreeGoto
  <2> QED BY <2>1 DEF HonestInv, Judging
<1> QED BY <1>2, <1>3, <1>4 DEF FoldClaim, FoldHash

\* Its growth has a proof, if one is needed.
LEMMA HonestGrown == Untouched /\ CheckGrowth => HonestInv'
<1> SUFFICES ASSUME Untouched, CheckGrowth PROVE HonestInv'
  OBVIOUS
<1> DEFINE g == bundle.growth
           n == bundle.head.seq
           at == Boundary(g.from - 1, n - 1)
<1>1. /\ IsBundle(bundle) /\ IsLog(source) /\ Honest(bundle, source) /\ phase = "growth" /\ err = ""
      /\ UNCHANGED <<edits, source, bundle>>
  BY DEF Untouched, HonestInv, CheckGrowth
<1>2. CASE ~HasGrowth(bundle)
  <2>1. phase' = "anchors" /\ err' = "" /\ ~HasGrowth(bundle')
    BY <1>1, <1>2 DEF CheckGrowth
  <2> QED BY <2>1 DEF HonestInv, Judging
<1>3. CASE HasGrowth(bundle)
  <2>1. /\ g.from \in Nat /\ n \in Nat /\ g.from <= n
        /\ g.from = n => g.path = << >> /\ g.root = bundle.head.link
    BY <1>1, <1>3, HonestGrowth
  <2>2. CASE g.from = n
    <3>1. ~(g.from > n) /\ ~(g.from < n)
      BY <2>1, <2>2
    <3>2. growthOK' = TRUE /\ phase' = "anchors" /\ err' = err
      BY <1>3, <2>1, <2>2, <3>1 DEF CheckGrowth
    <3> QED BY <1>1, <3>2 DEF HonestInv, Judging
  <2>3. CASE g.from < n
    <3>1. /\ g.path # << >>
          /\ GrowHeld(bundle, WalkFrom(at, IF at.fn = 0 THEN g.root ELSE Head(g.path)),
                      IF at.fn = 0 THEN 0 ELSE 1, source)
      BY <1>1, <1>3, <2>3, GrowBegins
    <3>2. ~(g.from > n) /\ ~(g.from = n)
      BY <2>1, <2>3
    <3>3. /\ walk' = WalkFrom(at, IF at.fn = 0 THEN g.root ELSE Head(g.path))
          /\ read' = IF at.fn = 0 THEN 0 ELSE 1
          /\ TreeGoto("proof")
      <4> HIDE DEF g, n, at
      <4> QED BY <1>3, <3>1, <3>2 DEF CheckGrowth, g, n, at
    <3>4. phase' = "proof" /\ err' = ""
      BY <1>1, <3>3 DEF TreeGoto
    <3>5. GrowHeld(bundle, walk', read', source)
      <4> HIDE DEF at
      <4> QED BY <3>1, <3>3
    <3> QED BY <1>1, <3>4, <3>5 DEF HonestInv, Judging
  <2> QED BY <2>1, <2>2, <2>3
<1> QED BY <1>2, <1>3

\* The proof comes to both roots.
LEMMA HonestProved == Untouched /\ FoldGrowth => HonestInv'
<1> SUFFICES ASSUME Untouched, FoldGrowth PROVE HonestInv'
  OBVIOUS
<1> DEFINE P == bundle.growth.path
<1>1. /\ IsBundle(bundle) /\ IsLog(source) /\ Honest(bundle, source) /\ phase = "proof" /\ err = ""
      /\ GrowHeld(bundle, walk, read, source) /\ UNCHANGED <<edits, source, bundle>>
  BY DEF Untouched, HonestInv, FoldGrowth
<1>2. /\ read < Len(P) => ~AtRoot(walk)
      /\ read = Len(P) => GrowthProved(bundle, walk)
  BY <1>1, GrowDone
<1>3. CASE /\ read < Len(P) /\ ~AtRoot(walk) /\ walk' = FoldStep(walk, P[read + 1])
           /\ read' = read + 1 /\ TreeGoto(phase)
  <2>1. phase' = "proof" /\ err' = ""
    BY <1>1, <1>3 DEF TreeGoto
  <2>2. GrowHeld(bundle, walk', read', source)
    BY <1>1, <1>3, GrowOn DEF AtRoot
  <2> QED BY <1>1, <1>3, <2>1, <2>2 DEF HonestInv, Judging
<1>4. CASE growthOK' = TRUE /\ phase' = "anchors" /\ err' = err
  BY <1>1, <1>4 DEF HonestInv, Judging
<1> QED BY <1>2, <1>3, <1>4 DEF FoldGrowth, FoldHash

\* The report changes none of it.
LEMMA HonestJudged == Untouched /\ CheckTreeAnchors => HonestInv'
<1> SUFFICES ASSUME Untouched, CheckTreeAnchors PROVE HonestInv'
  OBVIOUS
<1>1. /\ phase = "anchors" /\ phase' = "done" /\ UNCHANGED <<edits, source, bundle, err, growthOK>>
  BY DEF Untouched, CheckTreeAnchors
<1>2. err = "" /\ (HasGrowth(bundle) => growthOK = TRUE)
  BY <1>1 DEF Untouched, HonestInv, Judging
<1> QED BY <1>1, <1>2 DEF HonestInv, Judging

\* Every step keeps an untouched bundle free of errors.
LEMMA HonestKept == DataInv /\ ChecksInv /\ HonestInv /\ [Next]_vars => HonestInv'
<1> SUFFICES ASSUME DataInv, ChecksInv, HonestInv, [Next]_vars PROVE HonestInv'
  OBVIOUS
<1>1. CASE Run
  <2>1. VerifyTree /\ UNCHANGED <<edits, source>>
    BY <1>1 DEF Run
  <2>2. bundle' = bundle /\ phase # "idle"
    BY <2>1, RunReads
  <2>3. CASE edits # 0
    BY <2>1, <2>3 DEF HonestInv
  <2>4. CASE edits = 0
    <3>1. Untouched
      BY <2>1, <2>2, <2>4 DEF Untouched, DataInv
    <3> QED BY <2>1, <3>1, HonestDeclared, HonestChecked, HonestFolded, HonestGrown, HonestProved,
               HonestJudged DEF VerifyTree
  <2> QED BY <2>3, <2>4
<1>2. CASE Discard
  BY <1>2 DEF Discard, HonestInv
<1>3. CASE Export \/ ExportOther
  BY <1>3 DEF Export, ExportOther, Cut, HonestInv
<1>4. CASE Deliver
  <2>1. phase = "transit" /\ phase' = "declared" /\ err' = err
    BY <1>4 DEF Deliver
  <2>2. err = ""
    BY <2>1 DEF ChecksInv, Judging
  <2> QED BY <2>1, <2>2 DEF HonestInv, Judging
<1>5. CASE Edit
  <2>1. phase = "transit" /\ UNCHANGED treeVars
    BY <1>5 DEF Edit, Repackage, AlterClaim, MoveClaim, SpliceClaim, DropClaim, SetHead, SetGrowth,
                Graft, Relabel, Edited
  <2>2. phase' = "transit"
    BY <2>1 DEF treeVars, runVars
  <2> QED BY <2>2 DEF HonestInv
<1>6. CASE Append1 \/ Restore \/ AnchorRoot \/ AnchorLeaf \/ UNCHANGED vars
  <2>1. UNCHANGED treeVars /\ UNCHANGED fileVars
    BY <1>6 DEF Append1, Restore, AnchorRoot, AnchorLeaf, Recorded, vars
  <2> QED BY <2>1 DEF treeVars, runVars, foldVars, fileVars, HonestInv
<1> QED BY <1>1, <1>2, <1>3, <1>4, <1>5, <1>6 DEF Next

\* An anchor that names a root of an honest bundle is matched.
LEMMA HonestMatched ==
  ASSUME NEW b, IsBundle(b), NEW e, IsLog(e), Honest(b, e), NEW h, h = TRUE, NEW g \in BOOLEAN,
         g <=> HasGrowth(b), NEW a \in b.anchors,
         a \in {Coords(b.head), [seq |-> b.growth.from, link |-> b.growth.root]}
  PROVE  TreeVerified(b, h, g, a)
<1>1. a.seq \in Nat \ {0}
  BY BundleIs
<1>2. CASE a = Coords(b.head)
  <2>1. a.seq = b.head.seq /\ a.link = b.head.link
    BY <1>2 DEF Coords
  <2>2. ASSUME HasGrowth(b), a.seq = b.growth.from PROVE a.link = b.growth.root
    BY <2>1, <2>2, HonestGrowth
  <2>3. Verified(b, h, a)
    BY <2>1 DEF Verified
  <2> QED BY <2>2, <2>3, Zenon DEF TreeVerified
<1>3. CASE a = [seq |-> b.growth.from, link |-> b.growth.root]
  <2>1. a.seq = b.growth.from /\ a.link = b.growth.root
    BY <1>3
  <2>2. HasGrowth(b)
    <3>1. NoGrowth.from = 0
      BY DEF NoGrowth
    <3> QED BY <1>1, <2>1, <3>1 DEF HasGrowth
  <2> QED BY <2>1, <2>2, Zenon DEF TreeVerified
<1> QED BY <1>2, <1>3

\* HonestBundleVerifies, of every log, choice of leaves and earlier size: what an
\* untouched bundle proves, the verifier finds proved.
THEOREM HonestVerifies == Spec => []HonestBundleVerifies
<1>1. TreeInv /\ HonestInv => HonestBundleVerifies
  <2> SUFFICES ASSUME DataInv, RegistersInv, ChecksInv, HonestInv, phase = "done", edits = 0
               PROVE  /\ err = "" /\ (growthOK <=> HasGrowth(bundle))
                      /\ \A a \in bundle.anchors :
                           a \in {Coords(bundle.head),
                                  [seq |-> bundle.growth.from, link |-> bundle.growth.root]}
                             => TreeVerified(bundle, headMatched, growthOK, a)
    BY DEF TreeInv, HonestBundleVerifies
  <2>1. IsBundle(bundle) /\ IsLog(source) /\ Honest(bundle, source)
    BY DEF DataInv
  <2>2. err = "" /\ (HasGrowth(bundle) => growthOK = TRUE)
    BY DEF HonestInv, Judging
  <2>3. headMatched = TRUE /\ (growthOK = TRUE => HasGrowth(bundle))
    BY <2>2 DEF ChecksInv, Judging, GrowthHeld
  <2>4. growthOK \in BOOLEAN
    BY DEF RegistersInv
  <2>5. growthOK <=> HasGrowth(bundle)
    BY <2>2, <2>3, <2>4, Zenon
  <2>6. \A a \in bundle.anchors :
          a \in {Coords(bundle.head), [seq |-> bundle.growth.from, link |-> bundle.growth.root]}
            => TreeVerified(bundle, headMatched, growthOK, a)
    BY <2>1, <2>3, <2>4, <2>5, HonestMatched
  <2> QED BY <2>2, <2>5, <2>6
<1>2. Init => HonestInv
  BY DEF Init, HonestInv
<1>3. TreeInv /\ HonestInv /\ [Next]_vars => HonestInv'
  BY HonestKept DEF TreeInv
<1> QED BY <1>1, <1>2, <1>3, TreeInvariance, PTL DEF Spec
-----------------------------------------------------------------------------
(* The walk over a tree bundle ends. *)

\* Carrying an odd node up never takes a place farther from the root.
LEMMA CarriedLower ==
  ASSUME NEW x \in Places
  PROVE  Carried(x) \in Places /\ Carried(x).sn <= x.sn
<1> DEFINE Low(y) == Carried(y) \in Places /\ Carried(y).sn <= y.sn
           S == {d \in Nat : \A y \in Places : y.fn <= d => Low(y)}
<1>1. ASSUME NEW y \in Places, ~(y.fn % 2 = 0 /\ y.fn # 0) PROVE Low(y)
  <2>1. Carried(y) = y
    BY <1>1, CarriedIs
  <2>2. y.sn <= y.sn
    BY AboveIs
  <2> QED BY <2>1, <2>2
<1>2. ASSUME NEW y \in Places, y.fn % 2 = 0, y.fn # 0, Low(Above(y)) PROVE Low(y)
  <2>1. Carried(y) = Carried(Above(y))
    BY <1>2, CarriedIs
  <2>2. Above(y).sn = y.sn \div 2 /\ y.sn \in Nat /\ Carried(y) \in Places /\ Carried(y).sn <= Above(y).sn
    BY <1>2, <2>1, AboveIs
  <2>3. Carried(y).sn \in Nat
    BY <2>2, AboveIs
  <2> QED BY <2>2, <2>3
<1>3. 0 \in S
  <2>1. \A y \in Places : y.fn <= 0 => ~(y.fn % 2 = 0 /\ y.fn # 0)
    BY AboveIs
  <2> HIDE DEF Low
  <2> QED BY <1>1, <2>1
<1>4. ASSUME NEW d \in Nat, d \in S PROVE d + 1 \in S
  <2> HIDE DEF Low
  <2> SUFFICES ASSUME NEW y \in Places, y.fn <= d + 1, y.fn % 2 = 0, y.fn # 0 PROVE Low(y)
    BY <1>1
  <2>1. Above(y) \in Places /\ Above(y).fn <= d
    BY AboveIs
  <2>2. Low(Above(y))
    BY <1>4, <2>1
  <2> QED BY <1>2, <2>2
<1>5. x.fn \in Nat /\ x.fn <= x.fn
  BY AboveIs
<1>6. x.fn \in S
  <2> HIDE DEF S
  <2> QED BY <1>3, <1>4, <1>5, Upwards
<1> QED BY <1>5, <1>6

\* A hash folded in takes a walk nearer the root.
LEMMA FoldNearer ==
  ASSUME NEW w, IsWalk(w), w.sn # 0, NEW p
  PROVE  w.sn \in Nat /\ FoldStep(w, p).sn \in Nat /\ FoldStep(w, p).sn < w.sn
<1> DEFINE x == FoldStep(w, p)
           at == [fn |-> w.fn, sn |-> w.sn]
<1>1. w.fn \in Nat /\ w.sn \in Nat
  BY DEF IsWalk, Stands
<1>2. at \in Places /\ at.sn = w.sn
  BY <1>1 DEF Places
<1>3. x.sn = Above(Carried(at)).sn \/ x.sn = Above(at).sn
  BY DEF FoldStep
<1> HIDE DEF x, at
<1>4. \A y \in Places : y.sn <= w.sn => Above(y).sn \in Nat /\ Above(y).sn < w.sn
  <2> SUFFICES ASSUME NEW y \in Places, y.sn <= w.sn PROVE Above(y).sn \in Nat /\ Above(y).sn < w.sn
    OBVIOUS
  <2>1. Above(y).sn = y.sn \div 2 /\ y.sn \in Nat
    BY AboveIs
  <2> QED BY <1>1, <2>1
<1>5. Carried(at) \in Places /\ Carried(at).sn <= w.sn /\ at.sn <= w.sn
  BY <1>1, <1>2, CarriedLower
<1> QED BY <1>1, <1>2, <1>3, <1>4, <1>5 DEF x

\* Where a walk stands lies inside the tree the head declares.
LEMMA InTree ==
  ASSUME NEW w, NEW n \in Nat, NEW q, Stands(w, n, q)
  PROVE  w.sn \in Nat /\ w.sn < n
<1>1. q \in Nat \ {0} /\ w.sn \in Nat /\ 1 \in Nat /\ 1 <= q
  BY PowersHalve DEF Stands
<1>2. 1 * w.sn <= q * w.sn
  BY <1>1, Scaled
<1>3. q * w.sn = w.sn * q /\ 1 * w.sn = w.sn /\ w.sn * q < n /\ w.sn * q \in Nat
  BY <1>1 DEF Stands
<1> QED BY <1>1, <1>2, <1>3

\* How many parts of the verifier's work are still ahead, the one under way
\* included: the declaration, two for each claim, growth and its proof, the anchors.
Stage ==
  LET ahead == 2 * (Len(bundle.claims) + 1 - pos) IN
  IF phase = "declared" THEN 2 * Len(bundle.claims) + 5
  ELSE IF phase = "claim" THEN ahead + 4
  ELSE IF phase = "path" THEN ahead + 3
  ELSE IF phase = "growth" THEN 3
  ELSE IF phase = "proof" THEN 2
  ELSE IF phase = "anchors" THEN 1
  ELSE 0

\* How far a fold under way is from the root.
Height == IF phase \in {"path", "proof"} THEN walk.sn ELSE 0

\* Steps a bundle still takes at most: a part takes no more of them than there are
\* leaves in the tree the head declares.
StepsLeft == Stage * bundle.head.seq + Height

\* In the walk, a step leaves fewer of them, and ends nowhere but at a verdict.
Nearer ==
  phase \in TreeWalking => /\ phase' \in TreeWalking \union {"done"}
                           /\ StepsLeft' \in Nat /\ StepsLeft' < StepsLeft

\* The loop over the claims is at most at its end, a fold inside the head's tree.
PlaceInv ==
  /\ phase = "claim" => pos \in 1 .. Len(bundle.claims) + 1
  /\ phase = "path" => pos \in 1 .. Len(bundle.claims)
  /\ phase \in {"path", "proof"} => walk.sn < bundle.head.seq

\* Files come in and go out outside the walk, and nothing else moves in it.
LEMMA WalkAlone ==
  ASSUME [Next]_vars, phase \in TreeWalking
  PROVE  VerifyTree \/ UNCHANGED vars
BY DEF Next, Run, Append1, Restore, AnchorRoot, AnchorLeaf, Recorded, Export, ExportOther, Cut, Edit,
       Repackage, AlterClaim, MoveClaim, SpliceClaim, DropClaim, SetHead, SetGrowth, Graft, Relabel,
       Edited, Deliver, Discard, TreeWalking

\* Where there are places and heights, what is left can be counted.
LEMMA StepsCount ==
  IsBundle(bundle) /\ IsWalk(walk) /\ pos \in Nat /\ PlaceInv =>
    /\ bundle.head.seq \in Nat \ {0} /\ Len(bundle.claims) \in Nat \ {0}
    /\ Stage \in 0 .. 2 * Len(bundle.claims) + 5 /\ Height \in 0 .. bundle.head.seq - 1
    /\ phase \in TreeWalking <=> Stage # 0
    /\ Stage = 2 * Len(bundle.claims) + 5 => Height = 0
<1> HAVE IsBundle(bundle) /\ IsWalk(walk) /\ pos \in Nat /\ PlaceInv
<1> DEFINE n == Len(bundle.claims)
           size == bundle.head.seq
<1>1. size \in Nat \ {0} /\ n \in Nat \ {0}
  BY BundleIs
<1>2. walk.sn \in Nat
  BY DEF IsWalk, Stands
<1>3. Height \in 0 .. size - 1
  BY <1>1, <1>2 DEF Height, PlaceInv
<1>4. Stage \in 0 .. 2 * n + 5 /\ (phase \in TreeWalking <=> Stage # 0)
  BY <1>1 DEF Stage, PlaceInv, TreeWalking
<1>5. Stage = 2 * n + 5 => Height = 0
  BY <1>1 DEF Stage, Height, PlaceInv
<1> QED BY <1>1, <1>3, <1>4, <1>5

\* A step ends a part, or takes its fold nearer the root, and stays in its bounds.
LEMMA StageOrHeight ==
  ASSUME IsBundle(bundle), IsWalk(walk), pos \in Nat, PlaceInv, VerifyTree
  PROVE  PlaceInv' /\ (Stage' < Stage \/ (Stage' = Stage /\ Height' < Height))
<1> DEFINE n == Len(bundle.claims)
           size == bundle.head.seq
<1>0. bundle' = bundle /\ size \in Nat \ {0} /\ n \in Nat \ {0} /\ DOMAIN bundle.claims = 1 .. n
  BY RunReads, BundleIs
<1>1. ASSUME NEW path, FoldHash(path), phase \in {"path", "proof"}
      PROVE  \/ phase' = "anchors"
             \/ phase' = phase /\ pos' = pos /\ walk'.sn \in Nat /\ walk'.sn < walk.sn
  <2>1. \/ phase' = "anchors"
        \/ phase' = phase /\ pos' = pos /\ walk.sn # 0 /\ walk' = FoldStep(walk, path[read + 1])
    BY <1>1 DEF FoldHash, TreeFail, TreeGoto, AtRoot
  <2> QED BY <2>1, FoldNearer
<1>2. CASE CheckDeclaration
  <2>1. phase = "declared" /\ (phase' = "anchors" \/ (phase' = "claim" /\ pos' = 1))
    BY <1>2 DEF CheckDeclaration, TreeFail, TreeGoto
  <2> QED BY <1>0, <2>1 DEF Stage, PlaceInv
<1>3. CASE CheckClaim
  <2>1. /\ phase = "claim"
        /\ \/ phase' = "anchors" \/ phase' = "growth"
           \/ /\ phase' = "path" /\ pos' = pos /\ pos \in DOMAIN bundle.claims
              /\ walk' = InclusionWalk(TreeLeaf(bundle.param, bundle.claims[pos]),
                                       LeafIndex(bundle.claims[pos]), size)
    BY <1>3 DEF CheckClaim, TreeFail, TreeGoto
  <2>2. \/ phase' = "anchors" \/ phase' = "growth"
        \/ phase' = "path" /\ pos' = pos /\ pos \in 1 .. n /\ walk'.sn = size - 1
    BY <1>0, <2>1 DEF InclusionWalk, WalkFrom
  <2>3. phase = "claim" /\ pos \in 1 .. n + 1
    BY <2>1 DEF PlaceInv
  <2>4. PlaceInv'
    <3>1. size - 1 < size
      BY <1>0
    <3> QED BY <1>0, <2>2, <3>1 DEF PlaceInv
  <2>5. Stage' < Stage
    <3> HIDE DEF size
    <3> QED BY <1>0, <2>2, <2>3 DEF Stage
  <2> QED BY <2>4, <2>5
<1>4. CASE FoldClaim
  <2>1. /\ phase = "path"
        /\ \/ phase' = "anchors"
           \/ phase' = "path" /\ pos' = pos /\ walk'.sn \in Nat /\ walk'.sn < walk.sn
           \/ phase' = "claim" /\ pos' = pos + 1
    BY <1>1, <1>4 DEF FoldClaim, TreeFail, TreeGoto
  <2>2. walk.sn \in Nat
    BY DEF IsWalk, Stands
  <2> QED BY <1>0, <2>1, <2>2 DEF Stage, Height, PlaceInv
<1>5. CASE CheckGrowth
  <2> DEFINE at == Boundary(bundle.growth.from - 1, size - 1)
  <2>1. /\ phase = "growth"
        /\ \/ phase' = "anchors"
           \/ /\ phase' = "proof" /\ HasGrowth(bundle) /\ bundle.growth.from < size
              /\ \E h : walk' = WalkFrom(at, h)
    BY <1>5 DEF CheckGrowth, TreeFail, TreeGoto
  <2>2. phase' = "proof" => walk'.sn < size
    <3> HAVE phase' = "proof"
    <3> DEFINE from == bundle.growth.from
    <3>1. from \in Nat /\ 0 < from /\ from < size
      BY <2>1, BundleIs
    <3>2. PICK r \in Powers : Stands(at, size, r)
      BY <1>0, <3>1, BoundaryAt
    <3>3. at.sn < size
      BY <1>0, <3>2, InTree
    <3>4. walk'.sn = at.sn
      <4> HIDE DEF at
      <4> QED BY <2>1 DEF WalkFrom
    <3> QED BY <3>3, <3>4
  <2> HIDE DEF at
  <2> QED BY <1>0, <2>1, <2>2 DEF Stage, PlaceInv
<1>6. CASE FoldGrowth
  <2>1. /\ phase = "proof"
        /\ \/ phase' = "anchors"
           \/ phase' = "proof" /\ walk'.sn \in Nat /\ walk'.sn < walk.sn
    BY <1>1, <1>6 DEF FoldGrowth, TreeFail
  <2>2. walk.sn \in Nat
    BY DEF IsWalk, Stands
  <2> QED BY <1>0, <2>1, <2>2 DEF Stage, Height, PlaceInv
<1>7. CASE CheckTreeAnchors
  <2>1. phase = "anchors" /\ phase' = "done"
    BY <1>7 DEF CheckTreeAnchors
  <2> QED BY <2>1 DEF Stage, PlaceInv
<1> QED BY <1>2, <1>3, <1>4, <1>5, <1>6, <1>7 DEF VerifyTree

\* A step of the walk leaves less of it.
LEMMA WalkCounts ==
  ASSUME IsBundle(bundle), IsBundle(bundle'), IsWalk(walk), IsWalk(walk'), pos \in Nat, pos' \in Nat,
         PlaceInv, VerifyTree
  PROVE  /\ StepsLeft \in Nat /\ StepsLeft' \in Nat /\ StepsLeft' < StepsLeft
         /\ phase' \in TreeWalking \union {"done"}
<1>1. /\ bundle.head.seq \in Nat \ {0} /\ Len(bundle.claims) \in Nat \ {0}
      /\ Stage \in 0 .. 2 * Len(bundle.claims) + 5 /\ Height \in 0 .. bundle.head.seq - 1
  BY StepsCount
<1>2. PlaceInv' /\ (Stage' < Stage \/ (Stage' = Stage /\ Height' < Height))
  BY StageOrHeight
<1>3. bundle' = bundle /\ phase' \in TreeWalking \union {"done"}
  BY RunReads
<1>4. Stage' \in 0 .. 2 * Len(bundle.claims) + 5 /\ Height' \in 0 .. bundle.head.seq - 1
  <2>1. (IsBundle(bundle) /\ IsWalk(walk) /\ pos \in Nat /\ PlaceInv =>
           /\ bundle.head.seq \in Nat \ {0} /\ Len(bundle.claims) \in Nat \ {0}
           /\ Stage \in 0 .. 2 * Len(bundle.claims) + 5 /\ Height \in 0 .. bundle.head.seq - 1
           /\ phase \in TreeWalking <=> Stage # 0
           /\ Stage = 2 * Len(bundle.claims) + 5 => Height = 0)'
    BY StepsCount, PTL
  <2> QED BY <1>2, <1>3, <2>1
<1> DEFINE size == bundle.head.seq
           s == Stage
           t == Stage'
           a == Height
           b == Height'
<1>5. StepsLeft = s * size + a /\ StepsLeft' = t * size + b
  BY <1>3 DEF StepsLeft
<1>6. /\ size \in Nat \ {0} /\ s \in Nat /\ t \in Nat /\ a \in Nat /\ b \in Nat /\ b < size
      /\ t < s \/ (t = s /\ b < a)
  BY <1>1, <1>2, <1>4
<1> HIDE DEF size, s, t, a, b
<1>7. s * size \in Nat /\ t * size \in Nat
  BY <1>6
<1>8. CASE t = s /\ b < a
  BY <1>5, <1>6, <1>7, <1>8, <1>3
<1>9. CASE t < s
  <2>1. t + 1 <= s /\ t + 1 \in Nat
    BY <1>6, <1>9
  <2>2. (t + 1) * size <= s * size
    BY <1>6, <2>1, Scaled
  <2>3. (t + 1) * size = t * size + size
    BY <1>6
  <2> QED BY <1>3, <1>5, <1>6, <1>7, <2>2, <2>3
<1> QED BY <1>6, <1>8, <1>9

\* And outside of it there is none.
LEMMA PlaceKept == DataInv /\ RegistersInv /\ PlaceInv /\ [Next]_vars => PlaceInv'
<1> SUFFICES ASSUME DataInv, RegistersInv, PlaceInv, [Next]_vars PROVE PlaceInv'
  OBVIOUS
<1>1. CASE VerifyTree
  <2>1. IsBundle(bundle)
    BY <1>1, RunReads DEF DataInv
  <2> QED BY <1>1, <2>1, StageOrHeight DEF RegistersInv
<1>2. CASE UNCHANGED vars
  BY <1>2 DEF vars, fileVars, treeVars, runVars, foldVars, PlaceInv
<1>3. CASE phase \notin TreeWalking /\ ~VerifyTree
  <2> SUFFICES phase' \notin {"claim", "path", "proof"}
    BY DEF PlaceInv
  <2>1. CASE phase' = phase
    BY <1>3, <2>1 DEF TreeWalking
  <2>2. CASE Append1 \/ Restore \/ AnchorRoot \/ AnchorLeaf \/ UNCHANGED vars
    BY <2>1, <2>2 DEF Append1, Restore, AnchorRoot, AnchorLeaf, Recorded, vars, treeVars, runVars
  <2>3. CASE Edit
    <3>1. UNCHANGED treeVars
      BY <2>3 DEF Edit, Repackage, AlterClaim, MoveClaim, SpliceClaim, DropClaim, SetHead, SetGrowth,
                  Graft, Relabel, Edited
    <3> QED BY <2>1, <3>1 DEF treeVars, runVars
  <2>4. CASE Export \/ ExportOther
    <3>1. phase' = "transit"
      BY <2>4 DEF Export, ExportOther, Cut
    <3> QED BY <3>1
  <2>5. CASE Deliver \/ Discard
    BY <2>5 DEF Deliver, Discard
  <2> QED BY <1>3, <2>2, <2>3, <2>4, <2>5 DEF Next, Run
<1> QED BY <1>1, <1>2, <1>3, WalkAlone

\* So it holds throughout.
LEMMA PlaceHolds == Spec => [](DataInv /\ RegistersInv /\ PlaceInv)
<1>1. Init => PlaceInv
  BY DEF Init, PlaceInv
<1>2. Init => DataInv /\ RegistersInv /\ PlaceInv
  BY <1>1, DataStart, RegistersStart
<1>3. DataInv /\ RegistersInv /\ PlaceInv /\ [Next]_vars => (DataInv /\ RegistersInv /\ PlaceInv)'
  BY DataKept, RegistersKept, PlaceKept
<1> QED BY <1>2, <1>3, PTL DEF Spec

\* While a tree bundle is walked every step of the system is one of the walk, and
\* takes it nearer its verdict: a bundle of n claims under a head of a given size
\* has it within (2n + 5) * size steps, however long the paths it carries are,
\* since a fold that has come to the root takes no further hash (merkle.Verify*,
\* chain.verifyMerkle, chain.verifyConsistency).
THEOREM TreeWalkEnds ==
  Spec => /\ [](phase \in TreeWalking =>
                  StepsLeft \in 1 .. (2 * Len(bundle.claims) + 5) * bundle.head.seq)
          /\ [][Nearer]_vars
<1> DEFINE I == DataInv /\ RegistersInv /\ PlaceInv
<1>1. ASSUME I, I', [Next]_vars PROVE [Nearer]_vars
  <2> SUFFICES ASSUME phase \in TreeWalking, ~UNCHANGED vars PROVE Nearer
    BY DEF Nearer
  <2>1. VerifyTree
    BY <1>1, WalkAlone
  <2>2. IsBundle(bundle) /\ IsBundle(bundle')
    BY <1>1, <2>1, RunReads DEF DataInv
  <2>3. IsWalk(walk) /\ IsWalk(walk') /\ pos \in Nat /\ pos' \in Nat
    BY <1>1 DEF RegistersInv
  <2> QED BY <1>1, <2>1, <2>2, <2>3, WalkCounts DEF Nearer
<1>2. ASSUME I, phase \in TreeWalking
      PROVE  StepsLeft \in 1 .. (2 * Len(bundle.claims) + 5) * bundle.head.seq
  <2> DEFINE size == bundle.head.seq
             top == 2 * Len(bundle.claims) + 5
             s == Stage
  <2>1. IsBundle(bundle) /\ IsWalk(walk) /\ pos \in Nat
    BY <1>2 DEF DataInv, RegistersInv, TreeWalking
  <2>2. size \in Nat \ {0} /\ Len(bundle.claims) \in Nat \ {0} /\ s \in 0 .. top /\ s # 0
        /\ Height \in 0 .. size - 1
    BY <1>2, <2>1, StepsCount
  <2>3. s = top => Height = 0
    BY <1>2, <2>1, StepsCount
  <2> DEFINE h == Height
  <2>4. StepsLeft = s * size + h
    BY DEF StepsLeft
  <2> HIDE DEF size, top, s, h
  <2>5. s \in Nat /\ top \in Nat /\ 1 <= s /\ s <= top /\ size \in Nat \ {0} /\ h \in Nat /\ h < size
    BY <2>2 DEF top, h
  <2>6. 1 * size <= s * size /\ s * size \in Nat /\ 1 * size = size /\ top * size \in Nat
    BY <2>5, Scaled
  <2>7. CASE s = top
    <3>1. h = 0
      BY <2>3, <2>7 DEF h, s, top
    <3> QED BY <2>4, <2>5, <2>6, <2>7, <3>1 DEF top, size
  <2>8. CASE s # top
    <3>1. s + 1 \in Nat /\ s + 1 <= top
      BY <2>5, <2>8
    <3>2. (s + 1) * size <= top * size /\ (s + 1) * size = s * size + size
      BY <2>5, <3>1, Scaled
    <3>3. StepsLeft \in 1 .. top * size
      BY <2>4, <2>5, <2>6, <3>2
    <3> QED BY <3>3 DEF top, size
  <2> QED BY <2>7, <2>8
<1> QED BY <1>1, <1>2, PlaceHolds, PTL DEF Spec
=============================================================================
