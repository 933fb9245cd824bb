----------------------------- MODULE MerkleTree -----------------------------
(***************************************************************************)
(* The RFC 6962 tree of merkle/merkle.go: roots, the two kinds of proof a  *)
(* producer makes, and the two folds a verifier runs.                      *)
(*                                                                         *)
(* SHA-256 is ideal: a hash is the tuple of what was hashed.  The two      *)
(* separators make a leaf and a node hash tuples of different lengths, and *)
(* the empty root is the empty tuple.                                      *)
(***************************************************************************)
EXTENDS Naturals, Sequences

\* The producer's functions recurse over slices of the leaves.  A slice is the
\* pair of its bounds: leaves lo + 1 to hi of the log.
Slices(leaves) == (0 .. Len(leaves)) \X (0 .. Len(leaves))

LeafHash(data) == <<data>>
NodeHash(left, right) == <<left, right>>
EmptyRoot == << >>

\* The largest power of two strictly less than n.
SplitPoint(n) ==
  LET k[p \in Nat \ {0}] == IF 2 * p < n THEN k[2 * p] ELSE p
  IN  k[1]

Middle(s) == s[1] + SplitPoint(s[2] - s[1])
Left(s) == <<s[1], Middle(s)>>
Right(s) == <<Middle(s), s[2]>>

\* The root of every slice of the leaves.
SliceRoots(leaves) ==
  LET R[s \in Slices(leaves)] ==
        IF s[2] <= s[1] THEN EmptyRoot
        ELSE IF s[2] = s[1] + 1 THEN LeafHash(leaves[s[2]])
        ELSE NodeHash(R[Left(s)], R[Right(s)])
  IN  R

Root(leaves) == SliceRoots(leaves)[<<0, Len(leaves)>>]

\* The audit path of the leaf at index m: siblings, lowest first.
InclusionPaths(m, leaves) ==
  LET R == SliceRoots(leaves)
      P[s \in Slices(leaves)] ==
        IF s[2] <= s[1] + 1 THEN << >>
        ELSE IF m < Middle(s) THEN Append(P[Left(s)], R[Right(s)])
                              ELSE Append(P[Right(s)], R[Left(s)])
  IN  P

InclusionProof(m, leaves) == InclusionPaths(m, leaves)[<<0, Len(leaves)>>]

\* The hashes that show a log of first leaves is a prefix of these.  A prefix
\* that fills the slice the log begins with is complete: the verifier holds the
\* root of that slice already.  A slice of one leaf that the prefix does not end
\* at is never come to.
SubProofs(first, leaves) ==
  LET R == SliceRoots(leaves)
      P[s \in Slices(leaves)] ==
        IF first = s[2] \/ s[2] <= s[1] + 1 THEN IF s[1] = 0 THEN << >> ELSE <<R[s]>>
        ELSE IF first <= Middle(s) THEN Append(P[Left(s)], R[Right(s)])
                                   ELSE Append(P[Right(s)], R[Left(s)])
  IN  P

ConsistencyProof(first, leaves) == SubProofs(first, leaves)[<<0, Len(leaves)>>]

-----------------------------------------------------------------------------
(***************************************************************************)
(* The folds.  A walk holds the node's index fn, the last index sn of its  *)
(* level, and the roots recomputed so far: of the earlier log in first and *)
(* of the log itself in second.  An inclusion fold is the same walk with   *)
(* one root, second; its first is not read.                                *)
(***************************************************************************)
Places == [fn : Nat, sn : Nat]
Above(at) == [fn |-> at.fn \div 2, sn |-> at.sn \div 2]

\* Both indexes shifted while the node is the odd one carried up a level.
FaultyCarried(at) == at
Carried(at) ==
  LET c[x \in Places] == IF x.fn % 2 = 0 /\ x.fn # 0 THEN c[Above(x)] ELSE x
  IN  c[at]

\* Both shifted to the boundary of the last complete subtree of the prefix.
FaultyBoundary(fn, sn) == [fn |-> fn, sn |-> sn]
Boundary(fn, sn) ==
  LET c[x \in Places] == IF x.fn % 2 = 1 THEN c[Above(x)] ELSE x
  IN  c[[fn |-> fn, sn |-> sn]]

WalkFrom(at, hash) == [fn |-> at.fn, sn |-> at.sn, first |-> hash, second |-> hash]

\* A right child, and the odd node at the right edge, take p on their left.
FaultyFromLeft(w) == w.fn % 2 = 1
FromLeft(w) == w.fn % 2 = 1 \/ w.fn = w.sn

\* One hash folded; a walk already at the root, sn = 0, takes no more.
FoldStep(w, p) ==
  LET at == [fn |-> w.fn, sn |-> w.sn]
  IN  IF FromLeft(w)
        THEN [fn |-> Above(Carried(at)).fn, sn |-> Above(Carried(at)).sn,
              first |-> NodeHash(p, w.first), second |-> NodeHash(p, w.second)]
        ELSE [fn |-> Above(at).fn, sn |-> Above(at).sn,
              first |-> w.first, second |-> NodeHash(w.second, p)]

AtRoot(w) == w.sn = 0

InclusionWalk(data, index, size) ==
  WalkFrom([fn |-> index, sn |-> size - 1], LeafHash(data))
=============================================================================
