----------------------------- MODULE MerkleFold -----------------------------
(***************************************************************************)
(* VerifyInclusion and VerifyConsistency of merkle/merkle.go, one step per *)
(* hash folded, over every path a menu of hashes allows.                   *)
(*                                                                         *)
(* A question is put about the root of a log that exists: is this the leaf *)
(* at this index, did the log grow from one with this earlier root.  Sizes *)
(* and index are whatever the caller passes.  The path is chosen hash by   *)
(* hash as it is folded and may end anywhere, which is every path.         *)
(***************************************************************************)
EXTENDS MerkleTree, SequencesExt

CONSTANTS
  Logs,     \* the logs asked about, each a sequence of leaf data
  Others,   \* further logs an earlier root or a leaf may come from
  Stray,    \* a hash no tree of them holds
  MaxSize,  \* bound: sizes a caller passes
  MaxPath   \* bound: hashes in a path

ASSUME LogsAssumption == \A l \in Logs \union Others : l \in Seq(Range(l)) /\ l # << >>
ASSUME FoldBounds == MaxSize \in Nat /\ MaxPath \in Nat

VARIABLES
  log,      \* the log asked about
  asked,    \* the question: what the caller passes beside the roots and the path
  stage,    \* where the function stands
  path,     \* the hashes of the path read so far
  walk,     \* the registers of the fold
  accepted  \* what the function returned

vars == <<log, asked, stage, path, walk, accepted>>

\* The nodes of a log's tree, and leaf data: its own, and the two hashes under
\* a node passed off as such.
Nodes(leaves) == {Root(leaves)} \union
  UNION {Range(InclusionProof(m, leaves)) : m \in 0 .. Len(leaves) - 1}
LeafData(leaves) == Range(leaves) \union {h \in Nodes(leaves) : Len(h) = 2}

NoQuestion == [kind |-> "none"]
NoWalk == WalkFrom([fn |-> 0, sn |-> 0], EmptyRoot)

Init ==
  /\ log \in Logs
  /\ asked = NoQuestion /\ stage = "idle" /\ path = << >> /\ walk = NoWalk
  /\ accepted = FALSE

Begin(w) == stage' = "fold" /\ walk' = w /\ UNCHANGED accepted
Return(answer) == stage' = "done" /\ accepted' = answer

\* VerifyInclusion, up to its loop.
AskInclusion ==
  /\ stage = "idle"
  /\ \E data \in UNION {LeafData(leaves) : leaves \in Logs \union Others} :
     \E index \in 0 .. MaxSize, size \in 0 .. MaxSize :
       /\ asked' = [kind |-> "inclusion", data |-> data, index |-> index, size |-> size]
       /\ IF index < size THEN Begin(InclusionWalk(data, index, size))
                          ELSE Return(FALSE) /\ UNCHANGED walk
  /\ UNCHANGED <<log, path>>

\* VerifyConsistency, up to the seed.  Its proof, when there is one, seeds the
\* walk unless the earlier root is the first complete subtree itself.
AskConsistency ==
  /\ stage = "idle"
  /\ \E earlier \in Logs \union Others : \E first \in {0, Len(earlier)}, second \in 0 .. MaxSize :
       /\ asked' = [kind |-> "consistency", earlier |-> earlier, first |-> first,
                    second |-> second]
       /\ \/ first > second /\ Return(FALSE) /\ UNCHANGED walk
          \/ first = second /\ stage' = "compare" /\ UNCHANGED <<walk, accepted>>
          \/ 0 = first /\ first < second /\ Return(FALSE) /\ UNCHANGED walk
          \/ /\ 0 < first /\ first < second
             /\ LET at == Boundary(first - 1, second - 1) IN
                IF at.fn = 0 THEN Begin(WalkFrom(at, Root(earlier)))
                             ELSE stage' = "seed" /\ UNCHANGED <<walk, accepted>>
  /\ UNCHANGED <<log, path>>

Menu == Nodes(log) \union {Stray}

Read(p) == Len(path) < MaxPath /\ path' = Append(path, p)

SeedProof ==
  /\ stage = "seed"
  /\ \E p \in Menu : Read(p) /\ Begin(WalkFrom(Boundary(asked.first - 1, asked.second - 1), p))
  /\ UNCHANGED <<log, asked>>

Fold ==
  /\ stage = "fold"
  /\ \E p \in Menu :
       /\ Read(p)
       /\ IF AtRoot(walk) THEN Return(FALSE) /\ UNCHANGED walk
                          ELSE Begin(FoldStep(walk, p))
  /\ UNCHANGED <<log, asked>>

\* A hash where equal sizes leave nothing to prove.
ReadPastEqual ==
  /\ stage = "compare"
  /\ \E p \in Menu : Read(p)
  /\ Return(FALSE)
  /\ UNCHANGED <<log, asked, walk>>

\* The path ends here.
End ==
  /\ \/ /\ stage = "fold" /\ asked.kind = "inclusion"
        /\ Return(AtRoot(walk) /\ walk.second = Root(log))
     \/ /\ stage = "fold" /\ asked.kind = "consistency"
        /\ Return(/\ path # << >> /\ AtRoot(walk)
                  /\ walk.first = Root(asked.earlier) /\ walk.second = Root(log))
     \/ stage = "seed" /\ Return(FALSE)
     \/ stage = "compare" /\ Return(Root(asked.earlier) = Root(log))
  /\ UNCHANGED <<log, asked, path, walk>>

Next ==
  \/ AskInclusion \/ AskConsistency \/ SeedProof \/ Fold \/ ReadPastEqual \/ End

Spec == Init /\ [][Next]_vars

-----------------------------------------------------------------------------
\* An inclusion fold accepts exactly the audit path of that leaf at that index
\* (VerifyInclusion against InclusionProof).  A size that is not the log's may
\* fold to its root all the same, but then too what it vouches for is a leaf.
InclusionDecided ==
  stage = "done" /\ asked.kind = "inclusion" =>
    /\ accepted => asked.data \in Range(log)
    /\ asked.size = Len(log) =>
         (accepted <=> /\ asked.index < Len(log)
                       /\ asked.data = log[asked.index + 1]
                       /\ path = InclusionProof(asked.index, log))

\* A consistency fold accepts exactly the proof that the log grew from the
\* earlier one (VerifyConsistency against ConsistencyProof); with another size
\* for the log it still accepts only if the earlier log is a prefix.
GrowthDecided ==
  stage = "done" /\ asked.kind = "consistency" /\ asked.first = Len(asked.earlier) =>
    /\ accepted => IsPrefix(asked.earlier, log)
    /\ asked.second = Len(log) =>
         (accepted <=> /\ IsPrefix(asked.earlier, log)
                       /\ path = ConsistencyProof(asked.first, log))
=============================================================================
