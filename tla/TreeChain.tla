----------------------------- MODULE TreeChain ------------------------------
(***************************************************************************)
(* verifyMerkle and verifyConsistency on one bundle of the tree profile    *)
(* (internal/chain/merkle.go), one step per claim and per hash folded, and *)
(* the anchor checks of verify.Run that read their result.                 *)
(*                                                                         *)
(* A claim of this profile also carries included and path, its inclusion   *)
(* member; a bundle also carries growth, its consistency member.           *)
(***************************************************************************)
EXTENDS LinearChain, MerkleTree

VARIABLES
  walk,      \* the registers of the fold under way
  read,      \* hashes of its path folded so far
  growthOK   \* chain.Result.ConsistencyOK

foldVars == <<walk, read>>
treeVars == <<runVars, foldVars, growthOK>>

ProfileMerkle == "loomseal-merkle-v1"

TreeWalking == {"declared", "claim", "path", "growth", "proof", "anchors"}
TreePhases == {"idle", "transit", "done"} \union TreeWalking

NoWalk == WalkFrom([fn |-> 0, sn |-> 0], EmptyRoot)
NoGrowth == [from |-> 0, root |-> EmptyRoot, path |-> << >>]
HasGrowth(b) == b.growth # NoGrowth

\* The bytes of a claim's leaf; where it sits and how it is packaged stay out.
FaultyLeafWithoutInstall(install, c) == <<ProfileMerkle, ClaimContent(c)>>
TreeLeaf(install, c) == <<ProfileMerkle, install, ClaimContent(c)>>

-----------------------------------------------------------------------------
TreeGoto(p) == phase' = p /\ UNCHANGED <<bundle, err, headMatched, mode, report, growthOK>>

FaultyTreeFailInPlace(e) ==
  err' = e /\ UNCHANGED <<bundle, phase, pos, headMatched, mode, report, foldVars, growthOK>>

TreeFail(e) ==
  /\ phase' = "anchors"
  /\ err' = e
  /\ UNCHANGED <<bundle, pos, headMatched, mode, report, foldVars, growthOK>>

CheckDeclaration ==
  /\ phase = "declared"
  /\ \/ (bundle.keyed \/ bundle.param = NoInstall) /\ TreeFail("ErrProfile")
     \/ /\ ~bundle.keyed /\ bundle.param # NoInstall
        /\ bundle.param # bundle.producer \/ bundle.head.prev # NoLink
        /\ TreeFail("ErrClaim")
     \/ /\ ~bundle.keyed /\ bundle.param # NoInstall
        /\ bundle.param = bundle.producer /\ bundle.head.prev = NoLink
        /\ pos' = 1
        /\ TreeGoto("claim")
        /\ UNCHANGED foldVars

\* What a claim lacks or has too much of.
Misshapen(b, i) ==
  LET c == b.claims[i] IN
  ~c.chained \/ ~c.included \/ c.prev # NoLink \/ c.seq > b.head.seq

\* Past every earlier claim, which also rules a repeated position out.
Ascends(b, i) == \A j \in 1 .. i - 1 : b.claims[j].seq < b.claims[i].seq

LeafRecomputes(b, i) == b.claims[i].link = LeafHash(TreeLeaf(b.param, b.claims[i]))

\* Positions start at 1, indexes at 0.
FaultyLeafIndex(c) == c.seq
LeafIndex(c) == c.seq - 1

CheckClaim ==
  /\ phase = "claim"
  /\ \/ pos \in DOMAIN bundle.claims /\ Misshapen(bundle, pos) /\ TreeFail("ErrClaim")
     \/ /\ pos \in DOMAIN bundle.claims /\ ~Misshapen(bundle, pos)
        /\ ~(Ascends(bundle, pos) /\ LeafRecomputes(bundle, pos))
        /\ TreeFail("ErrBroken")
     \/ /\ pos \in DOMAIN bundle.claims /\ ~Misshapen(bundle, pos)
        /\ Ascends(bundle, pos) /\ LeafRecomputes(bundle, pos)
        /\ walk' = InclusionWalk(TreeLeaf(bundle.param, bundle.claims[pos]),
                                 LeafIndex(bundle.claims[pos]), bundle.head.seq)
        /\ read' = 0
        /\ TreeGoto("path")
        /\ UNCHANGED pos
     \/ /\ pos \notin DOMAIN bundle.claims
        /\ TreeGoto("growth")
        /\ UNCHANGED <<pos, foldVars>>

\* One hash of a path into the walk, if there is room for it.
FoldHash(path) ==
  /\ read < Len(path)
  /\ \/ AtRoot(walk) /\ TreeFail("ErrBroken")
     \/ /\ ~AtRoot(walk)
        /\ walk' = FoldStep(walk, path[read + 1])
        /\ read' = read + 1
        /\ TreeGoto(phase)
        /\ UNCHANGED pos

FoldClaim ==
  /\ phase = "path"
  /\ LET path == bundle.claims[pos].path
         proved == AtRoot(walk) /\ walk.second = bundle.head.link
     IN  \/ FoldHash(path)
         \/ read = Len(path) /\ ~proved /\ TreeFail("ErrBroken")
         \/ /\ read = Len(path) /\ proved
            /\ pos' = pos + 1
            /\ TreeGoto("claim")
            /\ UNCHANGED foldVars

\* verifyConsistency and VerifyConsistency up to the fold.
CheckGrowth ==
  /\ phase = "growth"
  /\ LET g == bundle.growth
         n == bundle.head.seq
         at == Boundary(g.from - 1, n - 1)
     IN  \/ /\ ~HasGrowth(bundle)
            /\ headMatched' = TRUE /\ mode' = ModeFull
            /\ phase' = "anchors"
            /\ UNCHANGED <<bundle, pos, err, report, foldVars, growthOK>>
         \/ HasGrowth(bundle) /\ g.from > n /\ TreeFail("ErrClaim")
         \/ /\ HasGrowth(bundle) /\ g.from = n
            /\ ~(g.path = << >> /\ g.root = bundle.head.link)
            /\ TreeFail("ErrBroken")
         \/ /\ HasGrowth(bundle) /\ g.from = n
            /\ g.path = << >> /\ g.root = bundle.head.link
            /\ headMatched' = TRUE /\ mode' = ModeFull /\ growthOK' = TRUE
            /\ phase' = "anchors"
            /\ UNCHANGED <<bundle, pos, err, report, foldVars>>
         \/ HasGrowth(bundle) /\ g.from < n /\ g.path = << >> /\ TreeFail("ErrBroken")
         \/ /\ HasGrowth(bundle) /\ g.from < n /\ g.path # << >>
            /\ walk' = WalkFrom(at, IF at.fn = 0 THEN g.root ELSE Head(g.path))
            /\ read' = IF at.fn = 0 THEN 0 ELSE 1
            /\ TreeGoto("proof")
            /\ UNCHANGED pos

\* Both roots have to come out: one of them alone relates nothing to nothing.
FaultyGrowthOfEarlierRoot(b, w) == AtRoot(w) /\ w.first = b.growth.root
GrowthProved(b, w) ==
  AtRoot(w) /\ w.first = b.growth.root /\ w.second = b.head.link

FoldGrowth ==
  /\ phase = "proof"
  /\ LET path == bundle.growth.path
         proved == GrowthProved(bundle, walk)
     IN  \/ FoldHash(path)
         \/ read = Len(path) /\ ~proved /\ TreeFail("ErrBroken")
         \/ /\ read = Len(path) /\ proved
            /\ headMatched' = TRUE /\ mode' = ModeFull /\ growthOK' = TRUE
            /\ phase' = "anchors"
            /\ UNCHANGED <<bundle, pos, err, report, foldVars>>
-----------------------------------------------------------------------------
(***************************************************************************)
(* The map of verified coordinates has one entry per position, written by  *)
(* the claims, then by the head, then by the root the log grew from.       *)
(***************************************************************************)
TreeVerified(b, matchedHead, grown, a) ==
  IF grown /\ a.seq = b.growth.from THEN a.link = b.growth.root
                                    ELSE Verified(b, matchedHead, a)

TreeMatched(b, matchedHead, grown) == {a \in b.anchors : TreeVerified(b, matchedHead, grown, a)}

TreeDeclaredOnly(b, matchedHead, grown) ==
  {a \in b.anchors : ~TreeVerified(b, matchedHead, grown, a) /\ ~matchedHead /\ a = Coords(b.head)}

CheckTreeAnchors ==
  /\ phase = "anchors"
  /\ LET matched == TreeMatched(bundle, headMatched, growthOK)
         declared == TreeDeclaredOnly(bundle, headMatched, growthOK)
         through == AnchoredThrough(matched)
         ok == err = "" /\ bundle.anchors = matched \union declared
     IN  report' = [ok |-> ok,
                    level |-> Level(ok, mode, matched),
                    matched |-> Cardinality(matched),
                    declared |-> Cardinality(declared),
                    through |-> through,
                    unanchored |-> UnanchoredClaims(bundle, through)]
  /\ phase' = "done"
  /\ UNCHANGED <<bundle, pos, err, headMatched, mode, foldVars, growthOK>>

VerifyTree ==
  \/ CheckDeclaration \/ CheckClaim \/ FoldClaim
  \/ CheckGrowth \/ FoldGrowth \/ CheckTreeAnchors
=============================================================================
