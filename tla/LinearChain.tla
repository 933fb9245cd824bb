----------------------------- MODULE LinearChain ----------------------------
(***************************************************************************)
(* chain.Verify on one bundle of a linear profile, followed by the parts   *)
(* of verify.Run that turn its result into a verdict: checkAnchors,        *)
(* measureUnanchored and level.  One step per claim of each loop, one step *)
(* per straight-line test, every early return a step of its own.           *)
(***************************************************************************)
EXTENDS ChainLinks, FiniteSets

VARIABLES
  bundle,       \* the file under verification; it never changes while it is read
  phase,        \* where Run stands in that file
  pos,          \* the claim the current loop is at
  err,          \* the sentinel of the error Verify returned, "" when none
  headMatched,  \* chain.Result.HeadMatched
  mode,         \* chain.Result.Mode, "" until checkLinks returns
  report        \* verify.Report, the fields about chain and anchors

runVars == <<phase, pos, err, headMatched, mode, report>>

Errors == {"ErrClaim", "ErrBroken", "ErrProfile"}

Walking == {"coords", "continuity", "head", "profile", "links", "anchors"}
Phases == {"idle", "transit", "done"} \union Walking

NoReport ==
  [ok |-> FALSE, level |-> "not verified", matched |-> 0, declared |-> 0,
   through |-> 0, unanchored |-> 0]

Levels == {"not verified", "signed, chained", "signed, chained, anchored"}

(***************************************************************************)
(* The walk.                                                               *)
(***************************************************************************)
Goto(p) == phase' = p /\ UNCHANGED <<bundle, err, report>>

\* An error leaves Verify at once, and checkChain then copies nothing of the
\* result: the head does not count as matched whatever the head test said.
FaultyFailInPlace(e) ==
  err' = e /\ UNCHANGED <<bundle, phase, pos, headMatched, mode, report>>

Fail(e) ==
  /\ phase' = "anchors"
  /\ err' = e
  /\ headMatched' = FALSE
  /\ mode' = ""
  /\ UNCHANGED <<bundle, pos, report>>

CheckCoordinates ==
  /\ phase = "coords"
  /\ \/ ~Coordinated(bundle) /\ Fail("ErrClaim")
     \/ /\ Coordinated(bundle)
        /\ pos' = 1
        /\ Goto("continuity")
        /\ UNCHANGED <<headMatched, mode>>

CheckContinuity ==
  /\ phase = "continuity"
  /\ \/ /\ pos \in DOMAIN bundle.claims
        /\ Follows(bundle, pos)
        /\ pos' = pos + 1
        /\ Goto("continuity")
        /\ UNCHANGED <<headMatched, mode>>
     \/ /\ pos \in DOMAIN bundle.claims
        /\ ~Follows(bundle, pos)
        /\ Fail("ErrBroken")
     \/ /\ pos \notin DOMAIN bundle.claims
        /\ Goto("head")
        /\ UNCHANGED <<pos, headMatched, mode>>

CheckHead ==
  /\ phase = "head"
  /\ \/ HeadBehind(bundle) /\ Fail("ErrBroken")
     \/ HeadContradicts(bundle) /\ Fail("ErrBroken")
     \/ /\ ~HeadBehind(bundle)
        /\ ~HeadContradicts(bundle)
        /\ headMatched' = HeadTied(bundle)
        /\ Goto("profile")
        /\ UNCHANGED <<pos, mode>>

\* checkLinks up to the loop: a keyed chain leaves here, structurally checked.
CheckProfile ==
  /\ phase = "profile"
  /\ \/ ProfileRefused(bundle) /\ Fail("ErrProfile")
     \/ /\ ~ProfileRefused(bundle)
        /\ bundle.keyed
        /\ mode' = ModeStructural
        /\ Goto("anchors")
        /\ UNCHANGED <<pos, headMatched>>
     \/ /\ ~ProfileRefused(bundle)
        /\ ~bundle.keyed
        /\ pos' = 1
        /\ Goto("links")
        /\ UNCHANGED <<headMatched, mode>>

CheckLinks ==
  /\ phase = "links"
  /\ \/ /\ pos \in DOMAIN bundle.claims
        /\ NamesOtherInstall(bundle, pos)
        /\ Fail("ErrProfile")
     \/ /\ pos \in DOMAIN bundle.claims
        /\ ~NamesOtherInstall(bundle, pos)
        /\ ~LinkRecomputes(bundle, pos)
        /\ Fail("ErrBroken")
     \/ /\ pos \in DOMAIN bundle.claims
        /\ ~NamesOtherInstall(bundle, pos)
        /\ LinkRecomputes(bundle, pos)
        /\ pos' = pos + 1
        /\ Goto("links")
        /\ UNCHANGED <<headMatched, mode>>
     \/ /\ pos \notin DOMAIN bundle.claims
        /\ mode' = ModeFull
        /\ Goto("anchors")
        /\ UNCHANGED <<pos, headMatched>>

(***************************************************************************)
(* The anchors and the verdict.  Run checks anchors whether or not the     *)
(* chain verified.  The map of verified coordinates holds the last claim   *)
(* at each position, and the head over it once the head matched.           *)
(***************************************************************************)
FaultyVerifiedByAnyHead(b, matchedHead, a) ==
  a \in {b.head} \union {Coords(b.claims[i]) : i \in DOMAIN b.claims}

Verified(b, matchedHead, a) ==
  IF matchedHead /\ a.seq = b.head.seq
    THEN a.link = b.head.link
    ELSE \E i \in DOMAIN b.claims :
           /\ b.claims[i].chained
           /\ Coords(b.claims[i]) = a
           /\ \A j \in DOMAIN b.claims :
                j > i /\ b.claims[j].chained => b.claims[j].seq # a.seq

MatchedAnchors(b, matchedHead) == {a \in b.anchors : Verified(b, matchedHead, a)}

DeclaredOnly(b, matchedHead) ==
  {a \in b.anchors : ~Verified(b, matchedHead, a) /\ ~matchedHead /\ a = b.head}

UnmatchedAnchors(b, matchedHead) ==
  b.anchors \ (MatchedAnchors(b, matchedHead) \union DeclaredOnly(b, matchedHead))

\* measureUnanchored: how far the matched anchors reach, 0 when none matched.
AnchoredThrough(matched) ==
  IF matched = {} THEN 0
  ELSE (CHOOSE a \in matched : \A c \in matched : c.seq <= a.seq).seq

FaultyUnanchoredToHead(b, through) ==
  IF through = 0 THEN 0 ELSE b.head.seq - through

UnanchoredClaims(b, through) ==
  IF through = 0 THEN 0
  ELSE Cardinality({i \in DOMAIN b.claims :
                      b.claims[i].chained /\ b.claims[i].seq > through})

\* The anchored word needs recomputed links, so a structural chain never has it.
Level(ok, m, matched) ==
  IF ~ok THEN "not verified"
  ELSE IF m = ModeFull /\ matched # {} THEN "signed, chained, anchored"
  ELSE "signed, chained"

CheckAnchors ==
  /\ phase = "anchors"
  /\ LET matched == MatchedAnchors(bundle, headMatched)
         through == AnchoredThrough(matched)
         ok == err = "" /\ UnmatchedAnchors(bundle, headMatched) = {}
     IN  report' = [ok |-> ok,
                    level |-> Level(ok, mode, matched),
                    matched |-> Cardinality(matched),
                    declared |-> Cardinality(DeclaredOnly(bundle, headMatched)),
                    through |-> through,
                    unanchored |-> UnanchoredClaims(bundle, through)]
  /\ phase' = "done"
  /\ UNCHANGED <<bundle, pos, err, headMatched, mode>>

Verify ==
  \/ CheckCoordinates \/ CheckContinuity \/ CheckHead
  \/ CheckProfile \/ CheckLinks \/ CheckAnchors
=============================================================================
