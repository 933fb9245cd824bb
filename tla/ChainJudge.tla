----------------------------- MODULE ChainJudge -----------------------------
(***************************************************************************)
(* What the linear part of the verifier promises, without its loops: a     *)
(* file is received and judged in one step, by a definition of a sound     *)
(* chain that mentions no order of tests, no position and no early return. *)
(***************************************************************************)
EXTENDS ChainLinks

CONSTANT NoFile  \* stands for no file at hand

VARIABLES file, verdict

judgeVars == <<file, verdict>>

Pending == [judged |-> FALSE, ok |-> FALSE, mode |-> "", level |-> ""]

\* Claims at consecutive positions, each naming the link of the one before it,
\* the first naming a predecessor exactly when it is not the first of the log.
OneWindow(b) ==
  \A i \in DOMAIN b.claims :
    LET c == b.claims[i] IN
    /\ c.chained
    /\ c.seq = b.claims[1].seq + i - 1
    /\ i = 1 => (c.prev = NoLink <=> c.seq = 1)
    /\ i > 1 => c.prev = b.claims[i - 1].link

\* The head is not behind the window and not at odds with it.
HeadAgrees(b) ==
  \A i \in DOMAIN b.claims :
    b.claims[i].seq >= b.head.seq => Coords(b.claims[i]) = b.head

\* The links are the hashes the profile defines, for this producer.
Rehashed(b) ==
  /\ b.param \in {b.producer} \union (IF b.profile = ProfileV1 THEN {} ELSE {NoInstall})
  /\ \A i \in DOMAIN b.claims :
       /\ b.profile = ProfileV1 \/ b.claims[i].install \in {NoInstall, b.producer}
       /\ LinkRecomputes(b, i)

SoundMode(b) ==
  IF ~(OneWindow(b) /\ HeadAgrees(b)) THEN ""
  ELSE IF b.keyed THEN IF b.profile = ProfileV1 THEN ModeStructural ELSE ""
  ELSE IF Rehashed(b) THEN ModeFull ELSE ""

ClaimCoords(b) == {Coords(b.claims[i]) : i \in DOMAIN b.claims}

\* A sound chain whose every anchor names a claim, or a head ahead of them all;
\* anchored when its links were rehashed and some anchor names a claim.
Judgement(b) ==
  LET m == SoundMode(b)
      ok == m # "" /\ b.anchors \subseteq ClaimCoords(b) \union {b.head}
  IN  [judged |-> TRUE, ok |-> ok, mode |-> m,
       level |-> IF ~ok THEN "not verified"
                 ELSE IF m = ModeFull /\ b.anchors \intersect ClaimCoords(b) # {}
                   THEN "signed, chained, anchored" ELSE "signed, chained"]

JInit == file = NoFile /\ verdict = Pending

Receive == file = NoFile /\ file' # NoFile /\ verdict' = Pending
Judge == file # NoFile /\ verdict = Pending
         /\ verdict' = Judgement(file) /\ UNCHANGED file
PutAside == verdict.judged /\ file' = NoFile /\ verdict' = Pending

JNext == Receive \/ Judge \/ PutAside

JudgeSpec == JInit /\ [][JNext]_judgeVars
=============================================================================
