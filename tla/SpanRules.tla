----------------------------- MODULE SpanRules ------------------------------
(***************************************************************************)
(* What the verifier makes of span claims (internal/verify/span.go) and of *)
(* the times of entries, tokens and bundle (checkAnchors,                  *)
(* measureAttestationAge and measureUnanchored in internal/verify/         *)
(* verify.go), over a bundle whose chain checkChain accepted.              *)
(*                                                                         *)
(* Every time is a whole number of ticks, the code's microseconds.  A      *)
(* claim's members are numbers; NoInt stands for a member intMember does   *)
(* not read as an integer.  The shown entries are whole entries of a       *)
(* history whose links recompute; a link is the history up to its entry,   *)
(* reduced to what the profile commits.                                    *)
(***************************************************************************)
EXTENDS Integers, Sequences, FiniteSetsExt, SequencesExt

CONSTANTS
  Second,       \* microsPerSecond: the ticks of a second
  Year,         \* maxCadenceS: the largest cadence, in seconds
  Skew          \* anchorClockSkew, in ticks

ASSUME TicksAssumption == Second \in Nat \ {0} /\ Year \in Nat \ {0} /\ Skew \in Nat

Linear == {"loomseal-chain-v1", "switchtender-audit-v1"}
Merkle == "loomseal-merkle-v1"
NoChain == "none"
NoInt == -1

\* The path a switchtender producer writes a beat's members into.
SpanPath(c) == <<c.beat, c.count, c.cadence>>

\* What a link commits of an entry: under the switchtender profile the path and
\* not the members beside it, nor the claim's type.
CommittedPart(profile, c) ==
  IF profile = "switchtender-audit-v1" THEN [at |-> c.at, path |-> c.path] ELSE c
LinkAt(profile, entries, n) == [k \in 1 .. n |-> CommittedPart(profile, entries[k])]

(***************************************************************************)
(* Span claims.                                                            *)
(***************************************************************************)
SpansShown(b) == {n \in b.from .. b.to : b.entries[n].kind = "span"}

\* parseSpanClaim: coordinates, stream, and three integers in their ranges.
Parses(b, c) ==
  /\ b.profile # NoChain
  /\ c.stream = "chain"
  /\ c.cadence \in 1 .. Year /\ c.beat >= 1 /\ c.count >= 0

\* checkSpanPath: a switchtender span claim reads as its path does, and carries
\* no name that differs from a member's in case only.
FaultyPathHolds(c) == ~c.variant /\ c.path # << >>
PathHolds(c) == ~c.variant /\ c.path = SpanPath(c)

Usable(b, n) ==
  /\ Parses(b, b.entries[n])
  /\ b.profile = "switchtender-audit-v1" => PathHolds(b.entries[n])

\* The span claims checked against each other, and each with the one before it.
Spans(b) == {n \in SpansShown(b) : Usable(b, n)}
Pairs(b) ==
  LET s == Spans(b)
  IN  {p \in s \X s : p[1] < p[2] /\ \A k \in s : k <= p[1] \/ k >= p[2]}

\* checkSpanFirst: beat 1 counts every entry before it, in the bundle or not.
FirstFalse(b) ==
  LET s == Spans(b)
  IN  \E n \in s : /\ \A m \in s : m >= n
                   /\ b.entries[n].beat = 1 /\ b.entries[n].count # n - 1

\* checkSpanPairs, for a pair p of positions.  One whose numbers do not follow is
\* not looked at further.
FaultyMissingBeat(b, p) == b.entries[p[2]].beat <= b.entries[p[1]].beat
MissingBeat(b, p) == b.entries[p[2]].beat # b.entries[p[1]].beat + 1

Miscounted(b, p) == ~MissingBeat(b, p) /\ b.entries[p[2]].count # p[2] - p[1] - 1

Interval(b, p) == b.entries[p[2]].at - b.entries[p[1]].at
Stalled(b, p) == ~MissingBeat(b, p) /\ Interval(b, p) <= 0

\* The cadence the earlier beat declares, in ticks.
Cadence(b, p) == b.entries[p[1]].cadence * Second

ScheduleSlack(cadence) == Max({cadence \div 100, Second})

\* Whole windows a gap swallowed: cadences to the nearest, halves up, less the
\* one the arriving beat attests.
FaultyMissedWindows(delta, cadence) == Max({delta \div cadence - 1, 0})
MissedWindows(delta, cadence) == Max({(delta + cadence \div 2) \div cadence - 1, 0})

Gap(b, p) ==
  /\ ~MissingBeat(b, p) /\ ~Stalled(b, p)
  /\ Interval(b, p) > Cadence(b, p) + ScheduleSlack(Cadence(b, p))

PairFails(b, p) == MissingBeat(b, p) \/ Miscounted(b, p) \/ Stalled(b, p)

\* The gaps, and the windows missed in each.
Gaps(b) == {p \in Pairs(b) : Gap(b, p)}
Missed(b) == UNION {{p} \X (1 .. MissedWindows(Interval(b, p), Cadence(b, p))) : p \in Gaps(b)}

NoSpan == [present |-> FALSE, ok |-> FALSE, beats |-> 0, gaps |-> {}, windows |-> 0]

\* checkSpan.  Under the tree profile the first span claim ends the check; every
\* other problem leaves it running.
CheckSpan(b) ==
  IF SpansShown(b) = {} THEN NoSpan
  ELSE IF b.profile = Merkle THEN [NoSpan EXCEPT !.present = TRUE]
  ELSE [present |-> TRUE,
        ok |-> /\ b.profile # NoChain
               /\ \A n \in SpansShown(b) : Usable(b, n)
               /\ ~FirstFalse(b)
               /\ \A p \in Pairs(b) : ~PairFails(b, p),
        beats |-> Cardinality(Spans(b)),
        gaps |-> Gaps(b),
        windows |-> Cardinality(Spans(b)) + Cardinality(Missed(b))]

(***************************************************************************)
(* Anchors and their tokens.                                               *)
(***************************************************************************)

\* An anchor on a bundled claim matches; one on a head past the newest claim is
\* only declared, and a proof on it is not opened.
Matches(b, a) ==
  a.seq \in b.from .. b.to /\ a.link = LinkAt(b.profile, b.entries, a.seq)
Declared(b, a) ==
  /\ b.top > b.to
  /\ a.seq = b.top /\ a.link = LinkAt(b.profile, b.entries, b.top)

Matched(b) == {a \in b.anchors : Matches(b, a)}
Opened(b) == {a \in Matched(b) : a.type = "rfc3161"}

\* A token older than the entry it covers, by more than the skew of two clocks.
Precedes(b, a) == a.time < b.entries[a.seq].at - Skew

Holding(b) == {a \in Opened(b) : a.holds /\ ~Precedes(b, a)}

FaultyAnchorsOK(b) ==
  /\ \A a \in b.anchors : Matches(b, a) \/ Declared(b, a)
  /\ \A a \in Opened(b) : a.holds /\ a.time >= b.entries[a.seq].at
AnchorsOK(b) ==
  /\ b.profile = NoChain => b.anchors = {}
  /\ \A a \in b.anchors : Matches(b, a) \/ Declared(b, a)
  /\ Opened(b) \subseteq Holding(b)

\* A figure of the report: a span of time to the nearest second, halves up; empty,
\* NoFigure, unless the span is more than nothing.
NoFigure == -1
FaultyRounded(d) == d - (d % Second)
Rounded(d) ==
  LET r == d % Second IN IF 2 * r < Second THEN d - r ELSE d + Second - r
Figure(d) == IF d > 0 THEN Rounded(d) ELSE NoFigure

\* measureAttestationAge: from the newest token that held to created_at.
NewestToken(b) == Max({a.time : a \in Holding(b)})
FaultyAgeUnclamped(b) ==
  IF Holding(b) = {} THEN NoFigure ELSE Rounded(b.created - NewestToken(b))
FaultyAge(b) ==
  IF Holding(b) = {} \/ \A a \in Matched(b) : a.seq = b.to THEN NoFigure
  ELSE Figure(b.created - NewestToken(b))
AttestationAge(b) ==
  IF Holding(b) = {} THEN NoFigure ELSE Figure(b.created - NewestToken(b))

\* measureUnanchored's window: from the entry the newest matched anchor names to
\* the latest of the times after it.
Through(b) == IF Matched(b) = {} THEN 0 ELSE Max({a.seq : a \in Matched(b)})
UnanchoredWindow(b) ==
  IF Through(b) \in {0, b.to} THEN NoFigure
  ELSE Figure(Max({b.entries[n].at : n \in Through(b) + 1 .. b.to})
                - b.entries[Through(b)].at)

\* The words level adds to "signed, chained".
AnchoredWord(b) ==
  IF Holding(b) # {} THEN "proof verified"
  ELSE IF Matched(b) # {} THEN "by reference" ELSE "no"
Spanned(b) == AnchoredWord(b) # "no" /\ CheckSpan(b).present /\ CheckSpan(b).ok
=============================================================================
