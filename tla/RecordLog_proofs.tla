-------------------------- MODULE RecordLog_proofs --------------------------
(***************************************************************************)
(* Proofs about the walk of checkRecords, in three parts: the comparison   *)
(* of the specs of one run, what is reported of the records, and what a    *)
(* holder may leave out.                                                   *)
(*                                                                         *)
(* First, the specs of one run are compared well enough.  runSpecsAgree    *)
(* keeps the records it has met, and compares a record with those of the   *)
(* other kind; where its own kind was met before, with the first of them   *)
(* alone.  That no approval and execution that differ get past it rests on *)
(* what the earlier turns have settled, so the invariant says of every     *)
(* turn that no two records before it differ.                              *)
(***************************************************************************)
EXTENDS RecordLog, SequenceTheorems, WellFoundedInduction, TLAPS

\* The records named so far: decisions and outcomes, each of some claim.
Named_OK(c) == c.claim \in Nat /\ c.kind \in {"decision", "outcome"}

Before(k) == {committed[i] : i \in 1 .. k - 1}
Kept(k) == {c \in Before(k) : Comparable(c)}
NoDrift(k) == \A c, d \in Before(k) : ~Drift(c, d)

ListInv ==
  /\ pos \in Nat \ {0}
  /\ \E S : committed \in Seq(S)
  /\ \A i \in DOMAIN committed : Named_OK(committed[i])

WalkInv ==
  /\ phase \in {"open", "claims", "runs", "classify", "done"}
  /\ phase \in {"open", "claims"} => seen = {}
  /\ phase = "runs" => pos <= Len(committed) + 1 /\ seen = Kept(pos) /\ NoDrift(pos)
  /\ phase = "classify" => pos = Len(committed) + 1
  /\ phase \in {"classify", "done"} /\ pos = Len(committed) + 1 => NoDrift(pos)
  /\ phase = "done" /\ pos # Len(committed) + 1 =>
       /\ pos <= Len(committed)
       /\ \E d \in Before(pos) : Drift(d, committed[pos])

RunInv == ListInv /\ WalkInv

\* Among records of claims one is of the first claim.
LEMMA FirstOfKind ==
  ASSUME NEW S, S # {}, \A s \in S : s.claim \in Nat
  PROVE  \E s \in S : \A t \in S : s.claim <= t.claim
<1> DEFINE P == {s.claim : s \in S}
<1>1. P \subseteq Nat /\ P # {}
  OBVIOUS
<1>2. PICK n \in P : \A m \in P : <<m, n>> \notin OpToRel(<, Nat)
  <2> HIDE DEF P
  <2> QED BY <1>1, NatLessThanWellFounded, WFMin, Zenon
<1>3. PICK s \in S : s.claim = n
  OBVIOUS
<1>4. ASSUME NEW t \in S PROVE s.claim <= t.claim
  <2>1. ~(t.claim < s.claim)
    BY <1>2, <1>3 DEF OpToRel
  <2> QED BY <2>1
<1> QED BY <1>4

-----------------------------------------------------------------------------
(* One turn of runSpecsAgree. *)

\* The other kind's records are of this run and of the other kind.
LEMMA OtherKind ==
  ASSUME ListInv, phase = "runs", pos <= Len(committed), seen = Kept(pos)
  PROVE  /\ \A s \in Seen(committed[pos].run, Other(committed[pos].kind)) :
              /\ s \in Before(pos) /\ Comparable(s) /\ s.claim \in Nat
              /\ s.run = committed[pos].run /\ s.kind # committed[pos].kind
         /\ \A s \in Before(pos) :
              /\ Comparable(s) /\ s.run = committed[pos].run /\ s.kind # committed[pos].kind
              => s \in Seen(committed[pos].run, Other(committed[pos].kind))
<1>1. pos \in DOMAIN committed /\ \A i \in 1 .. pos - 1 : i \in DOMAIN committed
  BY DEF ListInv
<1>2. Named_OK(committed[pos]) /\ \A s \in Before(pos) : Named_OK(s)
  BY <1>1 DEF ListInv, Before
<1>3. \A s \in Seen(committed[pos].run, Other(committed[pos].kind)) :
        s \in Before(pos) /\ Comparable(s) /\ s.run = committed[pos].run /\ s.kind # committed[pos].kind
  BY <1>2 DEF Seen, Kept, Other, Named_OK
<1>4. \A s \in Before(pos) :
        Comparable(s) /\ s.run = committed[pos].run /\ s.kind # committed[pos].kind
        => s \in Seen(committed[pos].run, Other(committed[pos].kind))
  BY <1>2 DEF Seen, Kept, Other, Named_OK
<1> QED BY <1>2, <1>3, <1>4 DEF Named_OK

\* What a record is compared with: some of the other kind's records, and where
\* there is one, at least one.
LEMMA AgainstSome ==
  ASSUME ListInv, phase = "runs", pos <= Len(committed), seen = Kept(pos)
  PROVE  LET c == committed[pos]
             other == Seen(c.run, Other(c.kind))
         IN  /\ Against(c) \subseteq other
             /\ other # {} => Against(c) # {}
             /\ Seen(c.run, c.kind) = {} => Against(c) = other
<1> DEFINE c == committed[pos]
           other == Seen(c.run, Other(c.kind))
           First == CHOOSE s \in other : \A t \in other : s.claim <= t.claim
<1>1. other # {} => First \in other
  <2>1. \A s \in other : s.claim \in Nat
    BY OtherKind
  <2> HIDE DEF other
  <2>2. other # {} => \E s \in other : \A t \in other : s.claim <= t.claim
    BY <2>1, FirstOfKind
  <2> QED BY <2>2
<1>2. Against(c) = IF Seen(c.run, c.kind) # {} /\ other # {} THEN {First} ELSE other
  BY DEF Against
<1> HIDE DEF other, First, c
<1>3. Against(c) \subseteq other /\ (other # {} => Against(c) # {}) /\ (Seen(c.run, c.kind) = {} => Against(c) = other)
  BY <1>1, <1>2
<1> QED BY <1>3 DEF other, c

\* A record that agrees with those it is compared with differs from none before
\* it: what stands for its run was compared with them all.
LEMMA AgreesWithAll ==
  ASSUME ListInv, phase = "runs", pos <= Len(committed), seen = Kept(pos), NoDrift(pos),
         Agrees(committed[pos]),
         NEW d \in Before(pos)
  PROVE  ~Drift(d, committed[pos])
<1> DEFINE c == committed[pos]
           other == Seen(c.run, Other(c.kind))
<1>1. SUFFICES ASSUME Drift(d, c) PROVE FALSE
  OBVIOUS
<1>2. /\ Comparable(d) /\ Comparable(c)
      /\ d.run = c.run /\ d.kind # c.kind /\ d.digest # c.digest
  BY <1>1 DEF Drift
<1>3. d \in other
  BY <1>2, OtherKind
<1>4. \A s \in Against(c) : s.digest = c.digest
  BY <1>2 DEF Agrees
<1>5. CASE Seen(c.run, c.kind) = {}
  <2>1. d \in Against(c)
    BY <1>3, <1>5, AgainstSome
  <2> QED BY <2>1, <1>4, <1>2
<1>6. CASE Seen(c.run, c.kind) # {}
  <2>1. PICK o \in Seen(c.run, c.kind) : TRUE
    BY <1>6
  <2>2. PICK s \in Against(c) : s \in other
    BY <1>3, AgainstSome
  <2>3. o \in Before(pos) /\ Comparable(o) /\ o.run = c.run /\ o.kind = c.kind
    BY <2>1 DEF Seen, Kept
  <2>4. s \in Before(pos) /\ Comparable(s) /\ s.run = c.run /\ s.kind # c.kind
    BY <2>2, OtherKind
  <2>5. o.digest = s.digest
    BY <2>3, <2>4 DEF NoDrift, Drift
  <2>6. o.digest = d.digest
    BY <2>3, <1>2 DEF NoDrift, Drift
  <2> QED BY <2>2, <2>5, <2>6, <1>4, <1>2
<1> QED BY <1>5, <1>6

\* A record that disagrees differs from one before it.
LEMMA DisagreesWithOne ==
  ASSUME ListInv, phase = "runs", pos <= Len(committed), seen = Kept(pos), ~Agrees(committed[pos])
  PROVE  \E d \in Before(pos) : Drift(d, committed[pos])
<1>1. PICK s \in Against(committed[pos]) : s.digest # committed[pos].digest
  BY DEF Agrees
<1>2. s \in Seen(committed[pos].run, Other(committed[pos].kind))
  BY <1>1, AgainstSome
<1>3. /\ s \in Before(pos) /\ Comparable(s)
      /\ s.run = committed[pos].run /\ s.kind # committed[pos].kind
  BY <1>2, OtherKind
<1>4. Comparable(committed[pos])
  BY DEF Agrees
<1> QED BY <1>1, <1>3, <1>4 DEF Drift

-----------------------------------------------------------------------------
(* The steps. *)

\* A walk that begins keeps nothing yet.
LEMMA RunInit == Init => RunInv
<1> SUFFICES ASSUME Init PROVE RunInv
  OBVIOUS
<1>1. committed = << >> /\ pos = 1 /\ phase = "open" /\ seen = {}
  BY DEF Init
<1>2. committed \in Seq({1}) /\ \A i \in DOMAIN committed : Named_OK(committed[i])
  BY <1>1
<1> QED BY <1>1, <1>2 DEF RunInv, ListInv, WalkInv

\* Holders, and the key's holder, work before the walk.
LEMMA OpenStep ==
  ASSUME RunInv, Withhold \/ Redact \/ CutWindow \/ Alter
  PROVE  RunInv'
<1>1. phase = "open" /\ UNCHANGED <<phase, pos, committed, seen>>
  BY DEF Withhold, Redact, CutWindow, Alter, Held, found
<1>2. ListInv'
  BY <1>1 DEF RunInv, ListInv, Named_OK
<1>3. WalkInv'
  BY <1>1 DEF RunInv, WalkInv
<1> QED BY <1>2, <1>3 DEF RunInv

\* The claims' turns add to the list what a confirmed record names.
LEMMA NamedIsOK ==
  ASSUME NEW b, NEW i \in Nat, Names(b, i)
  PROVE  Named_OK(Named(b, i))
  BY DEF Names, Named, Named_OK

LEMMA ClaimStep ==
  ASSUME RunInv, CheckClaim
  PROVE  RunInv'
<1>1. /\ phase = "claims" /\ phase' = phase /\ seen' = seen /\ pos' = pos + 1
      /\ committed' = IF Names(bundle, pos) THEN Append(committed, Named(bundle, pos)) ELSE committed
  BY DEF CheckClaim, made
<1>2. ListInv'
  <2>1. pos' \in Nat \ {0}
    BY <1>1 DEF RunInv, ListInv
  <2>2. CASE ~Names(bundle, pos)
    BY <1>1, <2>1, <2>2 DEF RunInv, ListInv, Named_OK
  <2>3. CASE Names(bundle, pos)
    <3> DEFINE n == Named(bundle, pos)
    <3>1. Named_OK(n)
      BY <2>3, NamedIsOK DEF RunInv, ListInv
    <3>2. PICK S : committed \in Seq(S)
      BY DEF RunInv, ListInv
    <3>3. committed' = Append(committed, n)
      BY <1>1, <2>3
    <3> HIDE DEF n
    <3>4. committed \in Seq(S \union {n}) /\ n \in S \union {n}
      BY <3>2
    <3>5. committed' \in Seq(S \union {n})
      BY <3>3, <3>4
    <3>6. ASSUME NEW i \in DOMAIN committed' PROVE Named_OK(committed'[i])
      <4>1. Len(committed) \in Nat /\ i \in 1 .. Len(committed) + 1
        BY <3>3, <3>4
      <4>2. CASE i = Len(committed) + 1
        <5>1. committed'[i] = n
          BY <3>3, <3>4, <4>2
        <5> QED BY <5>1, <3>1 DEF Named_OK
      <4>3. CASE i \in 1 .. Len(committed)
        <5>1. committed'[i] = committed[i] /\ i \in DOMAIN committed
          BY <3>3, <3>4, <4>3
        <5> QED BY <5>1 DEF RunInv, ListInv, Named_OK
      <4> QED BY <4>1, <4>2, <4>3
    <3> QED BY <2>1, <3>5, <3>6 DEF ListInv, Named_OK
  <2> QED BY <2>2, <2>3
<1>3. WalkInv'
  BY <1>1 DEF RunInv, WalkInv
<1> QED BY <1>2, <1>3 DEF RunInv

\* A turn of the comparison that agrees adds one record to those kept.
LEMMA CompareStep ==
  ASSUME RunInv, CompareRun
  PROVE  RunInv'
<1>1. /\ phase = "runs" /\ phase' = phase /\ pos <= Len(committed) /\ pos' = pos + 1
      /\ Agrees(committed[pos]) /\ committed' = committed
      /\ seen' = seen \union {c \in {committed[pos]} : Comparable(c)}
  BY DEF CompareRun, made
<1>2. ListInv /\ seen = Kept(pos) /\ NoDrift(pos) /\ pos \in Nat \ {0} /\ Len(committed) \in Nat
  <2>1. ListInv /\ seen = Kept(pos) /\ NoDrift(pos) /\ pos \in Nat \ {0}
    BY <1>1 DEF RunInv, WalkInv, ListInv
  <2>2. PICK S : committed \in Seq(S)
    BY <2>1 DEF ListInv
  <2> QED BY <2>1, <2>2
<1>3. ListInv'
  BY <1>1, <1>2 DEF ListInv, Named_OK
<1>4. Before(pos + 1) = Before(pos) \union {committed[pos]}
  <2>1. 1 .. pos + 1 - 1 = (1 .. pos - 1) \union {pos}
    BY <1>2
  <2> QED BY <2>1 DEF Before
<1>5. Kept(pos + 1) = seen'
  BY <1>1, <1>2, <1>4 DEF Kept
<1>6. NoDrift(pos + 1)
  <2>1. \A d \in Before(pos) : ~Drift(d, committed[pos])
    BY <1>1, <1>2, AgreesWithAll
  <2>2. \A d \in Before(pos) : ~Drift(committed[pos], d)
    BY <2>1 DEF Drift
  <2>3. ~Drift(committed[pos], committed[pos])
    BY DEF Drift
  <2> QED BY <1>2, <1>4, <2>1, <2>2, <2>3 DEF NoDrift
<1>7. Kept(pos)' = Kept(pos + 1) /\ (NoDrift(pos)' <=> NoDrift(pos + 1))
  BY <1>1 DEF Kept, NoDrift, Before, Comparable, Drift
<1>8. pos' <= Len(committed') + 1
  BY <1>1, <1>2
<1>9. WalkInv'
  BY <1>1, <1>5, <1>6, <1>7, <1>8 DEF WalkInv
<1> QED BY <1>3, <1>9 DEF RunInv

\* A turn that disagrees has met a record that differs.
LEMMA DisagreeStep ==
  ASSUME RunInv, RunDisagrees
  PROVE  RunInv'
<1>1. /\ phase = "runs" /\ phase' = "done" /\ pos <= Len(committed) /\ pos' = pos
      /\ ~Agrees(committed[pos]) /\ committed' = committed /\ seen' = seen
  BY DEF RunDisagrees
<1>2. ListInv /\ seen = Kept(pos)
  BY <1>1 DEF RunInv, WalkInv
<1>3. \E d \in Before(pos) : Drift(d, committed[pos])
  BY <1>1, <1>2, DisagreesWithOne
<1>4. \E d \in Before(pos)' : Drift(d, committed'[pos'])
  BY <1>1, <1>3 DEF Before
<1>5. ListInv'
  BY <1>1, <1>2 DEF ListInv, Named_OK
<1>6. pos' # Len(committed') + 1
  <2>1. PICK S : committed \in Seq(S)
    BY <1>2 DEF ListInv
  <2>2. Len(committed) \in Nat /\ pos \in Nat
    BY <2>1, <1>2 DEF ListInv
  <2> QED BY <2>2, <1>1
<1>7. WalkInv'
  BY <1>1, <1>4, <1>6 DEF WalkInv
<1> QED BY <1>5, <1>7 DEF RunInv

\* The steps that leave list and kept records as they are, and go on from the end.
LEMMA OtherStep ==
  ASSUME RunInv, Deliver \/ LastClaim \/ CheckSpecs \/ Classify \/ Done \/ UNCHANGED vars
  PROVE  RunInv'
<1>1. committed' = committed /\ seen' = seen
  BY DEF Deliver, LastClaim, CheckSpecs, Classify, Done, vars, made, found
<1>2. PICK S : committed \in Seq(S)
  BY DEF RunInv, ListInv
<1>3. Len(committed) \in Nat /\ pos \in Nat \ {0}
  BY <1>2 DEF RunInv, ListInv
<1>4. CASE Deliver
  <2>1. phase = "open" /\ phase' = "claims" /\ pos' = pos
    BY <1>4 DEF Deliver, made, found
  <2>2. ListInv'
    BY <1>1, <2>1 DEF RunInv, ListInv, Named_OK
  <2> QED BY <1>1, <2>1, <2>2 DEF RunInv, WalkInv
<1>5. CASE LastClaim
  <2>1. phase = "claims" /\ phase' = "runs" /\ pos' = 1
    BY <1>5 DEF LastClaim
  <2>2. ListInv'
    BY <1>1, <2>1 DEF RunInv, ListInv, Named_OK
  <2>3. seen = {}
    BY <2>1 DEF RunInv, WalkInv
  <2>4. Before(pos)' = {}
    BY <2>1 DEF Before
  <2>5. seen' = Kept(pos)' /\ NoDrift(pos)'
    BY <1>1, <2>3, <2>4 DEF Kept, NoDrift
  <2>6. pos' <= Len(committed') + 1
    BY <1>1, <1>3, <2>1
  <2> QED BY <2>1, <2>2, <2>5, <2>6 DEF RunInv, WalkInv
<1>6. CASE CheckSpecs
  <2>1. /\ phase = "runs" /\ pos > Len(committed) /\ phase' \in {"done", "classify"}
        /\ pos' = pos
    BY <1>6 DEF CheckSpecs, made
  <2>2. ListInv'
    BY <1>1, <2>1 DEF RunInv, ListInv, Named_OK
  <2>3. pos = Len(committed) + 1 /\ NoDrift(pos)
    <3>1. pos <= Len(committed) + 1 /\ NoDrift(pos)
      BY <2>1 DEF RunInv, WalkInv
    <3> QED BY <3>1, <2>1, <1>3
  <2>4. NoDrift(pos)' /\ pos' = Len(committed') + 1
    BY <1>1, <2>1, <2>3 DEF NoDrift, Before
  <2> QED BY <2>1, <2>2, <2>4 DEF RunInv, WalkInv
<1>7. CASE Classify
  <2>1. phase = "classify" /\ phase' = "done" /\ pos' = pos
    BY <1>7 DEF Classify, made
  <2>2. ListInv'
    BY <1>1, <2>1 DEF RunInv, ListInv, Named_OK
  <2>3. pos = Len(committed) + 1 /\ NoDrift(pos)
    BY <2>1 DEF RunInv, WalkInv
  <2>4. NoDrift(pos)' /\ pos' = Len(committed') + 1
    BY <1>1, <2>1, <2>3 DEF NoDrift, Before
  <2> QED BY <2>1, <2>2, <2>4 DEF RunInv, WalkInv
<1>8. CASE Done \/ UNCHANGED vars
  <2>1. phase' = phase /\ pos' = pos
    BY <1>8 DEF Done, vars
  <2>2. ListInv'
    BY <1>1, <2>1 DEF RunInv, ListInv, Named_OK
  <2>3. Before(pos)' = Before(pos)
    BY <1>1, <2>1 DEF Before
  <2>4. Kept(pos)' = Kept(pos) /\ (NoDrift(pos)' <=> NoDrift(pos))
    BY <2>3 DEF Kept, NoDrift, Comparable
  <2>5. WalkInv'
    BY <1>1, <2>1, <2>3, <2>4 DEF RunInv, WalkInv
  <2> QED BY <2>2, <2>5 DEF RunInv
<1> QED BY <1>4, <1>5, <1>6, <1>7, <1>8

LEMMA RunNext == RunInv /\ [Next]_vars => RunInv'
<1> SUFFICES ASSUME RunInv, [Next]_vars PROVE RunInv'
  OBVIOUS
<1>1. CASE Withhold \/ Redact \/ CutWindow \/ Alter
  BY <1>1, OpenStep
<1>2. CASE CheckClaim
  BY <1>2, ClaimStep
<1>3. CASE CompareRun
  BY <1>3, CompareStep
<1>4. CASE RunDisagrees
  BY <1>4, DisagreeStep
<1>5. CASE Deliver \/ LastClaim \/ CheckSpecs \/ Classify \/ Done \/ UNCHANGED vars
  BY <1>5, OtherStep
<1> QED BY <1>1, <1>2, <1>3, <1>4, <1>5 DEF Next, Check

-----------------------------------------------------------------------------
\* At the end of the walk the invariant is the property.
LEMMA RunInvShows == RunInv => SpecDriftShows
<1> SUFFICES ASSUME RunInv PROVE SpecDriftShows
  OBVIOUS
<1>1. PICK S : committed \in Seq(S)
  BY DEF RunInv, ListInv
<1>2. Len(committed) \in Nat /\ pos \in Nat \ {0} /\ DOMAIN committed = 1 .. Len(committed)
  BY <1>1 DEF RunInv, ListInv
<1>3. ASSUME phase \in {"classify", "done"}, pos > Len(committed),
             NEW i \in DOMAIN committed, NEW j \in DOMAIN committed
      PROVE  ~Drift(committed[i], committed[j])
  <2>1. pos = Len(committed) + 1
    <3>1. pos = Len(committed) + 1 \/ pos <= Len(committed)
      BY <1>3 DEF RunInv, WalkInv
    <3> QED BY <3>1, <1>3, <1>2
  <2>2. NoDrift(pos)
    BY <2>1, <1>3 DEF RunInv, WalkInv
  <2>3. i \in 1 .. pos - 1 /\ j \in 1 .. pos - 1
    BY <1>2, <2>1
  <2> QED BY <2>2, <2>3 DEF NoDrift, Before
<1>4. ASSUME phase = "done", pos <= Len(committed)
      PROVE  \E i \in 1 .. pos - 1 : Drift(committed[i], committed[pos])
  <2>1. pos # Len(committed) + 1
    BY <1>2, <1>4
  <2>2. \E d \in Before(pos) : Drift(d, committed[pos])
    BY <2>1, <1>4 DEF RunInv, WalkInv
  <2> QED BY <2>2 DEF Before
<1> QED BY <1>3, <1>4 DEF SpecDriftShows

\* For every list of records in every order, however many to a run: runSpecsAgree
\* lets no approval and execution of one run pass that name different specs, and
\* stops for nothing else (records.go, runSpecsAgree and checkSpecs).
THEOREM DriftAlwaysShows == Spec => []SpecDriftShows
<1>1. Init => RunInv
  BY RunInit
<1>2. RunInv /\ [Next]_vars => RunInv'
  BY RunNext
<1>3. RunInv => SpecDriftShows
  BY RunInvShows
<1> QED BY <1>1, <1>2, <1>3, PTL DEF Spec

-----------------------------------------------------------------------------
(***************************************************************************)
(* Proofs of what the walk of checkRecords reports of the records: that    *)
(* what stands as checked is what the producer recorded, that nothing      *)
(* unchecked goes uncounted, and that no guessable body passes after the   *)
(* keyed form began.                                                       *)
(*                                                                         *)
(* Whatever is done to a bundle, each claim keeps what its link commits    *)
(* (BundleInv); the walk settles of each claim what its rules say of it,   *)
(* and nothing else (StateInv); and a digest that matches is of the body   *)
(* recorded.                                                               *)
(***************************************************************************)


\* Claim c is entry o with other members beside its link, or of another type.
SameEntry(c, o) ==
  /\ c = [type |-> c.type, kind |-> o.kind, run |-> o.run, digest |-> o.digest, m |-> c.m]
  /\ c.m = [x \in Members |-> c.m[x]]
  /\ c.type \in {o.type, "other"}

InWindow ==
  /\ recorded \in Logs /\ \E S : bundle \in Seq(S)
  /\ Len(bundle) \in Nat \ {0} /\ from \in Nat \ {0}
  /\ from + Len(bundle) - 1 <= Len(recorded)

BundleInv == InWindow /\ \A i \in DOMAIN bundle : SameEntry(bundle[i], Origin(i))

-----------------------------------------------------------------------------
(* The bundle. *)

\* A log is a sequence of claims in full disclosure.
LEMMA LogIsSequence ==
  ASSUME NEW l \in Logs
  PROVE  /\ \E S : l \in Seq(S)
         /\ Len(l) \in Nat \ {0} /\ DOMAIN l = 1 .. Len(l)
         /\ \A i \in DOMAIN l : InFull(l[i])
<1>1. Len(l) \in Nat \ {0} /\ l = [i \in 1 .. Len(l) |-> l[i]] /\ \A i \in 1 .. Len(l) : InFull(l[i])
  BY RecordedAssumption
<1> DEFINE n == Len(l)
           S == {l[i] : i \in 1 .. n}
<1>2. l \in [1 .. n -> S] /\ n \in Nat
  <2> \A i \in 1 .. n : l[i] \in S
    OBVIOUS
  <2> HIDE DEF S, n
  <2>1. l = [i \in 1 .. n |-> l[i]]
    BY <1>1 DEF n
  <2>2. n \in Nat
    BY <1>1 DEF n
  <2> QED BY <2>1, <2>2
<1>3. l \in Seq(S)
  <2> HIDE DEF S, n
  <2> QED BY <1>2
<1>4. DOMAIN l = 1 .. Len(l)
  BY <1>2
<1> QED BY <1>1, <1>3, <1>4

\* Where the claims of a bundle are in the log.
LEMMA WindowPlaces ==
  ASSUME InWindow
  PROVE  /\ DOMAIN bundle = 1 .. Len(bundle)
         /\ \A i \in DOMAIN bundle : i \in Nat \ {0} /\ from + i - 1 \in DOMAIN recorded
         /\ \A i \in DOMAIN bundle : InFull(Origin(i))
<1>1. PICK S : bundle \in Seq(S)
  BY DEF InWindow
<1>2. DOMAIN bundle = 1 .. Len(bundle)
  BY <1>1
<1>3. DOMAIN recorded = 1 .. Len(recorded) /\ Len(recorded) \in Nat /\ \A i \in DOMAIN recorded : InFull(recorded[i])
  BY LogIsSequence DEF InWindow
<1>4. Len(bundle) \in Nat /\ from \in Nat \ {0} /\ from + Len(bundle) - 1 <= Len(recorded)
  BY DEF InWindow
<1>5. ASSUME NEW i \in DOMAIN bundle
      PROVE  i \in Nat \ {0} /\ from + i - 1 \in DOMAIN recorded
  <2>1. i \in 1 .. Len(bundle)
    BY <1>2
  <2>2. from + i - 1 \in 1 .. Len(recorded)
    BY <2>1, <1>3, <1>4
  <2> QED BY <2>1, <2>2, <1>3
<1> QED BY <1>2, <1>3, <1>5 DEF Origin

\* One claim of the bundle put in the place of another.
LEMMA PutClaim ==
  ASSUME BundleInv, NEW i \in DOMAIN bundle, NEW c, SameEntry(c, Origin(i)),
         bundle' = [bundle EXCEPT ![i] = c], UNCHANGED <<recorded, from>>
  PROVE  BundleInv'
<1>1. PICK S : bundle \in Seq(S)
  BY DEF BundleInv, InWindow
<1>2. /\ bundle' \in Seq(S \union {c}) /\ DOMAIN bundle' = DOMAIN bundle /\ Len(bundle') = Len(bundle)
      /\ bundle'[i] = c /\ \A j \in DOMAIN bundle : j # i => bundle'[j] = bundle[j]
  <2>1. bundle \in Seq(S \union {c})
    BY <1>1
  <2> QED BY <2>1
<1>3. \A j \in DOMAIN bundle : Origin(j)' = Origin(j)
  BY DEF Origin
<1>4. InWindow'
  BY <1>2 DEF BundleInv, InWindow
<1>5. ASSUME NEW j \in DOMAIN bundle' PROVE SameEntry(bundle'[j], Origin(j)')
  <2>1. CASE j = i
    BY <1>2, <1>3, <2>1
  <2>2. CASE j # i
    BY <1>2, <1>3, <2>2 DEF BundleInv
  <2> QED BY <2>1, <2>2
<1>6. BundleInv' <=> InWindow' /\ \A j \in DOMAIN bundle' : SameEntry(bundle'[j], Origin(j)')
  BY DEF BundleInv, SameEntry
<1> QED BY <1>4, <1>5, <1>6

\* Another value for all of a claim's members.
LEMMA PutMembers ==
  ASSUME NEW c, NEW o, SameEntry(c, o), NEW f, f = [x \in Members |-> f[x]]
  PROVE  /\ SameEntry([c EXCEPT !.m = f], o)
         /\ [c EXCEPT !.m = f].m = f /\ [c EXCEPT !.m = f].type = c.type
         /\ [c EXCEPT !.m = f].kind = o.kind
<1>1. c = [type |-> c.type, kind |-> o.kind, run |-> o.run, digest |-> o.digest, m |-> c.m]
      /\ c.type \in {o.type, "other"}
  BY DEF SameEntry
<1> DEFINE d == [type |-> c.type, kind |-> o.kind, run |-> o.run, digest |-> o.digest, m |-> f]
<1>2. [c EXCEPT !.m = f] = d
  BY <1>1
<1>3. d.m = f /\ d.type = c.type /\ d.kind = o.kind /\ d.run = o.run /\ d.digest = o.digest
  OBVIOUS
<1>4. SameEntry(d, o)
  BY <1>1, <1>3 DEF SameEntry
<1> QED BY <1>2, <1>3, <1>4

\* Withholding leaves the entry as it is.
WithoutMembers(c, ms) == [c EXCEPT !.m = [x \in Members |-> IF x \in ms THEN Absent ELSE c.m[x]]]
LEMMA WithoutIs ==
  ASSUME NEW i \in DOMAIN bundle, NEW ms
  PROVE  Without(i, ms) = [bundle EXCEPT ![i] = WithoutMembers(bundle[i], ms)]
  BY DEF Without, WithoutMembers

Redacted(c) ==
  [c EXCEPT !.m = [x \in Members |-> IF x = "redacted" THEN "category"
                                     ELSE IF x \in Reason THEN Absent ELSE c.m[x]]]

LEMMA RedactedIs ==
  ASSUME BundleInv, NEW i \in DOMAIN bundle
  PROVE  [Without(i, Reason) EXCEPT ![i].m.redacted = "category"]
           = [bundle EXCEPT ![i] = Redacted(bundle[i])]
<1> DEFINE c == bundle[i]
           w == WithoutMembers(c, Reason)
<1>1. SameEntry(c, Origin(i)) /\ Without(i, Reason) = [bundle EXCEPT ![i] = w]
  BY WithoutIs DEF BundleInv
<1>2. w.m = [x \in Members |-> IF x \in Reason THEN Absent ELSE c.m[x]]
  BY <1>1 DEF SameEntry, WithoutMembers
<1>3. [w EXCEPT !.m.redacted = "category"] = Redacted(c)
  <2>1. [w EXCEPT !.m.redacted = "category"] = [w EXCEPT !.m = [w.m EXCEPT !.redacted = "category"]]
    OBVIOUS
  <2>2. "redacted" \in Members /\ "redacted" \in Reason
    BY DEF Members, Reason
  <2>3. [w.m EXCEPT !.redacted = "category"] =
          [x \in Members |-> IF x = "redacted" THEN "category"
                              ELSE IF x \in Reason THEN Absent ELSE c.m[x]]
    BY <1>2, <2>2
  <2>4. ASSUME NEW f, NEW g PROVE [[c EXCEPT !.m = f] EXCEPT !.m = g] = [c EXCEPT !.m = g]
    OBVIOUS
  <2> QED BY <2>1, <2>3, <2>4 DEF Redacted, WithoutMembers
<1>4. [[bundle EXCEPT ![i] = w] EXCEPT ![i].m.redacted = "category"]
        = [bundle EXCEPT ![i] = [w EXCEPT !.m.redacted = "category"]]
  <2> HIDE DEF w
  <2> QED OBVIOUS
<1> QED BY <1>1, <1>3, <1>4

LEMMA WithholdKeeps ==
  ASSUME BundleInv, Withhold
  PROVE  BundleInv'
<1>1. PICK i \in DOMAIN bundle : \E ms \in Units(bundle[i]) : bundle' = Without(i, ms)
  BY DEF Withhold
<1>2. PICK ms : bundle' = Without(i, ms)
  BY <1>1
<1>3. UNCHANGED <<recorded, from>>
  BY DEF Withhold, Held
<1>4. SameEntry(WithoutMembers(bundle[i], ms), Origin(i))
  <2> SameEntry(bundle[i], Origin(i))
    BY DEF BundleInv
  <2> DEFINE f == [x \in Members |-> IF x \in ms THEN Absent ELSE bundle[i].m[x]]
  <2>1. f = [x \in Members |-> f[x]]
    OBVIOUS
  <2> HIDE DEF f
  <2>2. SameEntry([bundle[i] EXCEPT !.m = f], Origin(i))
    BY <2>1, PutMembers
  <2> QED BY <2>2 DEF f, WithoutMembers
<1> QED BY <1>2, <1>3, <1>4, WithoutIs, PutClaim

LEMMA RedactKeeps ==
  ASSUME BundleInv, Redact
  PROVE  BundleInv'
<1>1. PICK i \in DOMAIN bundle : bundle' = [Without(i, Reason) EXCEPT ![i].m.redacted = "category"]
  BY DEF Redact
<1>2. UNCHANGED <<recorded, from>>
  BY DEF Redact, Held
<1>3. SameEntry(Redacted(bundle[i]), Origin(i))
  <2> SameEntry(bundle[i], Origin(i))
    BY DEF BundleInv
  <2> DEFINE f == [x \in Members |-> IF x = "redacted" THEN "category"
                                     ELSE IF x \in Reason THEN Absent ELSE bundle[i].m[x]]
  <2>1. f = [x \in Members |-> f[x]]
    OBVIOUS
  <2> HIDE DEF f
  <2>2. SameEntry([bundle[i] EXCEPT !.m = f], Origin(i))
    BY <2>1, PutMembers
  <2> QED BY <2>2 DEF f, Redacted
<1>4. bundle' = [bundle EXCEPT ![i] = Redacted(bundle[i])]
  BY <1>1, RedactedIs
<1> QED BY <1>2, <1>3, <1>4, PutClaim

LEMMA AlterKeeps ==
  ASSUME BundleInv, Alter
  PROVE  BundleInv'
<1>1. UNCHANGED <<recorded, from>>
  BY DEF Alter
<1>2. PICK i \in DOMAIN bundle :
        \/ \E m \in Members : \E v \in (Values[m] \union {Absent}) \ {bundle[i].m[m]} :
             bundle' = [bundle EXCEPT ![i].m[m] = v]
        \/ bundle' = [bundle EXCEPT ![i].type = "other"]
  BY DEF Alter
<1>3. SameEntry(bundle[i], Origin(i))
  BY DEF BundleInv
<1> DEFINE c == bundle[i]
<1>4. CASE \E m \in Members : \E v \in (Values[m] \union {Absent}) \ {bundle[i].m[m]} :
             bundle' = [bundle EXCEPT ![i].m[m] = v]
  <2>0. PICK m \in Members : \E v : bundle' = [bundle EXCEPT ![i].m[m] = v]
    BY <1>4
  <2>1. PICK v : bundle' = [bundle EXCEPT ![i].m[m] = v]
    BY <2>0
  <2> DEFINE f == [c.m EXCEPT ![m] = v]
  <2>2. f = [x \in Members |-> f[x]]
    BY <1>3 DEF SameEntry
  <2>3. bundle' = [bundle EXCEPT ![i] = [c EXCEPT !.m = f]]
    BY <2>1
  <2> HIDE DEF f, c
  <2>4. SameEntry([c EXCEPT !.m = f], Origin(i))
    BY <2>2, <1>3, PutMembers DEF c
  <2> QED BY <1>1, <2>3, <2>4, PutClaim
<1>5. CASE bundle' = [bundle EXCEPT ![i].type = "other"]
  <2>1. bundle' = [bundle EXCEPT ![i] = [c EXCEPT !.type = "other"]]
    BY <1>5
  <2>2. SameEntry([c EXCEPT !.type = "other"], Origin(i))
    <3> DEFINE o == Origin(i)
               d == [type |-> "other", kind |-> o.kind, run |-> o.run, digest |-> o.digest, m |-> c.m]
    <3>1. [c EXCEPT !.type = "other"] = d
      BY <1>3 DEF SameEntry
    <3>2. d.type = "other" /\ d.m = c.m
      OBVIOUS
    <3>3. SameEntry(d, o)
      BY <3>2, <1>3 DEF SameEntry
    <3> QED BY <3>1, <3>3
  <2> HIDE DEF c
  <2> QED BY <1>1, <2>1, <2>2, PutClaim
<1> QED BY <1>2, <1>4, <1>5

\* A window of the window is one of the log.
LEMMA CutPlaces ==
  ASSUME BundleInv, CutWindow
  PROVE  /\ InWindow'
         /\ \A j \in DOMAIN bundle' : \E i \in DOMAIN bundle : bundle'[j] = bundle[i] /\ Origin(j)' = Origin(i)
<1>1. PICK a \in DOMAIN bundle : \E z \in a .. Len(bundle) :
        bundle' = SubSeq(bundle, a, z) /\ from' = from + a - 1
  BY DEF CutWindow
<1>0. PICK z \in a .. Len(bundle) : bundle' = SubSeq(bundle, a, z) /\ from' = from + a - 1
  BY <1>1
<1>2. recorded' = recorded
  BY DEF CutWindow, Held
<1>3. PICK S : bundle \in Seq(S)
  BY DEF BundleInv, InWindow
<1>4. /\ a \in 1 .. Len(bundle) /\ z \in a .. Len(bundle) /\ Len(bundle) \in Nat /\ from \in Nat \ {0}
      /\ from + Len(bundle) - 1 <= Len(recorded) /\ Len(recorded) \in Nat
  BY <1>3, LogIsSequence DEF BundleInv, InWindow
<1>5. /\ bundle' \in Seq(S) /\ Len(bundle') = z - a + 1 /\ DOMAIN bundle' = 1 .. z - a + 1
      /\ \A i \in 1 .. z - a + 1 : bundle'[i] = bundle[a + i - 1]
  <2>1. a \in Int /\ z \in Int /\ a <= z /\ \A i \in a .. z : bundle[i] \in S
    BY <1>3, <1>4
  <2>2. /\ SubSeq(bundle, a, z) \in Seq(S)
        /\ Len(SubSeq(bundle, a, z)) = IF a <= z THEN z - a + 1 ELSE 0
        /\ \A i \in 1 .. z - a + 1 : SubSeq(bundle, a, z)[i] = bundle[a + i - 1]
    <3>1. \A T, s : \A m \in Int, n \in Int : (\A i \in m .. n : s[i] \in T) =>
            /\ SubSeq(s, m, n) \in Seq(T)
            /\ Len(SubSeq(s, m, n)) = IF m <= n THEN n - m + 1 ELSE 0
            /\ \A i \in 1 .. n - m + 1 : SubSeq(s, m, n)[i] = s[m + i - 1]
      BY SubSeqProperties
    <3> QED BY <2>1, <3>1
  <2>3. DOMAIN bundle' = 1 .. Len(bundle')
    BY <2>2, <1>0
  <2>4. Len(bundle') = z - a + 1
    BY <2>1, <2>2, <1>0, Zenon
  <2> QED BY <2>2, <2>3, <2>4, <1>0, Zenon
<1>6. InWindow'
  <2> DEFINE n == Len(bundle)
             r == Len(recorded)
             k == z - a + 1
             f == from + a - 1
  <2>1. k \in Nat \ {0} /\ f \in Nat \ {0} /\ f + k - 1 <= r
    <3> a \in 1 .. n /\ z \in a .. n /\ n \in Nat /\ from \in Nat \ {0} /\ from + n - 1 <= r /\ r \in Nat
      BY <1>4
    <3> HIDE DEF n, r
    <3> QED OBVIOUS
  <2>2. Len(bundle') = k /\ from' = f
    BY <1>0, <1>5, Zenon
  <2>3. Len(bundle') \in Nat \ {0} /\ from' \in Nat \ {0} /\ from' + Len(bundle') - 1 <= Len(recorded)
    BY <2>1, <2>2, Zenon
  <2> QED BY <2>3, <1>2, <1>5 DEF BundleInv, InWindow
<1>7. ASSUME NEW i \in DOMAIN bundle'
      PROVE  \E k \in DOMAIN bundle : bundle'[i] = bundle[k] /\ Origin(i)' = Origin(k)
  <2>1. i \in 1 .. z - a + 1 /\ a + i - 1 \in DOMAIN bundle
    BY <1>3, <1>4, <1>5
  <2>2. from' + i - 1 = from + (a + i - 1) - 1
    <3>1. i \in Int /\ a \in Int /\ from \in Int
      BY <2>1, <1>4
    <3>2. (from + a - 1) + i - 1 = from + (a + i - 1) - 1
      BY <3>1
    <3> QED BY <3>2, <1>0, Zenon
  <2>3. Origin(i)' = Origin(a + i - 1)
    BY <1>2, <2>2 DEF Origin
  <2> QED BY <2>1, <2>3, <1>5
<1> QED BY <1>6, <1>7

LEMMA CutKeeps ==
  ASSUME BundleInv, CutWindow
  PROVE  BundleInv'
<1>1. ASSUME NEW j \in DOMAIN bundle' PROVE SameEntry(bundle'[j], Origin(j)')
  BY CutPlaces DEF BundleInv
<1>2. BundleInv' <=> InWindow' /\ \A j \in DOMAIN bundle' : SameEntry(bundle'[j], Origin(j)')
  BY DEF BundleInv, SameEntry
<1> QED BY <1>1, <1>2, CutPlaces

\* Each claim keeps what its link commits, whatever is done to the bundle.
LEMMA BundleKept == BundleInv /\ [Next]_vars => BundleInv'
<1> SUFFICES ASSUME BundleInv, [Next]_vars PROVE BundleInv'
  OBVIOUS
<1>1. CASE UNCHANGED <<recorded, bundle, from>>
  BY <1>1 DEF BundleInv, InWindow, SameEntry, Origin
<1>2. CASE Deliver \/ Check \/ Done \/ UNCHANGED vars
  BY <1>1, <1>2 DEF Deliver, Check, CheckClaim, LastClaim, CompareRun, RunDisagrees, CheckSpecs,
                    Classify, Done, vars, made
<1> QED BY <1>2, WithholdKeeps, RedactKeeps, AlterKeeps, CutKeeps DEF Next

LEMMA BundleInit == Init => BundleInv
<1> SUFFICES ASSUME Init PROVE BundleInv
  OBVIOUS
<1>1. recorded \in Logs /\ bundle = recorded /\ from = 1
  BY DEF Init
<1>2. /\ \E S : recorded \in Seq(S)
      /\ Len(recorded) \in Nat \ {0} /\ DOMAIN recorded = 1 .. Len(recorded)
      /\ \A i \in DOMAIN recorded : InFull(recorded[i])
  BY <1>1, LogIsSequence
<1>3. InWindow
  BY <1>1, <1>2 DEF InWindow
<1>4. ASSUME NEW i \in DOMAIN bundle PROVE SameEntry(bundle[i], Origin(i))
  <2>1. i \in Nat /\ from + i - 1 = i
    BY <1>1, <1>2
  <2>2. Origin(i) = bundle[i]
    BY <1>1, <2>1 DEF Origin
  <2> QED BY <1>1, <1>2, <2>2 DEF SameEntry, InFull
<1> QED BY <1>3, <1>4 DEF BundleInv

-----------------------------------------------------------------------------
(* What the rules confirm is what was recorded. *)

LEMMA EntryFields ==
  ASSUME BundleInv, NEW i \in DOMAIN bundle
  PROVE  /\ bundle[i].kind = Origin(i).kind /\ bundle[i].run = Origin(i).run
         /\ bundle[i].digest = Origin(i).digest
         /\ bundle[i].type \in {Origin(i).type, "other"}
         /\ InFull(Origin(i))
<1>1. SameEntry(bundle[i], Origin(i))
  BY DEF BundleInv
<1>2. InFull(Origin(i))
  BY WindowPlaces DEF BundleInv
<1> QED BY <1>1, <1>2 DEF SameEntry

LEMMA TuplesTell ==
  ASSUME NEW a, NEW b, NEW c, NEW d
  PROVE  /\ <<"sha256s", a, b>> # <<"sha256", c>> /\ <<"sha256e", a, b>> # <<"sha256", c>>
         /\ <<"sha256s", a, b>> # <<"sha256e", c, d>>
         /\ <<"sha256s", a, b>> = <<"sha256s", c, d>> => a = c /\ b = d
         /\ <<"sha256e", a, b>> = <<"sha256e", c, d>> => a = c /\ b = d
         /\ <<"sha256", a>> = <<"sha256", c>> => a = c
  OBVIOUS

\* A confirmed body is the one recorded, and its nonce with it; where the record
\* was made without one, none or an empty one is read.
LEMMA BodyIsRecorded ==
  ASSUME BundleInv, NEW i \in DOMAIN bundle, Confirmed(bundle, i)
  PROVE  /\ bundle[i].m.body = Origin(i).m.body
         /\ \/ bundle[i].m.nonce = Origin(i).m.nonce
            \/ bundle[i].m.nonce \in {Absent, Empty} /\ Origin(i).m.nonce = Absent
<1> DEFINE c == bundle[i]
           o == Origin(i)
<1>1. c.kind = o.kind /\ c.digest = o.digest /\ InFull(o)
  BY EntryFields
<1>2. c.kind \in Records
  BY DEF Confirmed, IsRecord
<1>3. CASE c.kind = "outcome"
  <2>1. c.digest # Empty /\ c.digest = <<"sha256e", c.m.nonce, c.m.body>>
    BY <1>3 DEF Confirmed, ExactHolds
  <2>2. Form(o.digest) = "sha256e"
    BY <1>1, <2>1 DEF Form
  <2>3. o.digest = <<"sha256e", o.m.nonce, o.m.body>>
    BY <1>1, <1>3, <2>2 DEF InFull
  <2>4. <<"sha256e", c.m.nonce, c.m.body>> = <<"sha256e", o.m.nonce, o.m.body>>
    BY <1>1, <2>1, <2>3
  <2>5. c.m.nonce = o.m.nonce /\ c.m.body = o.m.body
    BY <2>4
  <2> QED BY <2>5
<1>4. CASE c.kind # "outcome"
  <2>1. c.kind \in {"decision", "correction", "release"}
    BY <1>2, <1>4 DEF Records
  <2>2. c.digest # Empty /\ (KeyedHolds(c) \/ LegacyHolds(bundle, i))
    BY <1>4 DEF Confirmed, BodyHolds
  <2>3. \/ o.digest = <<"sha256s", o.m.nonce, o.m.body>>
        \/ o.digest = <<"sha256", o.m.body>> /\ o.m.nonce = Absent
    BY <1>1, <2>1, <2>2 DEF InFull
  <2>4. CASE KeyedHolds(c)
    <3>1. c.digest = <<"sha256s", c.m.nonce, c.m.body>>
      BY <2>4 DEF KeyedHolds
    <3>2. o.digest # <<"sha256", o.m.body>>
      BY <3>1, <1>1, TuplesTell
    <3>3. <<"sha256s", c.m.nonce, c.m.body>> = <<"sha256s", o.m.nonce, o.m.body>>
      BY <3>1, <3>2, <2>3, <1>1
    <3>4. c.m.nonce = o.m.nonce /\ c.m.body = o.m.body
      BY <3>3
    <3> QED BY <3>4
  <2>5. CASE LegacyHolds(bundle, i)
    <3>1. c.m.nonce \in {Absent, Empty} /\ c.digest = <<"sha256", c.m.body>>
      BY <2>5 DEF LegacyHolds
    <3>2. o.digest = <<"sha256", o.m.body>> /\ o.m.nonce = Absent
      <4>1. o.digest # <<"sha256s", o.m.nonce, o.m.body>>
        BY <3>1, <1>1, TuplesTell
      <4> QED BY <4>1, <2>3
    <3>3. c.m.body = o.m.body
      BY <3>1, <3>2, <1>1, TuplesTell
    <3> QED BY <3>1, <3>2, <3>3
  <2> QED BY <2>2, <2>4, <2>5
<1> QED BY <1>3, <1>4

\* A reason that opens its commitment is the one recorded.
LEMMA ReasonIsRecorded ==
  ASSUME BundleInv, NEW i \in DOMAIN bundle, Confirmed(bundle, i),
         bundle[i].kind \in {"decision", "correction"},
         NEW m, <<m, "checked">> \in ReasonStates(bundle[i])
  PROVE  m \in {"text", "random"} /\ bundle[i].m[m] = Origin(i).m[m]
<1> DEFINE c == bundle[i]
           o == Origin(i)
           shown == Reason \intersect Carried(c)
<1>1. Commits(c) /\ ~ReasonFails(c)
  BY DEF ReasonStates
<1>2. m \in shown /\ m # "redacted"
  <2>1. <<m, "checked">> \in {<<x, IF x = "redacted" THEN "redacted" ELSE "checked">> : x \in Reason \intersect Carried(c)}
    BY <1>1 DEF ReasonStates
  <2>2. PICK x \in Reason \intersect Carried(c) :
          <<m, "checked">> = <<x, IF x = "redacted" THEN "redacted" ELSE "checked">>
    BY <2>1
  <2>3. m = x /\ "checked" = IF x = "redacted" THEN "redacted" ELSE "checked"
    BY <2>2
  <2> QED BY <2>3
<1>3. c.kind # "release"
  OBVIOUS
<1>4. /\ c.m.body.commit # Bad
      /\ "redacted" \notin shown
      /\ ReasonOpens(c)
  <2>1. ~(c.m.body.commit = Bad)
    BY <1>1, <1>3 DEF ReasonFails
  <2>2. "redacted" \in shown => shown = {"redacted"}
    BY <1>1, <1>3 DEF ReasonFails
  <2>3. "redacted" \notin shown
    BY <1>2, <2>2
  <2>4. ReasonOpens(c)
    BY <1>1, <1>2, <1>3, <2>3 DEF ReasonFails
  <2> QED BY <2>1, <2>3, <2>4
<1>5. c.m.body = o.m.body
  BY BodyIsRecorded
<1>6. o.m.body.commit \notin {Absent, Empty, Bad}
  BY <1>1, <1>4, <1>5 DEF Commits
<1>7. o.m.body.commit = <<o.m.body.event, o.m.random, o.m.text>>
  BY <1>6, EntryFields DEF InFull
<1>8. <<c.m.body.event, c.m.random, c.m.text>> = <<c.m.body.event, o.m.random, o.m.text>>
  BY <1>4, <1>5, <1>7 DEF ReasonOpens
<1>9. c.m.random = o.m.random /\ c.m.text = o.m.text
  BY <1>8
<1>10. m \in {"text", "random"}
  BY <1>2 DEF Reason
<1> QED BY <1>9, <1>10

\* What the rules of a claim settle as checked.
LEMMA SettledIsRecorded ==
  ASSUME BundleInv, NEW i \in DOMAIN bundle, NEW m, <<m, "checked">> \in ClaimStates(bundle, i)
  PROVE  /\ m # "spec"
         /\ \/ bundle[i].m[m] = Origin(i).m[m]
            \/ m = "nonce" /\ bundle[i].m.nonce = Empty /\ Origin(i).m.nonce = Absent
<1> DEFINE c == bundle[i]
           read == {<<x, "checked">> : x \in Carried(c) \intersect {"body", "nonce"}}
           reason == IF c.kind \in {"decision", "correction"} THEN ReasonStates(c) ELSE {}
<1>1. <<m, "checked">> \notin Elsewhere(c)
  BY DEF Elsewhere
<1>2. Confirmed(bundle, i) /\ <<m, "checked">> \in read \union reason
  <2>1. <<m, "checked">> \notin {<<x, "unchecked">> : x \in Carried(c) \intersect {"body", "nonce"}}
    OBVIOUS
  <2>2. ClaimStates(bundle, i) = Elsewhere(c) \union
          (IF ~IsRecord(c) \/ Carries(c, "variant") THEN {}
           ELSE IF Confirmed(bundle, i) THEN read \union reason
           ELSE IF c.kind = "outcome" /\ OutcomeUnchecked(bundle, i)
             THEN {<<x, "unchecked">> : x \in Carried(c) \intersect {"body", "nonce"}}
           ELSE {})
    BY DEF ClaimStates
  <2> HIDE DEF read, reason
  <2> QED BY <1>1, <2>1, <2>2
<1>3. CASE <<m, "checked">> \in read
  <2>1. m \in Carried(c) /\ m \in {"body", "nonce"}
    BY <1>3
  <2>2. c.m[m] # Absent
    BY <2>1 DEF Carried, Carries
  <2> QED BY <1>2, <2>1, <2>2, BodyIsRecorded
<1>4. CASE <<m, "checked">> \in reason
  <2>1. c.kind \in {"decision", "correction"} /\ <<m, "checked">> \in ReasonStates(c)
    BY <1>4
  <2> QED BY <1>2, <2>1, ReasonIsRecorded
<1> QED BY <1>2, <1>3, <1>4

\* Where a claim is keyed, FirstKeyed is the first that is.
LEMMA FirstKeyedIs ==
  ASSUME NEW b, DOMAIN b \subseteq Nat \ {0}, NEW j \in DOMAIN b,
         b[j].type = "audit", Form(b[j].digest) \in KeyedForms
  PROVE  /\ FirstKeyed(b) \in DOMAIN b /\ FirstKeyed(b) <= j
         /\ b[FirstKeyed(b)].type = "audit" /\ Form(b[FirstKeyed(b)].digest) \in KeyedForms
<1> DEFINE K == {k \in DOMAIN b : b[k].type = "audit" /\ Form(b[k].digest) \in KeyedForms}
<1>1. K \subseteq Nat /\ j \in K
  OBVIOUS
<1>2. PICK n \in K : \A k \in K : n <= k
  <2>1. PICK n \in K : \A k \in K : <<k, n>> \notin OpToRel(<, Nat)
    <3> HIDE DEF K
    <3> QED BY <1>1, NatLessThanWellFounded, WFMin, Zenon
  <2>2. ASSUME NEW k \in K PROVE n <= k
    <3>1. ~(k < n) /\ k \in Nat /\ n \in Nat
      BY <1>1, <2>1 DEF OpToRel
    <3> QED BY <3>1
  <2> QED BY <2>2
<1>3. FirstKeyed(b) = Min(K)
  BY <1>1 DEF FirstKeyed
<1>4. Min(K) \in K /\ Min(K) <= j
  <2> HIDE DEF K
  <2>1. Min(K) = CHOOSE x \in K : \A y \in K : x <= y
    BY DEF Min
  <2> QED BY <1>1, <1>2, <2>1
<1> QED BY <1>3, <1>4

\* Where a guessable body is confirmed, no earlier claim of the bundle is keyed.
LEMMA LegacyIsFirst ==
  ASSUME BundleInv, NEW i \in DOMAIN bundle, Confirmed(bundle, i),
         Form(bundle[i].digest) = "sha256", NEW j \in 1 .. i - 1, bundle[j].type = "audit"
  PROVE  Form(Origin(j).digest) \notin KeyedForms
<1>1. DOMAIN bundle = 1 .. Len(bundle) /\ i \in Nat /\ j \in DOMAIN bundle /\ Len(bundle) \in Nat
  <2>1. DOMAIN bundle = 1 .. Len(bundle) /\ Len(bundle) \in Nat
    BY WindowPlaces DEF BundleInv, InWindow
  <2> QED BY <2>1
<1>2. ~TooOld(bundle, i)
  <2>1. bundle[i].digest # Empty /\ bundle[i].digest[1] = "sha256"
    BY DEF Form
  <2>2. bundle[i].kind # "outcome"
    <3>1. bundle[i].kind = "outcome" => bundle[i].digest = <<"sha256e", bundle[i].m.nonce, bundle[i].m.body>>
      BY DEF Confirmed, ExactHolds
    <3> QED BY <2>1, <3>1
  <2>3. KeyedHolds(bundle[i]) \/ LegacyHolds(bundle, i)
    BY <2>2 DEF Confirmed, BodyHolds
  <2>4. ~KeyedHolds(bundle[i])
    BY <2>1 DEF KeyedHolds
  <2> QED BY <2>3, <2>4 DEF LegacyHolds
<1>3. ASSUME Form(bundle[j].digest) \in KeyedForms PROVE FALSE
  <2>1. DOMAIN bundle \subseteq Nat \ {0}
    BY <1>1
  <2>2. FirstKeyed(bundle) \in DOMAIN bundle /\ FirstKeyed(bundle) <= j
    BY <1>1, <1>3, <2>1, FirstKeyedIs
  <2>3. FirstKeyed(bundle) > 0 /\ FirstKeyed(bundle) < i
    BY <1>1, <2>1, <2>2
  <2> QED BY <1>2, <2>3 DEF TooOld
<1>4. Form(bundle[j].digest) \notin KeyedForms
  BY <1>3
<1> QED BY <1>1, <1>4, EntryFields

-----------------------------------------------------------------------------
(* What the walk has settled and listed. *)

SettledTo(k) == UNION {Settled(i) : i \in 1 .. k}
Listed(s) == {s[n] : n \in DOMAIN s}
SpecStates ==
  IF specs = << >> \/ ~OneSpec THEN {}
  ELSE {<<specs[k], "spec", IF committed = << >> THEN "unchecked" ELSE "checked">> : k \in DOMAIN specs}
Base == SettledTo(Len(bundle)) \union SpecStates
Left(S) ==
  {s \in (DOMAIN bundle) \X Members \X {"unchecked"} :
     Carries(bundle[s[1]], s[2]) /\ ~\E t \in S : t[1] = s[1] /\ t[2] = s[2]}

ListsTo(k) ==
  /\ \E S : specs \in Seq(S)
  /\ Listed(specs) = {i \in 1 .. k : ShowsSpec(bundle, i)}
  /\ Listed(committed) = {Named(bundle, i) : i \in {j \in 1 .. k : Names(bundle, j)}}
  /\ Len(committed) <= k
NoneFails(k) == \A i \in 1 .. k : IsRecord(bundle[i]) => ~ClaimFails(bundle, i)
SpecAgrees == specs # << >> => OneSpec

StateInv ==
  /\ problem \in BOOLEAN
  /\ phase = "open" => pos = 1 /\ ~problem /\ states = {} /\ specs = << >> /\ committed = << >>
  /\ phase = "claims" =>
       /\ pos <= Len(bundle) + 1 /\ states = SettledTo(pos - 1)
       /\ ListsTo(pos - 1) /\ (~problem => NoneFails(pos - 1))
  /\ phase \in {"runs", "classify", "done"} =>
       ListsTo(Len(bundle)) /\ (~problem => NoneFails(Len(bundle)))
  /\ phase = "runs" => states = SettledTo(Len(bundle))
  /\ phase = "classify" => ~problem /\ SpecAgrees /\ states = Base
  /\ phase = "done" /\ ~problem => SpecAgrees /\ states = Base \union Left(Base)
  /\ phase = "done" /\ problem => states \subseteq Base

LEMMA AppendLists ==
  ASSUME NEW S, NEW s \in Seq(S), NEW x
  PROVE  /\ Append(s, x) \in Seq(S \union {x})
         /\ Listed(Append(s, x)) = Listed(s) \union {x}
         /\ Len(Append(s, x)) = Len(s) + 1 /\ Len(s) \in Nat
<1>1. s \in Seq(S \union {x}) /\ x \in S \union {x} /\ Len(s) \in Nat
  OBVIOUS
<1>2. Append(s, x) \in Seq(S \union {x}) /\ Len(Append(s, x)) = Len(s) + 1
  BY <1>1
<1>3. \A n \in DOMAIN s : Append(s, x)[n] = s[n] /\ n \in DOMAIN Append(s, x)
  BY <1>1
<1>4. Append(s, x)[Len(s) + 1] = x /\ Len(s) + 1 \in DOMAIN Append(s, x)
  BY <1>1
<1>5. \A n \in DOMAIN Append(s, x) : n \in DOMAIN s \/ n = Len(s) + 1
  BY <1>1
<1>6. Listed(Append(s, x)) = Listed(s) \union {x}
  <2> DEFINE t == Append(s, x)
  <2>1. \A y \in Listed(t) : y \in Listed(s) \union {x}
    BY <1>3, <1>4, <1>5, Zenon DEF Listed
  <2>2. \A y \in Listed(s) \union {x} : y \in Listed(t)
    BY <1>3, <1>4, Zenon DEF Listed
  <2> QED BY <2>1, <2>2
<1> QED BY <1>1, <1>2, <1>6

\* A turn of the loop over the claims settles and lists one claim more.
LEMMA ClaimTurn ==
  ASSUME BundleInv, RunInv, StateInv, CheckClaim
  PROVE  StateInv'
<1>1. /\ phase = "claims" /\ phase' = "claims" /\ pos <= Len(bundle) /\ pos' = pos + 1
      /\ bundle' = bundle
      /\ problem' = (problem \/ (IsRecord(bundle[pos]) /\ ClaimFails(bundle, pos)))
      /\ states' = states \union Settled(pos)
      /\ specs' = IF ShowsSpec(bundle, pos) THEN Append(specs, pos) ELSE specs
      /\ committed' = IF Names(bundle, pos) THEN Append(committed, Named(bundle, pos)) ELSE committed
  BY DEF CheckClaim, made
<1>2. pos \in Nat \ {0} /\ Len(bundle) \in Nat
  BY DEF RunInv, ListInv, BundleInv, InWindow
<1>3. 1 .. pos = (1 .. pos - 1) \union {pos} /\ pos' - 1 = pos
  BY <1>1, <1>2
<1>4. states = SettledTo(pos - 1) /\ ListsTo(pos - 1) /\ (~problem => NoneFails(pos - 1)) /\ problem \in BOOLEAN
  BY <1>1 DEF StateInv
<1>5. states' = SettledTo(pos)
  BY <1>1, <1>3, <1>4 DEF SettledTo
<1>6. /\ \E S : specs' \in Seq(S)
      /\ Listed(specs') = {i \in 1 .. pos : ShowsSpec(bundle, i)}
  <2>1. PICK S : specs \in Seq(S)
    BY <1>4 DEF ListsTo
  <2>2. Listed(specs) = {i \in 1 .. pos - 1 : ShowsSpec(bundle, i)}
    BY <1>4 DEF ListsTo
  <2>3. CASE ShowsSpec(bundle, pos)
    <3>1. specs' = Append(specs, pos)
      BY <1>1, <2>3
    <3>2. Listed(specs') = Listed(specs) \union {pos} /\ specs' \in Seq(S \union {pos})
      BY <2>1, <3>1, AppendLists
    <3>3. {i \in 1 .. pos : ShowsSpec(bundle, i)} = {i \in 1 .. pos - 1 : ShowsSpec(bundle, i)} \union {pos}
      BY <1>3, <2>3
    <3> QED BY <2>2, <3>2, <3>3
  <2>4. CASE ~ShowsSpec(bundle, pos)
    <3>1. specs' = specs
      BY <1>1, <2>4
    <3>2. {i \in 1 .. pos : ShowsSpec(bundle, i)} = {i \in 1 .. pos - 1 : ShowsSpec(bundle, i)}
      BY <1>3, <2>4
    <3> QED BY <2>1, <2>2, <3>1, <3>2
  <2> QED BY <2>3, <2>4
<1>7. /\ Listed(committed') = {Named(bundle, i) : i \in {j \in 1 .. pos : Names(bundle, j)}}
      /\ Len(committed') <= pos
  <2>1. PICK S : committed \in Seq(S)
    BY DEF RunInv, ListInv
  <2> DEFINE N(k) == {Named(bundle, i) : i \in {j \in 1 .. k : Names(bundle, j)}}
             n == Named(bundle, pos)
  <2>2. Listed(committed) = N(pos - 1) /\ Len(committed) <= pos - 1 /\ Len(committed) \in Nat
    BY <1>4, <2>1 DEF ListsTo
  <2>3. CASE Names(bundle, pos)
    <3>1. committed' = Append(committed, n)
      BY <1>1, <2>3
    <3>2. N(pos) = N(pos - 1) \union {n}
      BY <1>3, <2>3
    <3> HIDE DEF N, n
    <3>3. Listed(committed') = Listed(committed) \union {n} /\ Len(committed') = Len(committed) + 1
      BY <2>1, <3>1, AppendLists
    <3>4. Len(committed') <= pos
      BY <3>3, <2>2, <1>2
    <3>5. Listed(committed') = N(pos)
      BY <2>2, <3>2, <3>3
    <3> QED BY <3>4, <3>5 DEF N
  <2>4. CASE ~Names(bundle, pos)
    <3>1. committed' = committed
      BY <1>1, <2>4
    <3>2. {j \in 1 .. pos : Names(bundle, j)} = {j \in 1 .. pos - 1 : Names(bundle, j)}
      BY <1>3, <2>4
    <3>3. Len(committed) <= pos
      BY <2>2, <1>2
    <3> QED BY <2>2, <3>1, <3>2, <3>3
  <2> QED BY <2>3, <2>4
<1>8. ~problem' => NoneFails(pos)
  BY <1>1, <1>3, <1>4 DEF NoneFails
<1>9. (pos - 1)' = pos
  BY <1>3
<1>10. ListsTo(pos - 1)'
  BY <1>1, <1>6, <1>7, <1>9 DEF ListsTo
<1>11. states' = SettledTo(pos - 1)' /\ (~problem' => NoneFails(pos - 1)')
  <2>1. SettledTo(pos - 1)' = SettledTo(pos)
    BY <1>1, <1>9 DEF SettledTo, Settled
  <2>2. NoneFails(pos - 1)' <=> NoneFails(pos)
    BY <1>1, <1>9 DEF NoneFails
  <2> QED BY <2>1, <2>2, <1>5, <1>8
<1>12. pos' <= Len(bundle') + 1 /\ problem' \in BOOLEAN
  BY <1>1, <1>2, <1>4
<1> QED BY <1>1, <1>10, <1>11, <1>12 DEF StateInv

\* Before the walk nothing is settled.
LEMMA OpenTurn ==
  ASSUME StateInv, Withhold \/ Redact \/ CutWindow \/ Alter
  PROVE  StateInv'
<1>1. phase = "open" /\ UNCHANGED <<phase, pos, problem, states, specs, committed>>
  BY DEF Withhold, Redact, CutWindow, Alter, Held, found
<1> QED BY <1>1 DEF StateInv

\* The bundle and the lists as they are, what was settled of them stays.
LEMMA SameBase ==
  ASSUME UNCHANGED <<bundle, specs, committed>>
  PROVE  /\ Base' = Base /\ SettledTo(Len(bundle))' = SettledTo(Len(bundle))
         /\ (ListsTo(Len(bundle))' <=> ListsTo(Len(bundle)))
         /\ (NoneFails(Len(bundle))' <=> NoneFails(Len(bundle)))
         /\ (SpecAgrees' <=> SpecAgrees) /\ Left(Base)' = Left(Base)
<1>1. SettledTo(Len(bundle))' = SettledTo(Len(bundle))
  BY DEF SettledTo, Settled
<1>2. OneSpec' <=> OneSpec
  BY DEF OneSpec, SpecOf
<1>3. SpecStates' = SpecStates
  BY <1>2 DEF SpecStates
<1>4. Base' = Base
  BY <1>1, <1>3 DEF Base
<1>5. Left(Base)' = Left(Base)
  BY <1>4 DEF Left
<1>6. (ListsTo(Len(bundle))' <=> ListsTo(Len(bundle))) /\ (NoneFails(Len(bundle))' <=> NoneFails(Len(bundle)))
  BY DEF ListsTo, NoneFails
<1> QED BY <1>1, <1>2, <1>4, <1>5, <1>6 DEF SpecAgrees

LEMMA OtherTurns ==
  ASSUME BundleInv, RunInv, StateInv,
         Deliver \/ LastClaim \/ CompareRun \/ RunDisagrees \/ CheckSpecs \/ Classify \/ Done \/ UNCHANGED vars
  PROVE  StateInv'
<1>1. bundle' = bundle /\ specs' = specs /\ committed' = committed
  BY DEF Deliver, LastClaim, CompareRun, RunDisagrees, CheckSpecs, Classify, Done, vars, made, found
<1>2. /\ Base' = Base /\ SettledTo(Len(bundle))' = SettledTo(Len(bundle))
      /\ (ListsTo(Len(bundle))' <=> ListsTo(Len(bundle)))
      /\ (NoneFails(Len(bundle))' <=> NoneFails(Len(bundle)))
      /\ (SpecAgrees' <=> SpecAgrees) /\ Left(Base)' = Left(Base)
  BY <1>1, SameBase
<1>3. pos \in Nat \ {0} /\ Len(bundle) \in Nat \ {0}
  BY DEF RunInv, ListInv, BundleInv, InWindow
<1>4. CASE Deliver
  <2>1. /\ phase = "open" /\ phase' = "claims"
        /\ pos' = pos /\ problem' = problem /\ states' = states
    BY <1>4 DEF Deliver, found
  <2>2. pos = 1 /\ ~problem /\ states = {} /\ specs = << >> /\ committed = << >> /\ problem \in BOOLEAN
    BY <2>1 DEF StateInv
  <2>3. 1 .. (pos - 1)' = {} /\ 1 .. pos' - 1 = {} /\ pos' <= Len(bundle') + 1 /\ (pos - 1)' = 0
    BY <1>1, <1>3, <2>1, <2>2
  <2>4. SettledTo(pos - 1)' = {} /\ NoneFails(pos - 1)'
    BY <2>3 DEF SettledTo, NoneFails
  <2>5. ListsTo(pos - 1)'
    <3>1. specs' = << >> /\ committed' = << >> /\ specs' \in Seq({1})
      BY <1>1, <2>2
    <3>2. Listed(specs)' = {} /\ Listed(committed)' = {} /\ Len(committed') = 0
      BY <3>1 DEF Listed
    <3>3. {i \in 1 .. (pos - 1)' : ShowsSpec(bundle', i)} = {} /\ {j \in 1 .. (pos - 1)' : Names(bundle', j)} = {}
      BY <2>3
    <3> QED BY <3>1, <3>2, <3>3, <2>3 DEF ListsTo
  <2> QED BY <2>1, <2>2, <2>3, <2>4, <2>5 DEF StateInv
<1>5. CASE LastClaim
  <2>1. /\ phase = "claims" /\ pos > Len(bundle) /\ phase' = "runs"
        /\ problem' = problem /\ states' = states
    BY <1>5 DEF LastClaim, found
  <2>2. /\ pos <= Len(bundle) + 1 /\ states = SettledTo(pos - 1) /\ ListsTo(pos - 1)
        /\ (~problem => NoneFails(pos - 1)) /\ problem \in BOOLEAN
    BY <2>1 DEF StateInv
  <2>3. pos - 1 = Len(bundle)
    BY <2>1, <2>2, <1>3
  <2> QED BY <2>1, <2>2, <2>3, <1>2 DEF StateInv
<1>6. CASE CompareRun
  <2>1. phase = "runs" /\ phase' = phase /\ problem' = problem /\ states' = states
    BY <1>6 DEF CompareRun
  <2> QED BY <2>1, <1>2 DEF StateInv
<1>7. CASE RunDisagrees
  <2>1. phase = "runs" /\ phase' = "done" /\ problem' = TRUE /\ states' = states
    BY <1>7 DEF RunDisagrees
  <2>2. states \subseteq Base
    BY <2>1 DEF StateInv, Base
  <2> QED BY <2>1, <2>2, <1>2 DEF StateInv
<1>8. CASE CheckSpecs
  <2>1. /\ phase = "runs" /\ problem' = (problem \/ (specs # << >> /\ ~OneSpec))
        /\ states' = states \union SpecStates
        /\ phase' = IF problem' THEN "done" ELSE "classify"
    <3>1. states' = states \union SpecStates
      <4>1. CASE specs = << >> \/ ~OneSpec
        BY <1>8, <4>1 DEF CheckSpecs, SpecStates
      <4>2. CASE ~(specs = << >> \/ ~OneSpec)
        BY <1>8, <4>2 DEF CheckSpecs, SpecStates
      <4> QED BY <4>1, <4>2
    <3> QED BY <1>8, <3>1 DEF CheckSpecs
  <2>2. states = SettledTo(Len(bundle)) /\ problem \in BOOLEAN
        /\ ListsTo(Len(bundle)) /\ (~problem => NoneFails(Len(bundle)))
    BY <2>1 DEF StateInv
  <2>3. states' = Base
    BY <2>1, <2>2 DEF Base
  <2>4. problem' \in BOOLEAN /\ (~problem' => ~problem /\ SpecAgrees)
    BY <2>1, <2>2 DEF SpecAgrees
  <2>5. CASE problem'
    BY <2>1, <2>2, <2>3, <2>4, <2>5, <1>2 DEF StateInv
  <2>6. CASE ~problem'
    BY <2>1, <2>2, <2>3, <2>4, <2>6, <1>2 DEF StateInv
  <2> QED BY <2>5, <2>6
<1>9. CASE Classify
  <2>1. phase = "classify" /\ phase' = "done" /\ problem' = problem /\ states' = states \union Left(states)
    BY <1>9 DEF Classify, Left
  <2>2. states = Base /\ ~problem /\ SpecAgrees /\ problem \in BOOLEAN
        /\ ListsTo(Len(bundle)) /\ NoneFails(Len(bundle))
    BY <2>1 DEF StateInv
  <2> QED BY <2>1, <2>2, <1>2 DEF StateInv
<1>10. CASE Done \/ UNCHANGED vars
  <2>1. UNCHANGED vars
    BY <1>10 DEF Done
  <2>2. pos' = pos /\ phase' = phase /\ problem' = problem /\ states' = states
    BY <2>1 DEF vars
  <2>3. /\ SettledTo(pos - 1)' = SettledTo(pos - 1) /\ (ListsTo(pos - 1)' <=> ListsTo(pos - 1))
        /\ (NoneFails(pos - 1)' <=> NoneFails(pos - 1))
    BY <1>1, <2>2 DEF SettledTo, Settled, ListsTo, NoneFails
  <2> QED BY <1>1, <1>2, <2>2, <2>3 DEF StateInv
<1> QED BY <1>4, <1>5, <1>6, <1>7, <1>8, <1>9, <1>10

RecordsInv == BundleInv /\ RunInv /\ StateInv

\* What the properties below rest on.
LEMMA RecordsAlways == Spec => []RecordsInv
<1>1. Init => RecordsInv
  <2>1. Init => StateInv
    BY DEF Init, StateInv
  <2> QED BY <2>1, BundleInit, RunInit DEF RecordsInv
<1>2. RecordsInv /\ [Next]_vars => RecordsInv'
  <2> SUFFICES ASSUME RecordsInv, [Next]_vars PROVE RecordsInv'
    OBVIOUS
  <2>1. BundleInv' /\ RunInv'
    BY BundleKept, RunNext DEF RecordsInv
  <2>2. StateInv'
    <3>1. CASE Withhold \/ Redact \/ CutWindow \/ Alter
      BY <3>1, OpenTurn DEF RecordsInv
    <3>2. CASE CheckClaim
      BY <3>2, ClaimTurn DEF RecordsInv
    <3>3. CASE Deliver \/ LastClaim \/ CompareRun \/ RunDisagrees \/ CheckSpecs \/ Classify \/ Done \/ UNCHANGED vars
      BY <3>3, OtherTurns DEF RecordsInv
    <3> QED BY <3>1, <3>2, <3>3 DEF Next, Check
  <2> QED BY <2>1, <2>2 DEF RecordsInv
<1> QED BY <1>1, <1>2, PTL DEF Spec

-----------------------------------------------------------------------------
(* The states of one claim. *)

LEMMA ReadOnIs ==
  ASSUME NEW k
  PROVE  /\ k \in {"decision", "correction"} => ReadOn(k) = {"body", "nonce"} \union Reason
         /\ k = "release" => ReadOn(k) = {"body", "nonce"}
         /\ k = "outcome" => ReadOn(k) = {"body", "nonce", "spec"}
         /\ k \notin Records => ReadOn(k) = {}
<1> DEFINE a == (k \in {"decision", "correction"})
           b == (k = "release")
           c == (k = "outcome")
<1>1. ReadOn(k) = CASE a -> {"body", "nonce"} \union Reason
                    [] b -> {"body", "nonce"}
                    [] c -> {"body", "nonce", "spec"}
                    [] OTHER -> {}
  BY DEF ReadOn
<1>2. (a => ~b /\ ~c) /\ (b => ~a /\ ~c) /\ (c => ~a /\ ~b)
  BY DEF a, b, c
<1>3. k \notin Records => ~a /\ ~b /\ ~c
  BY DEF Records
<1> HIDE DEF a, b, c
<1>4. a => ReadOn(k) = {"body", "nonce"} \union Reason
  BY <1>1, <1>2, Zenon
<1>5. b => ReadOn(k) = {"body", "nonce"}
  BY <1>1, <1>2, Zenon
<1>6. c => ReadOn(k) = {"body", "nonce", "spec"}
  BY <1>1, <1>2, Zenon
<1>7. ~a /\ ~b /\ ~c => ReadOn(k) = {}
  BY <1>1, Zenon
<1> QED BY <1>3, <1>4, <1>5, <1>6, <1>7 DEF a, b, c

\* What is settled of a claim's own record, beside what is not its record's.
OwnStates(b, i) ==
  LET c == b[i] IN
  IF ~IsRecord(c) \/ Carries(c, "variant") THEN {}
  ELSE IF Confirmed(b, i)
    THEN {<<m, "checked">> : m \in Carried(c) \intersect {"body", "nonce"}}
         \union (IF c.kind \in {"decision", "correction"} THEN ReasonStates(c) ELSE {})
  ELSE IF c.kind = "outcome" /\ OutcomeUnchecked(b, i)
    THEN {<<m, "unchecked">> : m \in Carried(c) \intersect {"body", "nonce"}}
  ELSE {}

LEMMA ElsewhereShape ==
  ASSUME NEW c, NEW s \in Elsewhere(c)
  PROVE  /\ s = <<s[1], "unchecked">> /\ s[1] \in Carried(c) /\ s[1] \notin ReadOn(c.kind)
         /\ c.type = "audit"
<1>1. c.type = "audit" /\ s \in {<<m, "unchecked">> : m \in (Carried(c) \ {"variant"}) \ ReadOn(c.kind)}
  BY DEF Elsewhere
<1>2. PICK m \in (Carried(c) \ {"variant"}) \ ReadOn(c.kind) : s = <<m, "unchecked">>
  BY <1>1
<1> QED BY <1>1, <1>2

LEMMA ReasonShape ==
  ASSUME NEW c, NEW s \in ReasonStates(c)
  PROVE  /\ s[1] \in Reason /\ s[1] \in Carried(c)
         /\ s = <<s[1], IF s[1] = "redacted" THEN "redacted" ELSE "checked">>
<1>1. s \in {<<m, IF m = "redacted" THEN "redacted" ELSE "checked">> : m \in Reason \intersect Carried(c)}
  BY DEF ReasonStates
<1>2. PICK m \in Reason \intersect Carried(c) : s = <<m, IF m = "redacted" THEN "redacted" ELSE "checked">>
  BY <1>1
<1> QED BY <1>2

\* A state of a claim's own record is of a member its kind reads, and the member
\* and whether the body is confirmed decide which.
LEMMA OwnShape ==
  ASSUME NEW b, NEW i, NEW s \in OwnStates(b, i)
  PROVE  /\ IsRecord(b[i]) /\ s[1] \in Carried(b[i]) /\ s[1] \in ReadOn(b[i].kind)
         /\ s[1] \in {"body", "nonce"} \union Reason
         /\ s = <<s[1], IF ~Confirmed(b, i) THEN "unchecked"
                        ELSE IF s[1] = "redacted" THEN "redacted" ELSE "checked">>
<1> DEFINE c == b[i]
           own(v) == {<<m, v>> : m \in Carried(c) \intersect {"body", "nonce"}}
<1>1. IsRecord(c)
  BY DEF OwnStates
<1>2. \/ Confirmed(b, i) /\ s \in own("checked")
      \/ Confirmed(b, i) /\ c.kind \in {"decision", "correction"} /\ s \in ReasonStates(c)
      \/ ~Confirmed(b, i) /\ s \in own("unchecked")
  BY DEF OwnStates
<1>3. ASSUME NEW v, s \in own(v) PROVE s = <<s[1], v>> /\ s[1] \in {"body", "nonce"} /\ s[1] \in Carried(c)
  BY <1>3
<1>4. "body" \in ReadOn(c.kind) /\ "nonce" \in ReadOn(c.kind)
  <2>1. c.kind \in {"decision", "correction", "release", "outcome"}
    BY <1>1 DEF IsRecord, Records
  <2> QED BY <2>1, ReadOnIs
<1>5. CASE Confirmed(b, i) /\ s \in own("checked")
  <2>1. s = <<s[1], "checked">> /\ s[1] \in {"body", "nonce"} /\ s[1] \in Carried(c)
    BY <1>3, <1>5
  <2>2. s[1] # "redacted"
    BY <2>1
  <2> QED BY <1>1, <1>4, <1>5, <2>1, <2>2
<1>6. CASE Confirmed(b, i) /\ c.kind \in {"decision", "correction"} /\ s \in ReasonStates(c)
  <2>1. s[1] \in Reason /\ s[1] \in Carried(c) /\ s = <<s[1], IF s[1] = "redacted" THEN "redacted" ELSE "checked">>
    BY <1>6, ReasonShape
  <2>2. ReadOn(c.kind) = {"body", "nonce"} \union Reason
    BY <1>6, ReadOnIs
  <2> QED BY <1>1, <1>6, <2>1, <2>2
<1>7. CASE ~Confirmed(b, i) /\ s \in own("unchecked")
  BY <1>1, <1>3, <1>4, <1>7
<1> QED BY <1>2, <1>5, <1>6, <1>7

LEMMA StatesAre ==
  ASSUME NEW b, NEW i
  PROVE  ClaimStates(b, i) = Elsewhere(b[i]) \union OwnStates(b, i)
  BY DEF ClaimStates, OwnStates

\* A member of a claim is in one state at most.
LEMMA OneState ==
  ASSUME NEW b, NEW i, NEW s \in ClaimStates(b, i), NEW t \in ClaimStates(b, i), s[1] = t[1]
  PROVE  s = t
<1>1. s \in Elsewhere(b[i]) \/ s \in OwnStates(b, i)
  BY StatesAre
<1>2. t \in Elsewhere(b[i]) \/ t \in OwnStates(b, i)
  BY StatesAre
<1>3. CASE s \in Elsewhere(b[i])
  <2>1. s = <<s[1], "unchecked">> /\ s[1] \notin ReadOn(b[i].kind)
    BY <1>3, ElsewhereShape
  <2>2. t \in Elsewhere(b[i])
    BY <1>2, <2>1, OwnShape
  <2> QED BY <2>1, <2>2, ElsewhereShape
<1>4. CASE s \in OwnStates(b, i)
  <2> DEFINE v(m) == IF ~Confirmed(b, i) THEN "unchecked" ELSE IF m = "redacted" THEN "redacted" ELSE "checked"
  <2>1. s = <<s[1], v(s[1])>> /\ s[1] \in ReadOn(b[i].kind)
    BY <1>4, OwnShape
  <2>2. t \in OwnStates(b, i)
    BY <1>2, <2>1, ElsewhereShape
  <2>3. t = <<t[1], v(t[1])>>
    BY <2>2, OwnShape
  <2> HIDE DEF v
  <2> QED BY <2>1, <2>3
<1> QED BY <1>1, <1>3, <1>4

\* The shape of what is settled of a claim.
LEMMA ClaimShape ==
  ASSUME NEW b, NEW i, NEW s \in ClaimStates(b, i)
  PROVE  /\ s = <<s[1], s[2]>> /\ s[1] \in Members /\ s[2] \in {"checked", "unchecked", "redacted"}
         /\ Carries(b[i], s[1])
         /\ s[1] = "spec" => ~(IsRecord(b[i]) /\ b[i].kind = "outcome")
<1>1. CASE s \in Elsewhere(b[i])
  <2>1. s = <<s[1], "unchecked">> /\ s[1] \in Carried(b[i]) /\ s[1] \notin ReadOn(b[i].kind)
    BY <1>1, ElsewhereShape
  <2>2. b[i].kind = "outcome" => s[1] # "spec"
    BY <2>1, ReadOnIs
  <2> QED BY <2>1, <2>2 DEF Carried
<1>2. CASE s \in OwnStates(b, i)
  <2>1. s[1] \in Carried(b[i]) /\ s[1] # "spec"
    BY <1>2, OwnShape DEF Reason
  <2>2. s = <<s[1], IF ~Confirmed(b, i) THEN "unchecked" ELSE IF s[1] = "redacted" THEN "redacted" ELSE "checked">>
    BY <1>2, OwnShape
  <2> QED BY <2>1, <2>2 DEF Carried
<1> QED BY <1>1, <1>2, StatesAre

-----------------------------------------------------------------------------
(* What is reported at the end. *)

LEMMA SettledShape ==
  ASSUME NEW k \in Nat, NEW t \in SettledTo(k)
  PROVE  /\ t[1] \in 1 .. k /\ t = <<t[1], t[2], t[3]>>
         /\ <<t[2], t[3]>> \in ClaimStates(bundle, t[1])
<1>1. PICK i \in 1 .. k : t \in Settled(i)
  BY DEF SettledTo
<1>2. PICK s \in ClaimStates(bundle, i) : t = <<i, s[1], s[2]>>
  BY <1>1 DEF Settled
<1>3. s = <<s[1], s[2]>>
  BY ClaimShape
<1> QED BY <1>2, <1>3

LEMMA SettledHas ==
  ASSUME NEW k, NEW i \in 1 .. k, NEW m, NEW v, <<m, v>> \in ClaimStates(bundle, i)
  PROVE  <<i, m, v>> \in SettledTo(k)
<1>1. <<i, m, v>> \in Settled(i)
  <2>1. <<i, <<m, v>>[1], <<m, v>>[2]>> \in Settled(i)
    BY DEF Settled
  <2> QED BY <2>1
<1> QED BY <1>1 DEF SettledTo

LEMMA SpecShape ==
  ASSUME NEW t \in SpecStates
  PROVE  /\ specs # << >> /\ OneSpec
         /\ t[1] \in Listed(specs) /\ SpecOf(t[1]) = SpecOf(specs[1])
         /\ t = <<t[1], "spec", IF committed = << >> THEN "unchecked" ELSE "checked">>
<1>1. /\ specs # << >> /\ OneSpec
      /\ t \in {<<specs[k], "spec", IF committed = << >> THEN "unchecked" ELSE "checked">> : k \in DOMAIN specs}
  BY DEF SpecStates
<1>2. PICK k \in DOMAIN specs : t = <<specs[k], "spec", IF committed = << >> THEN "unchecked" ELSE "checked">>
  BY <1>1
<1>3. SpecOf(specs[k]) = SpecOf(specs[1])
  BY <1>1 DEF OneSpec
<1> QED BY <1>1, <1>2, <1>3 DEF Listed

LEMMA LeftShape ==
  ASSUME NEW S, NEW t \in Left(S)
  PROVE  /\ t = <<t[1], t[2], "unchecked">> /\ t[1] \in DOMAIN bundle /\ t[2] \in Members
         /\ Carries(bundle[t[1]], t[2])
         /\ ~\E u \in S : u[1] = t[1] /\ u[2] = t[2]
  BY DEF Left

LEMMA PassesMeans ==
  ASSUME RecordsInv, Passes
  PROVE  /\ states = Base \union Left(Base) /\ NoneFails(Len(bundle)) /\ SpecAgrees
         /\ ListsTo(Len(bundle)) /\ Len(bundle) \in Nat /\ DOMAIN bundle = 1 .. Len(bundle)
<1>1. DOMAIN bundle = 1 .. Len(bundle) /\ Len(bundle) \in Nat
  BY WindowPlaces DEF RecordsInv, BundleInv, InWindow
<1> QED BY <1>1 DEF RecordsInv, StateInv, Passes

\* The invariant at the end of the walk, and what is checked is what was recorded.
LEMMA InvChecks == RecordsInv => CheckedIsRecorded
<1> SUFFICES ASSUME RecordsInv, Passes, NEW s \in states, s[3] = "checked"
             PROVE  IF s[2] = "spec"
                    THEN /\ \E i \in DOMAIN bundle : Names(bundle, i)
                         /\ \A i \in DOMAIN bundle :
                              Names(bundle, i) => Origin(i).m.body.spec = bundle[s[1]].m.spec
                    ELSE \/ bundle[s[1]].m[s[2]] = Origin(s[1]).m[s[2]]
                         \/ s[2] = "nonce" /\ bundle[s[1]].m.nonce = Empty /\ Origin(s[1]).m.nonce = Absent
  BY DEF CheckedIsRecorded
<1>1. /\ states = Base \union Left(Base) /\ ListsTo(Len(bundle)) /\ Len(bundle) \in Nat
      /\ DOMAIN bundle = 1 .. Len(bundle)
  BY PassesMeans
<1>2. BundleInv /\ \E S : committed \in Seq(S)
  BY DEF RecordsInv, RunInv, ListInv
<1>3. s \in SettledTo(Len(bundle)) \/ s \in SpecStates
  <2>1. s \notin Left(Base)
    <3>1. s \in Left(Base) => s = <<s[1], s[2], "unchecked">>
      BY LeftShape
    <3> QED BY <3>1
  <2> QED BY <1>1, <2>1 DEF Base
<1>4. CASE s \in SettledTo(Len(bundle))
  <2>1. s[1] \in DOMAIN bundle /\ <<s[2], "checked">> \in ClaimStates(bundle, s[1])
    BY <1>1, <1>4, SettledShape
  <2> QED BY <1>2, <2>1, SettledIsRecorded
<1>5. CASE s \in SpecStates
  <2>1. /\ specs # << >> /\ OneSpec /\ s[2] = "spec" /\ committed # << >>
        /\ SpecOf(s[1]) = SpecOf(specs[1])
    BY <1>5, SpecShape
  <2>2. Listed(committed) = {Named(bundle, i) : i \in {j \in 1 .. Len(bundle) : Names(bundle, j)}}
    BY <1>1 DEF ListsTo
  <2>3. \E i \in DOMAIN bundle : Names(bundle, i)
    <3>1. 1 \in DOMAIN committed
      BY <1>2, <2>1
    <3>2. committed[1] \in Listed(committed)
      BY <3>1 DEF Listed
    <3> QED BY <1>1, <2>2, <3>2
  <2>4. ASSUME NEW i \in DOMAIN bundle, Names(bundle, i)
        PROVE  Origin(i).m.body.spec = bundle[s[1]].m.spec
    <3>1. Named(bundle, i) \in Listed(committed)
      BY <1>1, <2>2, <2>4
    <3>2. PICK k \in DOMAIN committed : committed[k] = Named(bundle, i)
      BY <3>1 DEF Listed
    <3>3. committed[k].digest = SpecOf(specs[1])
      BY <2>1 DEF OneSpec
    <3>4. committed[k].digest = bundle[i].m.body.spec
      BY <3>2 DEF Named
    <3>5. bundle[i].m.body = Origin(i).m.body
      BY <1>2, <2>4, BodyIsRecorded DEF Names
    <3> QED BY <2>1, <3>3, <3>4, <3>5 DEF SpecOf
  <2> QED BY <2>1, <2>3, <2>4
<1> QED BY <1>3, <1>4, <1>5

\* Whatever is altered and signed again, what a passing bundle reports as checked
\* is what the producer recorded (records.go, checkRecords and recordDigestProblem).
THEOREM CheckedWasRecorded == Spec => []CheckedIsRecorded
  BY RecordsAlways, InvChecks, PTL

LEMMA InvGuessable == RecordsInv => GuessableOnlyBefore
<1> SUFFICES ASSUME RecordsInv, NEW i \in DOMAIN bundle, Confirmed(bundle, i),
                    Form(bundle[i].digest) = "sha256", NEW j \in 1 .. i - 1, bundle[j].type = "audit"
             PROVE  Form(Origin(j).digest) \notin KeyedForms
  BY DEF GuessableOnlyBefore
<1> QED BY LegacyIsFirst DEF RecordsInv

\* No guessable body is confirmed after a keyed claim of the bundle, whatever lies
\* between (records.go, firstKeyed).
THEOREM GuessableNeverAfter == Spec => []GuessableOnlyBefore
  BY RecordsAlways, InvGuessable, PTL

-----------------------------------------------------------------------------
(* Nothing unchecked goes uncounted. *)

LEMMA CompanionIs ==
  /\ Companion("nonce") = "body" /\ Companion("random") = "text"
  /\ Companion("body") = "" /\ Companion("text") = ""
  /\ \A m : m \notin {"nonce", "random"} => Companion(m) = ""
<1>1. ASSUME NEW m
      PROVE  /\ m = "nonce" => Companion(m) = "body"
             /\ m = "random" => Companion(m) = "text"
             /\ m # "nonce" /\ m # "random" => Companion(m) = ""
  <2> DEFINE a == (m = "nonce")
             b == (m = "random")
  <2>1. Companion(m) = CASE a -> "body" [] b -> "text" [] OTHER -> ""
    BY DEF Companion
  <2>2. (a => ~b) /\ (b => ~a)
    BY DEF a, b
  <2> HIDE DEF a, b
  <2>3. a => Companion(m) = "body"
    BY <2>1, <2>2, Zenon
  <2>4. b => Companion(m) = "text"
    BY <2>1, <2>2, Zenon
  <2>5. ~a /\ ~b => Companion(m) = ""
    BY <2>1, Zenon
  <2> QED BY <2>3, <2>4, <2>5 DEF a, b
<1> QED BY <1>1

\* A member and the one it travels with, both carried, are settled alike.
LEMMA CompanionState ==
  ASSUME NEW b, NEW i, NEW m, NEW p,
         (m = "nonce" /\ p = "body") \/ (m = "random" /\ p = "text"),
         Carries(b[i], m), Carries(b[i], p), NEW v
  PROVE  <<m, v>> \in ClaimStates(b, i) <=> <<p, v>> \in ClaimStates(b, i)
<1> DEFINE c == b[i]
<1>1. m \in Carried(c) \ {"variant"} /\ p \in Carried(c) \ {"variant"}
  BY DEF Carried, Members, Reason
<1>2. m \in ReadOn(c.kind) <=> p \in ReadOn(c.kind)
  <2>1. c.kind \in {"decision", "correction"} \/ c.kind = "release" \/ c.kind = "outcome" \/ c.kind \notin Records
    BY DEF Records
  <2> QED BY <2>1, ReadOnIs DEF Reason
<1>3. <<m, v>> \in Elsewhere(c) <=> <<p, v>> \in Elsewhere(c)
  <2> DEFINE A == {<<x, "unchecked">> : x \in (Carried(c) \ {"variant"}) \ ReadOn(c.kind)}
  <2>1. \A x : <<x, v>> \in A <=> v = "unchecked" /\ x \in (Carried(c) \ {"variant"}) \ ReadOn(c.kind)
    OBVIOUS
  <2>2. <<m, v>> \in A <=> <<p, v>> \in A
    BY <1>1, <1>2, <2>1
  <2> QED BY <2>2 DEF Elsewhere
<1>4. <<m, v>> \in OwnStates(b, i) <=> <<p, v>> \in OwnStates(b, i)
  <2> DEFINE own(w) == {<<x, w>> : x \in Carried(c) \intersect {"body", "nonce"}}
  <2>1. \A x, w : <<x, v>> \in own(w) <=> v = w /\ x \in Carried(c) \intersect {"body", "nonce"}
    OBVIOUS
  <2>2. \A w : <<m, v>> \in own(w) <=> <<p, v>> \in own(w)
    BY <1>1, <2>1
  <2>3. <<m, v>> \in ReasonStates(c) <=> <<p, v>> \in ReasonStates(c)
    <3> DEFINE R == {<<x, IF x = "redacted" THEN "redacted" ELSE "checked">> : x \in Reason \intersect Carried(c)}
    <3>1. \A x : <<x, v>> \in R <=> v = (IF x = "redacted" THEN "redacted" ELSE "checked") /\ x \in Reason \intersect Carried(c)
      OBVIOUS
    <3>2. <<m, v>> \in R <=> <<p, v>> \in R
      BY <1>1, <3>1 DEF Reason
    <3> QED BY <3>2 DEF ReasonStates
  <2> DEFINE reason == IF c.kind \in {"decision", "correction"} THEN ReasonStates(c) ELSE {}
  <2>4. <<m, v>> \in reason <=> <<p, v>> \in reason
    BY <2>3
  <2>5. OwnStates(b, i) = IF ~IsRecord(c) \/ Carries(c, "variant") THEN {}
          ELSE IF Confirmed(b, i) THEN own("checked") \union reason
          ELSE IF c.kind = "outcome" /\ OutcomeUnchecked(b, i) THEN own("unchecked")
          ELSE {}
    BY DEF OwnStates
  <2> HIDE DEF own, reason
  <2> QED BY <2>2, <2>4, <2>5
<1> QED BY <1>3, <1>4, StatesAre

LEMMA InvCounts == RecordsInv => NothingUncounted
<1> SUFFICES ASSUME RecordsInv, Passes,
                    \A s \in states : s[3] = "unchecked" => ~Alone(bundle[s[1]], s[2]),
                    NEW s \in states, s[3] = "unchecked"
             PROVE  FALSE
  BY DEF NothingUncounted
<1>1. /\ states = Base \union Left(Base) /\ ListsTo(Len(bundle)) /\ Len(bundle) \in Nat
      /\ DOMAIN bundle = 1 .. Len(bundle)
  BY PassesMeans
<1> DEFINE i == s[1]
           m == s[2]
           p == Companion(m)
<1>2. Companion(m) # "" /\ Carries(bundle[i], p)
  BY DEF Alone
<1>3. (m = "nonce" /\ p = "body") \/ (m = "random" /\ p = "text")
  BY <1>2, CompanionIs
<1>4. Alone(bundle[i], p)
  BY <1>3, CompanionIs DEF Alone
<1>5. SUFFICES <<i, p, "unchecked">> \in states
  <2>1. <<i, p, "unchecked">>[1] = i /\ <<i, p, "unchecked">>[2] = p /\ <<i, p, "unchecked">>[3] = "unchecked"
    OBVIOUS
  <2> HIDE DEF i, p
  <2> QED BY <1>4, <2>1
<1>6. CASE s \in SettledTo(Len(bundle))
  <2>1. i \in 1 .. Len(bundle) /\ <<m, "unchecked">> \in ClaimStates(bundle, i)
    BY <1>1, <1>6, SettledShape
  <2>2. Carries(bundle[i], m)
    BY <2>1, ClaimShape
  <2>3. <<p, "unchecked">> \in ClaimStates(bundle, i)
    BY <1>2, <1>3, <2>1, <2>2, CompanionState
  <2> HIDE DEF i, m, p
  <2>4. <<i, p, "unchecked">> \in SettledTo(Len(bundle))
    BY <2>1, <2>3, SettledHas
  <2> QED BY <1>1, <2>4 DEF Base
<1>7. CASE s \in SpecStates
  BY <1>3, <1>7, SpecShape
<1>8. CASE s \in Left(Base)
  <2>1. /\ i \in DOMAIN bundle /\ Carries(bundle[i], m)
        /\ ~\E u \in Base : u[1] = i /\ u[2] = m
    BY <1>8, LeftShape
  <2>2. ASSUME NEW u \in Base, u[1] = i, u[2] = p PROVE FALSE
    <3>1. u \in SettledTo(Len(bundle))
      <4>1. u \in SpecStates => u[2] = "spec"
        BY SpecShape
      <4> QED BY <1>3, <2>2, <4>1 DEF Base
    <3>2. <<p, u[3]>> \in ClaimStates(bundle, i)
      BY <1>1, <2>2, <3>1, SettledShape
    <3>3. <<m, u[3]>> \in ClaimStates(bundle, i)
      BY <1>2, <1>3, <2>1, <3>2, CompanionState
    <3> HIDE DEF i, m, p
    <3>4. <<i, m, u[3]>> \in SettledTo(Len(bundle))
      BY <1>1, <2>1, <3>3, SettledHas
    <3>5. <<i, m, u[3]>> \in Base /\ <<i, m, u[3]>>[1] = i /\ <<i, m, u[3]>>[2] = m
      BY <3>4 DEF Base
    <3> QED BY <2>1, <3>5
  <2>3. p \in Members
    BY <1>3 DEF Members, Reason
  <2>4. <<i, p, "unchecked">> \in Left(Base)
    <3> HIDE DEF i, p
    <3>1. <<i, p, "unchecked">> \in (DOMAIN bundle) \X Members \X {"unchecked"}
      BY <2>1, <2>3
    <3>2. <<i, p, "unchecked">>[1] = i /\ <<i, p, "unchecked">>[2] = p
      OBVIOUS
    <3> QED BY <1>2, <2>2, <3>1, <3>2 DEF Left
  <2> QED BY <1>1, <2>4
<1> QED BY <1>1, <1>6, <1>7, <1>8 DEF Base

\* A passing bundle that counts no record as unchecked has none, though members
\* that travel with another are not counted (members.go, classifyDisclosed).
THEOREM NothingGoesUncounted == Spec => []NothingUncounted
  BY RecordsAlways, InvCounts, PTL

-----------------------------------------------------------------------------
(* The types. *)

CountInv ==
  /\ withheld \in 0 .. MaxHolder /\ edits \in 0 .. MaxEdits
  /\ seen \subseteq Listed(committed)

\* What is done to a bundle is bounded, and what is compared was named.
LEMMA CountKept ==
  ASSUME CountInv, RunInv, [Next]_vars
  PROVE  CountInv'
<1>1. withheld' \in 0 .. MaxHolder /\ edits' \in 0 .. MaxEdits
  <2>1. CASE UNCHANGED <<withheld, edits>>
    BY <2>1 DEF CountInv
  <2>2. CASE withheld < MaxHolder /\ withheld' = withheld + 1 /\ edits' = edits
    BY <2>2, HolderAssumption DEF CountInv
  <2>3. CASE edits < MaxEdits /\ edits' = edits + 1 /\ withheld' = withheld
    BY <2>3, HolderAssumption DEF CountInv
  <2>4. CASE Withhold \/ Redact \/ CutWindow
    BY <2>2, <2>4 DEF Withhold, Redact, CutWindow, Held
  <2>5. CASE Alter
    BY <2>3, <2>5 DEF Alter
  <2>6. CASE Deliver \/ Check \/ Done \/ UNCHANGED vars
    BY <2>1, <2>6 DEF Deliver, Check, CheckClaim, LastClaim, CompareRun, RunDisagrees, CheckSpecs,
                      Classify, Done, vars, made
  <2> QED BY <2>4, <2>5, <2>6 DEF Next
<1>2. seen' \subseteq Listed(committed')
  <2>1. CASE UNCHANGED <<committed, seen>>
    BY <2>1 DEF CountInv
  <2>2. CASE phase \in {"open", "claims"} /\ seen' = seen
    BY <2>2 DEF RunInv, WalkInv
  <2>3. CASE CompareRun
    <3>1. /\ pos <= Len(committed) /\ committed' = committed
          /\ seen' = seen \union {c \in {committed[pos]} : Comparable(c)}
      BY <2>3 DEF CompareRun
    <3>2. pos \in DOMAIN committed
      <4>1. PICK S : committed \in Seq(S)
        BY DEF RunInv, ListInv
      <4> QED BY <4>1, <3>1 DEF RunInv, ListInv
    <3>3. committed[pos] \in Listed(committed)
      BY <3>2 DEF Listed
    <3> QED BY <3>1, <3>3 DEF CountInv
  <2>4. CASE Withhold \/ Redact \/ CutWindow \/ Alter \/ Deliver \/ CheckClaim
    BY <2>2, <2>4 DEF Withhold, Redact, CutWindow, Alter, Held, Deliver, CheckClaim, found
  <2>5. CASE LastClaim \/ RunDisagrees \/ CheckSpecs \/ Classify \/ Done \/ UNCHANGED vars
    BY <2>1, <2>5 DEF LastClaim, RunDisagrees, CheckSpecs, Classify, Done, vars, found
  <2> QED BY <2>3, <2>4, <2>5 DEF Next, Check
<1> QED BY <1>1, <1>2 DEF CountInv

\* A set of states of the claims, each member in one.
StatesOK(S) ==
  /\ S \subseteq (DOMAIN bundle) \X Members \X {"checked", "unchecked", "redacted"}
  /\ \A s, t \in S : s[1] = t[1] /\ s[2] = t[2] => s = t

LEMMA SettledOK ==
  ASSUME InWindow, NEW k \in Nat, k <= Len(bundle)
  PROVE  StatesOK(SettledTo(k))
<1>1. 1 .. k \subseteq DOMAIN bundle
  BY WindowPlaces DEF InWindow
<1>2. ASSUME NEW s \in SettledTo(k)
      PROVE  s \in (DOMAIN bundle) \X Members \X {"checked", "unchecked", "redacted"}
  <2>1. s[1] \in 1 .. k /\ s = <<s[1], s[2], s[3]>> /\ <<s[2], s[3]>> \in ClaimStates(bundle, s[1])
    BY <1>2, SettledShape
  <2>2. <<s[2], s[3]>>[1] \in Members /\ <<s[2], s[3]>>[2] \in {"checked", "unchecked", "redacted"}
    BY <2>1, ClaimShape
  <2> QED BY <1>1, <2>1, <2>2
<1>3. ASSUME NEW s \in SettledTo(k), NEW t \in SettledTo(k), s[1] = t[1], s[2] = t[2]
      PROVE  s = t
  <2>1. s = <<s[1], s[2], s[3]>> /\ <<s[2], s[3]>> \in ClaimStates(bundle, s[1])
    BY <1>3, SettledShape
  <2>2. t = <<t[1], t[2], t[3]>> /\ <<t[2], t[3]>> \in ClaimStates(bundle, t[1])
    BY <1>3, SettledShape
  <2>3. <<s[2], s[3]>> = <<t[2], t[3]>>
    <3>1. <<t[2], t[3]>> \in ClaimStates(bundle, s[1]) /\ <<s[2], s[3]>>[1] = <<t[2], t[3]>>[1]
      BY <1>3, <2>2
    <3> QED BY <2>1, <3>1, OneState
  <2> QED BY <1>3, <2>1, <2>2, <2>3
<1> QED BY <1>2, <1>3 DEF StatesOK

LEMMA BaseOK ==
  ASSUME InWindow, ListsTo(Len(bundle))
  PROVE  StatesOK(Base) /\ StatesOK(Base \union Left(Base))
<1>1. DOMAIN bundle = 1 .. Len(bundle) /\ Len(bundle) \in Nat
  BY WindowPlaces DEF InWindow
<1>2. StatesOK(SettledTo(Len(bundle)))
  BY <1>1, SettledOK
<1>3. ASSUME NEW t \in SpecStates
      PROVE  /\ t \in (DOMAIN bundle) \X Members \X {"checked", "unchecked", "redacted"}
             /\ t = <<t[1], "spec", IF committed = << >> THEN "unchecked" ELSE "checked">>
             /\ IsRecord(bundle[t[1]]) /\ bundle[t[1]].kind = "outcome"
  <2>1. t[1] \in Listed(specs) /\ t = <<t[1], "spec", IF committed = << >> THEN "unchecked" ELSE "checked">>
    BY SpecShape
  <2>2. t[1] \in 1 .. Len(bundle) /\ ShowsSpec(bundle, t[1])
    BY <2>1 DEF ListsTo
  <2>3. "spec" \in Members
    BY DEF Members
  <2> QED BY <1>1, <2>1, <2>2, <2>3 DEF ShowsSpec
<1>4. ASSUME NEW s \in SettledTo(Len(bundle)), NEW t \in SpecStates, s[1] = t[1]
      PROVE  s[2] # t[2]
  <2>1. <<s[2], s[3]>> \in ClaimStates(bundle, s[1])
    BY <1>1, SettledShape
  <2>2. <<s[2], s[3]>>[1] = "spec" => ~(IsRecord(bundle[s[1]]) /\ bundle[s[1]].kind = "outcome")
    BY <2>1, ClaimShape
  <2>3. t[2] = "spec" /\ IsRecord(bundle[t[1]]) /\ bundle[t[1]].kind = "outcome"
    BY <1>3
  <2> QED BY <1>4, <2>2, <2>3
<1>5. StatesOK(Base)
  <2>1. Base \subseteq (DOMAIN bundle) \X Members \X {"checked", "unchecked", "redacted"}
    BY <1>2, <1>3 DEF Base, StatesOK
  <2>2. ASSUME NEW s \in Base, NEW t \in Base, s[1] = t[1], s[2] = t[2] PROVE s = t
    <3>1. CASE s \in SettledTo(Len(bundle)) /\ t \in SettledTo(Len(bundle))
      BY <1>2, <2>2, <3>1 DEF StatesOK
    <3>2. CASE s \in SpecStates /\ t \in SpecStates
      BY <1>3, <2>2, <3>2
    <3>3. CASE s \in SettledTo(Len(bundle)) /\ t \in SpecStates
      BY <1>4, <2>2, <3>3
    <3>4. CASE s \in SpecStates /\ t \in SettledTo(Len(bundle))
      BY <1>4, <2>2, <3>4
    <3> QED BY <3>1, <3>2, <3>3, <3>4 DEF Base
  <2> QED BY <2>1, <2>2 DEF StatesOK
<1>6. StatesOK(Base \union Left(Base))
  <2>1. Left(Base) \subseteq (DOMAIN bundle) \X Members \X {"checked", "unchecked", "redacted"}
    BY DEF Left
  <2>2. ASSUME NEW s \in Base \union Left(Base), NEW t \in Base \union Left(Base), s[1] = t[1], s[2] = t[2]
        PROVE  s = t
    <3>1. CASE s \in Base /\ t \in Base
      BY <1>5, <2>2, <3>1 DEF StatesOK
    <3>2. CASE s \in Left(Base) /\ t \in Left(Base)
      <4>1. s = <<s[1], s[2], "unchecked">> /\ t = <<t[1], t[2], "unchecked">>
        BY <3>2, LeftShape
      <4> QED BY <2>2, <4>1
    <3>3. CASE s \in Base /\ t \in Left(Base)
      BY <2>2, <3>3, LeftShape
    <3>4. CASE s \in Left(Base) /\ t \in Base
      BY <2>2, <3>4, LeftShape
    <3> QED BY <2>2, <3>1, <3>2, <3>3, <3>4
  <2> QED BY <1>5, <2>1, <2>2 DEF StatesOK
<1> QED BY <1>5, <1>6

LEMMA InvTypes == RecordsInv /\ CountInv => TypeOK
<1> SUFFICES ASSUME RecordsInv, CountInv PROVE TypeOK
  OBVIOUS
<1>1. InWindow /\ RunInv /\ StateInv
  BY DEF RecordsInv, BundleInv
<1> DEFINE n == Len(bundle)
<1>2. /\ DOMAIN bundle = 1 .. n /\ n \in Nat \ {0} /\ pos \in Nat \ {0}
      /\ phase \in {"open", "claims", "runs", "classify", "done"}
  BY <1>1, WindowPlaces DEF InWindow, RunInv, ListInv, WalkInv
<1>3. recorded \in Logs /\ n \in 1 .. Len(recorded) /\ from \in 1 .. Len(recorded)
  <2> DEFINE r == Len(recorded)
  <2>1. recorded \in Logs /\ r \in Nat /\ from \in Nat \ {0} /\ from + n - 1 <= r
    BY <1>1, LogIsSequence DEF InWindow
  <2> HIDE DEF n, r
  <2>2. n \in 1 .. r /\ from \in 1 .. r
    BY <1>2, <2>1
  <2> QED BY <2>1, <2>2 DEF r
<1>4. PICK k \in Nat : k <= n /\ ListsTo(k) /\ (phase \notin {"open", "claims"} => k = n)
  <2>1. CASE phase = "open"
    <3>1. specs = << >> /\ committed = << >>
      BY <1>1, <2>1 DEF StateInv
    <3>2. specs \in Seq({1}) /\ Listed(specs) = {} /\ Listed(committed) = {} /\ Len(committed) = 0
      BY <3>1 DEF Listed
    <3>3. 1 .. 0 = {}
      OBVIOUS
    <3>4. ListsTo(0)
      BY <3>2, <3>3 DEF ListsTo
    <3>5. 0 \in Nat /\ 0 <= n /\ n \in Nat
      BY <1>2
    <3> HIDE DEF n
    <3> QED BY <2>1, <3>4, <3>5
  <2>2. CASE phase = "claims"
    <3>1. pos - 1 \in Nat /\ pos - 1 <= n /\ ListsTo(pos - 1)
      BY <1>1, <1>2, <2>2 DEF StateInv
    <3> QED BY <2>2, <3>1
  <2>3. CASE phase \notin {"open", "claims"}
    <3>1. ListsTo(n) /\ n \in Nat /\ n <= n
      BY <1>1, <1>2, <2>3 DEF StateInv
    <3> HIDE DEF n
    <3> QED BY <3>1
  <2>4. phase = "open" \/ phase = "claims" \/ phase \notin {"open", "claims"}
    OBVIOUS
  <2> QED BY <2>1, <2>2, <2>3, <2>4, Zenon
<1>5. Len(committed) <= n /\ Len(committed) \in Nat
  <2>1. PICK S : committed \in Seq(S)
    BY <1>1 DEF RunInv, ListInv
  <2>2. Len(committed) \in Nat /\ Len(committed) <= k
    BY <1>4, <2>1 DEF ListsTo
  <2>3. k \in Nat /\ k <= n /\ n \in Nat
    BY <1>2, <1>4
  <2> HIDE DEF n
  <2> QED BY <2>2, <2>3
<1>6. \A j \in DOMAIN specs : specs[j] \in DOMAIN bundle
  <2>1. \A j \in DOMAIN specs : specs[j] \in 1 .. k
    BY <1>4 DEF ListsTo, Listed
  <2>2. k \in Nat /\ k <= n /\ n \in Nat /\ DOMAIN bundle = 1 .. n
    BY <1>2, <1>4
  <2> HIDE DEF n
  <2>3. 1 .. k \subseteq 1 .. n
    BY <2>2
  <2> QED BY <2>1, <2>2, <2>3
<1>7. pos \in 1 .. n + 1
  <2>1. CASE phase = "open" \/ phase = "claims"
    BY <1>1, <1>2, <2>1 DEF StateInv
  <2>2. CASE phase \in {"runs", "classify", "done"}
    <3>1. pos <= Len(committed) + 1
      BY <1>1, <2>2, <1>5, <1>2 DEF RunInv, WalkInv
    <3> QED BY <1>2, <1>5, <3>1
  <2> QED BY <1>2, <2>1, <2>2
<1>8. StatesOK(states)
  <2>1. CASE phase = "open"
    BY <1>1, <2>1 DEF StateInv, StatesOK
  <2>2. CASE phase = "claims"
    <3>1. pos - 1 \in Nat /\ pos - 1 <= n /\ states = SettledTo(pos - 1)
      BY <1>1, <1>2, <2>2 DEF StateInv
    <3> QED BY <1>1, <3>1, SettledOK
  <2>3. CASE phase \in {"runs", "classify", "done"}
    <3>1. ListsTo(n)
      BY <1>1, <2>3 DEF StateInv
    <3>2. StatesOK(Base) /\ StatesOK(Base \union Left(Base))
      BY <1>1, <3>1, BaseOK
    <3>3. states \subseteq Base \/ states = Base \union Left(Base)
      BY <1>1, <2>3 DEF StateInv, Base
    <3> QED BY <3>2, <3>3 DEF StatesOK
  <2> QED BY <1>2, <2>1, <2>2, <2>3
<1>9. seen \subseteq {committed[j] : j \in DOMAIN committed}
  BY DEF CountInv, Listed
<1>10. problem \in BOOLEAN
  BY <1>1 DEF StateInv
<1> HIDE DEF n
<1> QED BY <1>2, <1>3, <1>5, <1>6, <1>7, <1>8, <1>9, <1>10 DEF TypeOK, CountInv, StatesOK, n

\* Each step of the walk keeps every variable in its type, and no member is ever
\* reported in two states (members.go, memberStates).
THEOREM RecordTypes == Spec => []TypeOK
<1>1. Init => CountInv
  BY HolderAssumption DEF Init, CountInv
<1>2. RecordsInv /\ CountInv /\ [Next]_vars => CountInv'
  BY CountKept DEF RecordsInv
<1> QED BY <1>1, <1>2, RecordsAlways, InvTypes, PTL DEF Spec

-----------------------------------------------------------------------------
(***************************************************************************)
(* Proof that a holder who withholds, redacts and cuts, and alters nothing *)
(* else, never costs a conforming producer the verdict.                    *)
(*                                                                         *)
(* Of each claim the holder leaves its record whole or none of it, and its *)
(* reason whole, none of it or a category in its place (PartInv).  So no   *)
(* claim's check fails that did not fail on the log, what the records name *)
(* is what they named there, and every turn of the walk finds no problem.  *)
(***************************************************************************)


SameOn(c, o, ms) == \A x \in ms : c.m[x] = o.m[x]
NoneOf(c, ms) == \A x \in ms : c.m[x] = Absent
Read == {"body", "nonce"}
Reasoned == {"decision", "correction"}

\* Claim c is entry o after a holder has been at it.
Partly(c, o) ==
  /\ c.type = o.type /\ c.m.variant = o.m.variant /\ c.m.spec \in {o.m.spec, Absent}
  /\ \/ SameOn(c, o, Read)
     \/ NoneOf(c, Read) /\ (c.kind \in Reasoned => NoneOf(c, Reason))
  /\ \/ SameOn(c, o, Reason)
     \/ NoneOf(c, Reason)
     \/ o.m.text # Absent /\ c.m.redacted = "category" /\ NoneOf(c, {"text", "random"})

PartInv == edits = 0 => \A i \in DOMAIN bundle : Partly(bundle[i], Origin(i))

-----------------------------------------------------------------------------
(* The holder's steps. *)

LEMMA UnitsAre ==
  ASSUME NEW c, NEW ms \in Units(c)
  PROVE  \/ c.kind \in Reasoned /\ (ms = Read \union Reason \/ ms = Reason)
         \/ c.kind \notin Reasoned /\ (ms = Read \/ ms = {"spec"} \/ ms = {"stray"})
<1> DEFINE a == (c.kind \in {"decision", "correction"})
           b == (c.kind \in {"release", "outcome"})
<1>1. Units(c) = CASE a -> {{"body", "nonce"} \union Reason, Reason}
                   [] b -> {{"body", "nonce"}, {"spec"}}
                   [] OTHER -> {{"stray"}}
  BY DEF Units
<1>2. (a => ~b) /\ (b => ~a)
  BY DEF a, b
<1> HIDE DEF a, b
<1>3. a => Units(c) = {{"body", "nonce"} \union Reason, Reason}
  BY <1>1, <1>2, Zenon
<1>4. b => Units(c) = {{"body", "nonce"}, {"spec"}}
  BY <1>1, <1>2, Zenon
<1>5. ~a /\ ~b => Units(c) = {{"stray"}}
  BY <1>1, Zenon
<1>6. a => ms = Read \union Reason \/ ms = Reason
  BY <1>3 DEF Read
<1>7. ~a => ms = Read \/ ms = {"spec"} \/ ms = {"stray"}
  BY <1>4, <1>5 DEF Read
<1> QED BY <1>6, <1>7 DEF a, Reasoned

\* A claim less one of its units.
LEMMA WithoutPartly ==
  ASSUME NEW c, NEW o, SameEntry(c, o), Partly(c, o), NEW ms \in Units(c)
  PROVE  Partly(WithoutMembers(c, ms), o)
<1> DEFINE f == [x \in Members |-> IF x \in ms THEN Absent ELSE c.m[x]]
           d == WithoutMembers(c, ms)
<1>1. d.m = f /\ d.type = c.type /\ d.kind = o.kind /\ c.kind = o.kind
  <2>1. f = [x \in Members |-> f[x]]
    OBVIOUS
  <2> HIDE DEF f
  <2>2. [c EXCEPT !.m = f].m = f /\ [c EXCEPT !.m = f].type = c.type /\ [c EXCEPT !.m = f].kind = o.kind
    BY <2>1, PutMembers
  <2> QED BY <2>2 DEF WithoutMembers, f, SameEntry
<1>2. /\ \A x \in ms : x \in Members => d.m[x] = Absent
      /\ \A x \in Members : x \notin ms => d.m[x] = c.m[x]
  BY <1>1
<1>3. Read \subseteq Members /\ Reason \subseteq Members /\ {"variant", "spec", "text", "random", "redacted"} \subseteq Members
  BY DEF Read, Reason, Members
<1> SUFFICES Partly(d, o)
  OBVIOUS
<1> HIDE DEF d
<1>4. \/ c.kind \in Reasoned /\ (ms = Read \union Reason \/ ms = Reason)
      \/ c.kind \notin Reasoned /\ (ms = Read \/ ms = {"spec"} \/ ms = {"stray"})
  BY UnitsAre
<1>5. CASE c.kind \in Reasoned /\ ms = Read \union Reason
  <2>1. NoneOf(d, Read) /\ NoneOf(d, Reason)
    BY <1>2, <1>3, <1>5 DEF NoneOf
  <2>2. d.m.variant = c.m.variant /\ d.m.spec = c.m.spec
    BY <1>2, <1>3, <1>5 DEF Read, Reason
  <2> QED BY <1>1, <2>1, <2>2 DEF Partly
<1>6. CASE c.kind \in Reasoned /\ ms = Reason
  <2>1. NoneOf(d, Reason)
    BY <1>2, <1>3, <1>6 DEF NoneOf
  <2>2. \A x \in Read \union {"variant", "spec"} : d.m[x] = c.m[x]
    BY <1>2, <1>3, <1>6 DEF Read, Reason
  <2>3. SameOn(d, o, Read) \/ NoneOf(d, Read)
    BY <2>2 DEF Partly, SameOn, NoneOf
  <2> QED BY <1>1, <2>1, <2>2, <2>3 DEF Partly
<1>7. CASE c.kind \notin Reasoned /\ ms = Read
  <2>1. NoneOf(d, Read)
    BY <1>2, <1>3, <1>7 DEF NoneOf
  <2>2. \A x \in Reason \union {"variant", "spec"} : d.m[x] = c.m[x]
    BY <1>2, <1>3, <1>7 DEF Read, Reason
  <2>3. \/ SameOn(d, o, Reason) \/ NoneOf(d, Reason)
        \/ o.m.text # Absent /\ d.m.redacted = "category" /\ NoneOf(d, {"text", "random"})
    BY <2>2 DEF Partly, SameOn, NoneOf, Reason
  <2> QED BY <1>1, <1>7, <2>1, <2>2, <2>3 DEF Partly
<1>8. CASE c.kind \notin Reasoned /\ (ms = {"spec"} \/ ms = {"stray"})
  <2>1. \A x \in Read \union Reason \union {"variant"} : d.m[x] = c.m[x]
    BY <1>2, <1>3, <1>8 DEF Read, Reason
  <2>2. d.m.spec \in {c.m.spec, Absent}
    BY <1>2, <1>3, <1>8
  <2>3. \/ SameOn(d, o, Reason) \/ NoneOf(d, Reason)
        \/ o.m.text # Absent /\ d.m.redacted = "category" /\ NoneOf(d, {"text", "random"})
    BY <2>1 DEF Partly, SameOn, NoneOf, Reason
  <2>4. SameOn(d, o, Read) \/ NoneOf(d, Read)
    BY <2>1 DEF Partly, SameOn, NoneOf
  <2> QED BY <1>1, <1>8, <2>1, <2>2, <2>3, <2>4 DEF Partly
<1> QED BY <1>4, <1>5, <1>6, <1>7, <1>8

\* A claim whose text makes way for a category.
LEMMA RedactedPartly ==
  ASSUME NEW c, NEW o, SameEntry(c, o), Partly(c, o), Carries(c, "text")
  PROVE  Partly(Redacted(c), o)
<1> DEFINE f == [x \in Members |-> IF x = "redacted" THEN "category"
                                  ELSE IF x \in Reason THEN Absent ELSE c.m[x]]
           d == Redacted(c)
<1>1. d.m = f /\ d.type = c.type /\ d.kind = o.kind /\ c.kind = o.kind
  <2>1. f = [x \in Members |-> f[x]]
    OBVIOUS
  <2> HIDE DEF f
  <2>2. [c EXCEPT !.m = f].m = f /\ [c EXCEPT !.m = f].type = c.type /\ [c EXCEPT !.m = f].kind = o.kind
    BY <2>1, PutMembers
  <2> QED BY <2>2 DEF Redacted, f, SameEntry
<1>2. /\ \A x \in Read \union {"variant", "spec"} : d.m[x] = c.m[x]
      /\ d.m.redacted = "category" /\ NoneOf(d, {"text", "random"})
  <2>1. \A x \in Read \union {"variant", "spec"} : x \in Members /\ x # "redacted" /\ x \notin Reason
    BY DEF Read, Members, Reason
  <2>2. \A x \in {"text", "random"} : x \in Members /\ x # "redacted" /\ x \in Reason
    BY DEF Members, Reason
  <2>3. "redacted" \in Members
    BY DEF Members, Reason
  <2> QED BY <1>1, <2>1, <2>2, <2>3 DEF NoneOf
<1> HIDE DEF d
<1>3. c.m.text # Absent /\ "text" \in Reason
  BY DEF Carries, Reason
<1>4. SameOn(c, o, Reason)
  BY <1>3 DEF Partly, NoneOf
<1>5. o.m.text # Absent
  BY <1>3, <1>4 DEF SameOn
<1>6. SameOn(d, o, Read) \/ (NoneOf(d, Read) /\ c.kind \notin Reasoned)
  BY <1>2, <1>3 DEF Partly, SameOn, NoneOf
<1> QED BY <1>1, <1>2, <1>5, <1>6 DEF Partly, d

LEMMA PartKept ==
  ASSUME BundleInv, CountInv, PartInv, [Next]_vars
  PROVE  PartInv'
<1> SUFFICES ASSUME edits' = 0 PROVE \A j \in DOMAIN bundle' : Partly(bundle'[j], Origin(j)')
  BY DEF PartInv, Partly, SameOn, NoneOf
<1>1. CASE UNCHANGED <<recorded, bundle, from, edits>>
  BY <1>1 DEF PartInv, Partly, SameOn, NoneOf, Origin
<1>2. ASSUME NEW i \in DOMAIN bundle, NEW c, Partly(c, Origin(i)),
             bundle' = [bundle EXCEPT ![i] = c], UNCHANGED <<recorded, from, edits>>
      PROVE  \A j \in DOMAIN bundle' : Partly(bundle'[j], Origin(j)')
  <2>1. DOMAIN bundle' = DOMAIN bundle /\ bundle'[i] = c /\ \A j \in DOMAIN bundle : j # i => bundle'[j] = bundle[j]
    BY <1>2
  <2>2. \A j \in DOMAIN bundle : Origin(j)' = Origin(j)
    BY <1>2 DEF Origin
  <2>3. \A j \in DOMAIN bundle : Partly(bundle[j], Origin(j))
    BY <1>2 DEF PartInv
  <2> TAKE j \in DOMAIN bundle'
  <2>4. CASE j = i
    BY <1>2, <2>1, <2>2, <2>4
  <2>5. CASE j # i
    BY <2>1, <2>2, <2>3, <2>5
  <2> QED BY <2>4, <2>5
<1>3. CASE Withhold
  <2>1. PICK i \in DOMAIN bundle : \E ms \in Units(bundle[i]) : bundle' = Without(i, ms)
    BY <1>3 DEF Withhold
  <2>2. PICK ms \in Units(bundle[i]) : bundle' = Without(i, ms)
    BY <2>1
  <2>3. UNCHANGED <<recorded, from, edits>>
    BY <1>3 DEF Withhold, Held
  <2>4. Partly(WithoutMembers(bundle[i], ms), Origin(i))
    BY <2>3, WithoutPartly DEF PartInv, BundleInv
  <2> QED BY <1>2, <2>2, <2>3, <2>4, WithoutIs
<1>4. CASE Redact
  <2>1. PICK i \in DOMAIN bundle :
          /\ Carries(bundle[i], "text")
          /\ bundle' = [Without(i, Reason) EXCEPT ![i].m.redacted = "category"]
    BY <1>4 DEF Redact
  <2>2. UNCHANGED <<recorded, from, edits>>
    BY <1>4 DEF Redact, Held
  <2>3. Partly(Redacted(bundle[i]), Origin(i))
    BY <2>1, <2>2, RedactedPartly DEF PartInv, BundleInv
  <2>4. bundle' = [bundle EXCEPT ![i] = Redacted(bundle[i])]
    BY <2>1, RedactedIs
  <2> QED BY <1>2, <2>2, <2>3, <2>4
<1>5. CASE CutWindow
  <2>1. recorded' = recorded /\ edits' = edits
    BY <1>5 DEF CutWindow, Held
  <2>2. \A j \in DOMAIN bundle' : \E i \in DOMAIN bundle : bundle'[j] = bundle[i] /\ Origin(j)' = Origin(i)
    BY <1>5, CutPlaces
  <2> QED BY <2>1, <2>2 DEF PartInv
<1>6. CASE Alter
  BY <1>6 DEF Alter, CountInv
<1>7. CASE Deliver \/ Check \/ Done \/ UNCHANGED vars
  BY <1>1, <1>7 DEF Deliver, Check, CheckClaim, LastClaim, CompareRun, RunDisagrees, CheckSpecs,
                    Classify, Done, vars, made
<1> QED BY <1>3, <1>4, <1>5, <1>6, <1>7 DEF Next

-----------------------------------------------------------------------------
(* A claim of the bundle and the entry of the log it is. *)

Kept_OK == BundleInv /\ PartInv /\ edits = 0 /\ Conforms(recorded)
Place(i) == from + i - 1

LEMMA KeptClaim ==
  ASSUME Kept_OK, NEW i \in DOMAIN bundle
  PROVE  /\ Place(i) \in DOMAIN recorded /\ Origin(i) = recorded[Place(i)]
         /\ bundle[i].type = Origin(i).type /\ bundle[i].kind = Origin(i).kind
         /\ bundle[i].run = Origin(i).run /\ bundle[i].digest = Origin(i).digest
         /\ (IsRecord(bundle[i]) <=> IsRecord(recorded[Place(i)]))
         /\ Partly(bundle[i], recorded[Place(i)])
<1>1. Place(i) \in DOMAIN recorded /\ Origin(i) = recorded[Place(i)]
  BY WindowPlaces DEF Kept_OK, BundleInv, Place, Origin
<1>2. Partly(bundle[i], Origin(i))
  BY DEF Kept_OK, PartInv
<1>3. bundle[i].kind = Origin(i).kind /\ bundle[i].run = Origin(i).run /\ bundle[i].digest = Origin(i).digest
  BY EntryFields DEF Kept_OK
<1> QED BY <1>1, <1>2, <1>3 DEF Partly, IsRecord

\* What is keyed in the window is keyed in the log: no legacy body is too old.
LEMMA NoneTooOld ==
  ASSUME Kept_OK, NEW i \in DOMAIN bundle
  PROVE  ~TooOld(bundle, i) /\ ~TooOld(recorded, Place(i))
<1>1. ~TooOld(recorded, Place(i)) /\ Place(i) \in DOMAIN recorded
  BY KeptClaim DEF Kept_OK, Conforms
<1>2. SUFFICES ASSUME TooOld(bundle, i) PROVE FALSE
  BY <1>1
<1> DEFINE j == FirstKeyed(bundle)
           K == {k \in DOMAIN bundle : bundle[k].type = "audit" /\ Form(bundle[k].digest) \in KeyedForms}
<1>3. Form(bundle[i].digest) = "sha256" /\ j > 0 /\ j < i
  BY <1>2 DEF TooOld
<1>4. DOMAIN bundle \subseteq Nat \ {0} /\ DOMAIN recorded \subseteq Nat \ {0} /\ from \in Nat \ {0}
  <2>1. DOMAIN recorded = 1 .. Len(recorded)
    BY LogIsSequence DEF Kept_OK, BundleInv, InWindow
  <2>2. DOMAIN bundle \subseteq Nat \ {0} /\ from \in Nat \ {0}
    BY WindowPlaces DEF Kept_OK, BundleInv, InWindow
  <2> QED BY <2>1, <2>2
<1>5. PICK k \in DOMAIN bundle : bundle[k].type = "audit" /\ Form(bundle[k].digest) \in KeyedForms
  <2>1. K # {}
    <3>1. j = IF K = {} THEN 0 ELSE Min(K)
      BY DEF FirstKeyed
    <3> HIDE DEF K
    <3>2. j # 0
      BY <1>3
    <3> QED BY <3>1, <3>2
  <2> QED BY <2>1
<1>6. j \in DOMAIN bundle /\ bundle[j].type = "audit" /\ Form(bundle[j].digest) \in KeyedForms
  BY <1>4, <1>5, FirstKeyedIs
<1>7. /\ Place(j) \in DOMAIN recorded /\ recorded[Place(j)].type = "audit"
      /\ Form(recorded[Place(j)].digest) \in KeyedForms
  BY <1>6, KeptClaim
<1>8. FirstKeyed(recorded) \in DOMAIN recorded /\ FirstKeyed(recorded) <= Place(j)
  BY <1>4, <1>7, FirstKeyedIs
<1>9. FirstKeyed(recorded) > 0 /\ FirstKeyed(recorded) < Place(i)
  <2> HIDE DEF j
  <2>1. j \in Nat /\ i \in Nat /\ from \in Nat /\ j < i /\ FirstKeyed(recorded) \in Nat \ {0}
    BY <1>3, <1>4, <1>6, <1>8
  <2>2. from + j - 1 < from + i - 1
    BY <2>1
  <2> QED BY <2>1, <2>2, <1>8 DEF Place
<1>10. Form(recorded[Place(i)].digest) = "sha256"
  BY <1>3, KeptClaim
<1> QED BY <1>1, <1>9, <1>10 DEF TooOld

\* A confirmed record of the bundle is confirmed in the log, and names the same.
LEMMA ConfirmedThere ==
  ASSUME Kept_OK, NEW i \in DOMAIN bundle, Confirmed(bundle, i)
  PROVE  /\ Confirmed(recorded, Place(i))
         /\ bundle[i].m.body = recorded[Place(i)].m.body
<1> DEFINE c == bundle[i]
           o == recorded[Place(i)]
<1>1. /\ c.kind = o.kind /\ c.digest = o.digest /\ (IsRecord(c) <=> IsRecord(o)) /\ Partly(c, o)
  BY KeptClaim
<1>2. c.m.body # Absent /\ IsRecord(c) /\ ~Carries(c, "variant")
  BY DEF Confirmed, Carries
<1>3. c.m.body = o.m.body /\ c.m.nonce = o.m.nonce /\ c.m.variant = o.m.variant
  BY <1>1, <1>2 DEF Partly, SameOn, NoneOf, Read
<1>4. CASE c.kind = "outcome"
  BY <1>1, <1>2, <1>3, <1>4 DEF Confirmed, Carries, ExactHolds
<1>5. CASE c.kind # "outcome"
  <2>1. BodyHolds(bundle, i)
    BY <1>5 DEF Confirmed
  <2>2. BodyHolds(recorded, Place(i))
    BY <1>1, <1>3, <2>1, NoneTooOld DEF BodyHolds, KeyedHolds, LegacyHolds
  <2> QED BY <1>1, <1>2, <1>3, <1>5, <2>2 DEF Confirmed, Carries
<1> QED BY <1>3, <1>4, <1>5

LEMMA NamedThere ==
  ASSUME Kept_OK, NEW i \in DOMAIN bundle, Names(bundle, i)
  PROVE  /\ Place(i) \in DOMAIN recorded /\ Names(recorded, Place(i))
         /\ Named(recorded, Place(i)).run = Named(bundle, i).run
         /\ Named(recorded, Place(i)).digest = Named(bundle, i).digest
         /\ Named(bundle, i).digest = recorded[Place(i)].m.body.spec
<1>1. Confirmed(recorded, Place(i)) /\ bundle[i].m.body = recorded[Place(i)].m.body
  BY ConfirmedThere DEF Names
<1>2. /\ bundle[i].kind = recorded[Place(i)].kind /\ bundle[i].run = recorded[Place(i)].run
      /\ Place(i) \in DOMAIN recorded
  BY KeptClaim
<1> QED BY <1>1, <1>2 DEF Names, Named

LEMMA ShownThere ==
  ASSUME Kept_OK, NEW i \in DOMAIN bundle, ShowsSpec(bundle, i)
  PROVE  /\ Place(i) \in DOMAIN recorded /\ ShowsSpec(recorded, Place(i))
         /\ SpecOf(i) = recorded[Place(i)].m.spec
  BY KeptClaim DEF ShowsSpec, Partly, Carries, SpecOf

-----------------------------------------------------------------------------
(* No check of a claim fails. *)

\* A reason left out or redacted fails no check the whole one did not.
LEMMA ReasonStands ==
  ASSUME NEW c, NEW o, Partly(c, o), c.kind = o.kind, c.m.body = o.m.body, ~ReasonFails(o)
  PROVE  ~ReasonFails(c)
<1> DEFINE S(d) == Reason \intersect Carried(d)
<1>1. \A d, x : x \in S(d) <=> x \in Reason /\ d.m[x] # Absent
  BY DEF Carried, Carries, Members
<1>2. (Commits(c) <=> Commits(o)) /\ {"text", "random", "redacted"} = Reason
  BY DEF Commits, Reason
<1> HIDE DEF S
<1>3. CASE SameOn(c, o, Reason)
  <2>1. S(c) = S(o)
    BY <1>1, <1>3 DEF SameOn
  <2>2. c.m.redacted = o.m.redacted /\ c.m.text = o.m.text /\ c.m.random = o.m.random
    BY <1>2, <1>3 DEF SameOn
  <2>3. ReasonOpens(c) <=> ReasonOpens(o)
    BY <2>2 DEF ReasonOpens
  <2> QED BY <1>2, <2>1, <2>2, <2>3 DEF ReasonFails, S
<1>4. CASE NoneOf(c, Reason)
  <2>1. S(c) = {}
    BY <1>1, <1>4 DEF NoneOf
  <2> QED BY <1>2, <2>1 DEF ReasonFails, S
<1>5. CASE o.m.text # Absent /\ c.m.redacted = "category" /\ NoneOf(c, {"text", "random"})
  <2>1. S(o) # {} /\ S(c) = {"redacted"}
    BY <1>1, <1>2, <1>5, NoValueAssumption DEF NoneOf
  <2>2. c.kind # "release"
    BY <2>1 DEF ReasonFails, S
  <2>3. Commits(o) /\ o.m.body.commit # Bad /\ o.m.body.event # Empty
    BY <2>1, <2>2 DEF ReasonFails, S
  <2>4. c.m.redacted \notin {Empty, Bad}
    BY <1>5, NoValueAssumption
  <2> QED BY <1>2, <2>1, <2>2, <2>3, <2>4 DEF ReasonFails, S
<1> QED BY <1>3, <1>4, <1>5 DEF Partly

LEMMA ClaimStands ==
  ASSUME Kept_OK, NEW i \in DOMAIN bundle, IsRecord(bundle[i])
  PROVE  ~ClaimFails(bundle, i)
<1> DEFINE c == bundle[i]
           g == Place(i)
           o == recorded[g]
<1>1. /\ g \in DOMAIN recorded /\ c.kind = o.kind /\ c.digest = o.digest /\ Partly(c, o)
      /\ IsRecord(o)
  BY KeptClaim
<1>2. ~ClaimFails(recorded, g)
  BY <1>1 DEF Kept_OK, Conforms
<1>3. ~Carries(c, "variant")
  BY <1>1, <1>2 DEF ClaimFails, Carries, Partly
<1>4. ~TooOld(bundle, i) /\ ~TooOld(recorded, g)
  BY NoneTooOld
<1>5. CASE c.kind = "outcome"
  <2>1. ~OutcomeFails(recorded, g) /\ o.m.spec # Bad
    BY <1>1, <1>2, <1>5 DEF ClaimFails
  <2>2. c.m.spec # Bad
    BY <1>1, <2>1, NoValueAssumption DEF Partly
  <2>3. ~OutcomeFails(bundle, i)
    <3>1. CASE c.m.body = o.m.body /\ c.m.nonce = o.m.nonce
      BY <1>1, <1>4, <2>1, <3>1 DEF OutcomeFails, Carries, ExactHolds
    <3>2. CASE c.m.body = Absent /\ c.m.nonce = Absent
      BY <3>2 DEF OutcomeFails, Carries
    <3> QED BY <1>1, <3>1, <3>2 DEF Partly, SameOn, NoneOf, Read
  <2> QED BY <1>3, <1>5, <2>2, <2>3 DEF ClaimFails
<1>6. CASE c.kind # "outcome"
  <2>1. SUFFICES ASSUME Discloses(c) PROVE BodyHolds(bundle, i) /\ ~ReasonFails(c)
    BY <1>3, <1>6 DEF ClaimFails
  <2>2. PICK x \in ReadOn(c.kind) : c.m[x] # Absent
    BY <2>1 DEF Discloses, Carried, Carries
  <2>3. c.kind \in Reasoned \/ c.kind = "release"
    BY <1>6 DEF IsRecord, Records, Reasoned
  <2>4. x \in Read \union Reason /\ (c.kind = "release" => x \in Read)
    BY <2>2, <2>3, ReadOnIs DEF Reasoned, Read
  <2>5. SameOn(c, o, Read)
    BY <1>1, <2>2, <2>3, <2>4 DEF Partly, NoneOf, Reasoned
  <2>6. Discloses(o)
    <3>1. CASE x \in Read
      <4>1. o.m[x] # Absent
        BY <2>2, <2>5, <3>1 DEF SameOn
      <4> QED BY <1>1, <2>2, <2>4, <4>1 DEF Discloses, Carried, Carries, Members, Read, Reason
    <3>2. CASE x \in Reason /\ c.kind \in Reasoned
      <4>1. \E y \in Reason : o.m[y] # Absent
        <5>1. "text" \in Reason
          BY DEF Reason
        <5> QED BY <1>1, <2>2, <3>2, <5>1 DEF Partly, SameOn, NoneOf
      <4>2. Reason \subseteq ReadOn(o.kind) /\ Reason \subseteq Members
        BY <1>1, <3>2, ReadOnIs DEF Reasoned, Members
      <4> QED BY <4>1, <4>2 DEF Discloses, Carried, Carries
    <3> QED BY <2>3, <2>4, <3>1, <3>2
  <2>7. BodyHolds(recorded, g) /\ ~ReasonFails(o)
    BY <1>1, <1>2, <1>6, <2>6 DEF ClaimFails
  <2>8. c.m.body = o.m.body /\ c.m.nonce = o.m.nonce
    BY <2>5 DEF SameOn, Read
  <2>9. BodyHolds(bundle, i)
    BY <1>1, <1>4, <2>7, <2>8 DEF BodyHolds, KeyedHolds, LegacyHolds
  <2> QED BY <1>1, <2>7, <2>8, <2>9, ReasonStands
<1> QED BY <1>5, <1>6

-----------------------------------------------------------------------------
(* No turn of the walk finds a problem. *)

\* What the records of a conforming log name of one run agrees.
LEMMA NoneDrifts ==
  ASSUME Kept_OK, NEW k \in 0 .. Len(bundle), ListsTo(k),
         NEW c \in Listed(committed), NEW d \in Listed(committed)
  PROVE  ~Drift(c, d)
<1>1. SUFFICES ASSUME c.run = d.run, c.digest # d.digest PROVE FALSE
  BY DEF Drift
<1>2. 1 .. k \subseteq DOMAIN bundle
  BY WindowPlaces DEF Kept_OK, BundleInv, InWindow
<1>3. \A e \in Listed(committed) : \E i \in DOMAIN bundle : Names(bundle, i) /\ e = Named(bundle, i)
  BY <1>2 DEF ListsTo
<1>4. PICK i \in DOMAIN bundle : Names(bundle, i) /\ c = Named(bundle, i)
  BY <1>3
<1>5. PICK j \in DOMAIN bundle : Names(bundle, j) /\ d = Named(bundle, j)
  BY <1>3
<1> DEFINE n == {g \in DOMAIN recorded : Names(recorded, g)}
<1>6. /\ Place(i) \in n /\ Named(recorded, Place(i)).run = c.run
      /\ Named(recorded, Place(i)).digest = c.digest
  BY <1>4, NamedThere
<1>7. /\ Place(j) \in n /\ Named(recorded, Place(j)).run = d.run
      /\ Named(recorded, Place(j)).digest = d.digest
  BY <1>5, NamedThere
<1>8. \A g, h \in n : Named(recorded, g).run = Named(recorded, h).run =>
                         Named(recorded, g).digest = Named(recorded, h).digest
  BY DEF Kept_OK, Conforms
<1> QED BY <1>1, <1>6, <1>7, <1>8

\* And the spec disclosed is the one they all name.
LEMMA OneSpecStands ==
  ASSUME Kept_OK, ListsTo(Len(bundle)), specs # << >>
  PROVE  OneSpec
<1> DEFINE n == {g \in DOMAIN recorded : Names(recorded, g)}
           shown == {g \in DOMAIN recorded : ShowsSpec(recorded, g)}
<1>1. \A g \in shown : \A h \in n \union shown :
        recorded[g].m.spec = IF h \in n THEN recorded[h].m.body.spec ELSE recorded[h].m.spec
  BY DEF Kept_OK, Conforms
<1>2. 1 .. Len(bundle) = DOMAIN bundle
  BY WindowPlaces DEF Kept_OK, BundleInv
<1>3. \A k \in DOMAIN specs : /\ Place(specs[k]) \in shown
                              /\ SpecOf(specs[k]) = recorded[Place(specs[k])].m.spec
  <2>1. \A k \in DOMAIN specs : specs[k] \in DOMAIN bundle /\ ShowsSpec(bundle, specs[k])
    BY <1>2 DEF ListsTo, Listed
  <2> QED BY <2>1, ShownThere
<1>4. 1 \in DOMAIN specs
  <2>1. PICK S : specs \in Seq(S)
    BY DEF ListsTo
  <2> QED BY <2>1
<1>5. ASSUME NEW g \in shown, NEW h \in shown PROVE recorded[g].m.spec = recorded[h].m.spec
  <2>1. CASE h \in n
    BY <1>1, <2>1
  <2>2. CASE h \notin n
    BY <1>1, <2>2
  <2> QED BY <2>1, <2>2
<1>6. \A k \in DOMAIN specs : SpecOf(specs[k]) = SpecOf(specs[1])
  BY <1>3, <1>4, <1>5
<1>7. ASSUME NEW k \in DOMAIN committed PROVE committed[k].digest = SpecOf(specs[1])
  <2>1. committed[k] \in {Named(bundle, i) : i \in {j \in 1 .. Len(bundle) : Names(bundle, j)}}
    BY DEF ListsTo, Listed
  <2>2. PICK i \in DOMAIN bundle : Names(bundle, i) /\ committed[k] = Named(bundle, i)
    BY <1>2, <2>1
  <2>3. Place(i) \in n /\ committed[k].digest = recorded[Place(i)].m.body.spec
    BY <2>2, NamedThere
  <2> QED BY <1>1, <1>3, <1>4, <2>3
<1> QED BY <1>6, <1>7 DEF OneSpec

SafeInv == edits = 0 /\ Conforms(recorded) => ~problem
HolderInv == RecordsInv /\ CountInv /\ PartInv /\ SafeInv

LEMMA SafeKept ==
  ASSUME HolderInv, [Next]_vars
  PROVE  SafeInv'
<1> SUFFICES ASSUME edits' = 0, Conforms(recorded') PROVE ~problem'
  BY DEF SafeInv, Conforms
<1>1. BundleInv /\ RunInv /\ StateInv /\ PartInv /\ SafeInv
  BY DEF HolderInv, RecordsInv
<1>2. CASE problem' = problem /\ edits' = edits /\ recorded' = recorded
  BY <1>1, <1>2 DEF SafeInv
<1>3. CASE Withhold \/ Redact \/ CutWindow
  BY <1>2, <1>3 DEF Withhold, Redact, CutWindow, Held, found
<1>4. CASE Alter
  BY <1>4 DEF Alter, HolderInv, CountInv
<1>5. ASSUME UNCHANGED made PROVE Kept_OK /\ ~problem
  <2>1. edits' = edits /\ recorded' = recorded
    BY <1>5 DEF made
  <2> QED BY <1>1, <2>1 DEF Kept_OK, SafeInv
<1>6. CASE CheckClaim
  <2>1. /\ phase = "claims" /\ pos <= Len(bundle) /\ UNCHANGED made
        /\ problem' = (problem \/ (IsRecord(bundle[pos]) /\ ClaimFails(bundle, pos)))
    BY <1>6 DEF CheckClaim
  <2>2. pos \in DOMAIN bundle
    <3>1. DOMAIN bundle = 1 .. Len(bundle) /\ Len(bundle) \in Nat /\ pos \in Nat \ {0}
      BY <1>1, WindowPlaces DEF BundleInv, InWindow, RunInv, ListInv
    <3> QED BY <2>1, <3>1
  <2>3. Kept_OK /\ ~problem
    BY <1>5, <2>1
  <2>4. IsRecord(bundle[pos]) => ~ClaimFails(bundle, pos)
    BY <2>2, <2>3, ClaimStands
  <2> QED BY <2>1, <2>3, <2>4
<1>7. CASE RunDisagrees
  <2>1. phase = "runs" /\ pos <= Len(committed) /\ ~Agrees(committed[pos]) /\ UNCHANGED made
    BY <1>7 DEF RunDisagrees
  <2>2. PICK d \in Before(pos) : Drift(d, committed[pos])
    BY <1>1, <2>1, DisagreesWithOne DEF RunInv, WalkInv
  <2>3. PICK S : committed \in Seq(S)
    BY <1>1 DEF RunInv, ListInv
  <2>4. pos \in Nat \ {0} /\ DOMAIN committed = 1 .. Len(committed) /\ Len(committed) \in Nat
    BY <1>1, <2>3 DEF RunInv, ListInv
  <2>5. d \in Listed(committed) /\ committed[pos] \in Listed(committed)
    <3>1. pos \in DOMAIN committed /\ \A i \in 1 .. pos - 1 : i \in DOMAIN committed
      BY <2>1, <2>4
    <3> QED BY <3>1 DEF Before, Listed
  <2>6. ListsTo(Len(bundle)) /\ Kept_OK /\ Len(bundle) \in 0 .. Len(bundle)
    BY <1>1, <1>5, <2>1 DEF StateInv, BundleInv, InWindow
  <2> QED BY <2>2, <2>5, <2>6, NoneDrifts
<1>8. CASE CheckSpecs
  <2>1. /\ phase = "runs" /\ UNCHANGED made
        /\ problem' = (problem \/ (specs # << >> /\ ~OneSpec))
    BY <1>8 DEF CheckSpecs
  <2>2. ListsTo(Len(bundle)) /\ Kept_OK /\ ~problem
    BY <1>1, <1>5, <2>1 DEF StateInv
  <2>3. specs # << >> => OneSpec
    BY <2>2, OneSpecStands
  <2> QED BY <2>1, <2>2, <2>3
<1>9. CASE Deliver \/ LastClaim \/ CompareRun \/ Classify \/ Done \/ UNCHANGED vars
  BY <1>2, <1>9 DEF Deliver, LastClaim, CompareRun, Classify, Done, vars, made, found
<1> QED BY <1>3, <1>4, <1>6, <1>7, <1>8, <1>9 DEF Next, Check

LEMMA HolderAlways == Spec => []HolderInv
<1>1. Init => CountInv /\ PartInv /\ SafeInv
  <2> SUFFICES ASSUME Init PROVE CountInv /\ PartInv /\ SafeInv
    OBVIOUS
  <2>1. CountInv
    BY HolderAssumption DEF Init, CountInv
  <2>2. SafeInv
    BY DEF Init, SafeInv
  <2>3. ASSUME NEW i \in DOMAIN bundle PROVE Partly(bundle[i], Origin(i))
    <3>1. i \in Nat /\ from = 1 /\ bundle = recorded
      BY BundleInit, WindowPlaces DEF Init, BundleInv
    <3>2. Origin(i) = bundle[i]
      BY <3>1 DEF Origin
    <3> QED BY <3>2 DEF Partly, SameOn
  <2> QED BY <2>1, <2>2, <2>3 DEF PartInv
<1>2. HolderInv /\ [Next]_vars => CountInv' /\ PartInv' /\ SafeInv'
  BY CountKept, PartKept, SafeKept DEF HolderInv, RecordsInv
<1> QED BY <1>1, <1>2, RecordsAlways, PTL DEF Spec, HolderInv

-----------------------------------------------------------------------------
(* What stays unchecked. *)

\* A record whose check did not fail, of a form that can be confirmed, is settled
\* but for its spec.
LEMMA SettlesOwn ==
  ASSUME NEW b, NEW i, IsRecord(b[i]), ~ClaimFails(b, i),
         NEW m \in Members, Carries(b[i], m), m \in ReadOn(b[i].kind), m # "spec",
         b[i].kind = "outcome" => Form(b[i].digest) = "sha256e"
  PROVE  \E v : <<m, v>> \in ClaimStates(b, i)
<1> DEFINE c == b[i]
           own == {<<x, "checked">> : x \in Carried(c) \intersect {"body", "nonce"}}
<1>1. ~Carries(c, "variant") /\ m \in Carried(c)
  BY DEF ClaimFails, Carried
<1>2. c.kind \in {"decision", "correction"} \/ c.kind = "release" \/ c.kind = "outcome"
  BY DEF IsRecord, Records
<1>3. Confirmed(b, i) /\ (c.kind # "outcome" => ~ReasonFails(c))
  <2>1. CASE c.kind = "outcome"
    <3>1. ~OutcomeFails(b, i) /\ m \in {"body", "nonce"}
      BY <2>1, ReadOnIs DEF ClaimFails
    <3>2. Carries(c, "body")
      BY <3>1 DEF OutcomeFails
    <3>3. ExactHolds(c)
      BY <2>1, <3>1, <3>2 DEF OutcomeFails
    <3> QED BY <1>1, <2>1, <3>2, <3>3 DEF Confirmed
  <2>2. CASE c.kind # "outcome"
    <3>1. Discloses(c)
      BY <1>1 DEF Discloses
    <3>2. BodyHolds(b, i) /\ ~ReasonFails(c)
      BY <2>2, <3>1 DEF ClaimFails
    <3>3. Carries(c, "body")
      BY <3>2 DEF BodyHolds, Carries
    <3> QED BY <1>1, <2>2, <3>2, <3>3 DEF Confirmed
  <2> QED BY <2>1, <2>2
<1>4. OwnStates(b, i) = own \union (IF c.kind \in {"decision", "correction"} THEN ReasonStates(c) ELSE {})
  BY <1>1, <1>3 DEF OwnStates
<1>5. CASE m \in {"body", "nonce"}
  <2>1. <<m, "checked">> \in own
    BY <1>1, <1>5
  <2> HIDE DEF own
  <2> QED BY <1>4, <2>1, StatesAre
<1>6. CASE m \notin {"body", "nonce"}
  <2>1. c.kind \in {"decision", "correction"} /\ m \in Reason
    BY <1>2, <1>6, ReadOnIs
  <2>2. Commits(c) /\ ~ReasonFails(c)
    <3>1. c.kind # "release" /\ c.kind # "outcome" /\ Reason \intersect Carried(c) # {}
      BY <1>1, <2>1
    <3> QED BY <1>3, <3>1 DEF ReasonFails
  <2>3. ReasonStates(c) = {<<x, IF x = "redacted" THEN "redacted" ELSE "checked">> : x \in Reason \intersect Carried(c)}
    BY <2>2 DEF ReasonStates
  <2>4. <<m, IF m = "redacted" THEN "redacted" ELSE "checked">> \in ReasonStates(c)
    BY <1>1, <2>1, <2>3
  <2>5. <<m, IF m = "redacted" THEN "redacted" ELSE "checked">> \in OwnStates(b, i)
    BY <1>4, <2>1, <2>4
  <2> QED BY <2>5, StatesAre
<1> QED BY <1>5, <1>6

LEMMA InvSafe == HolderInv => WithholdingIsSafe
<1> SUFFICES ASSUME HolderInv, phase = "done", edits = 0, Conforms(recorded)
             PROVE  /\ ~problem
                    /\ \A s \in states :
                         s[3] = "unchecked" =>
                           \/ ~IsRecord(bundle[s[1]]) \/ s[2] \notin ReadOn(bundle[s[1]].kind)
                           \/ bundle[s[1]].kind = "outcome" /\ Form(bundle[s[1]].digest) # "sha256e"
                           \/ s[2] = "spec" /\ \A i \in DOMAIN bundle : ~Names(bundle, i)
  BY DEF WithholdingIsSafe
<1>1. ~problem
  BY DEF HolderInv, SafeInv
<1>2. /\ states = Base \union Left(Base) /\ NoneFails(Len(bundle)) /\ SpecAgrees
      /\ ListsTo(Len(bundle)) /\ Len(bundle) \in Nat /\ DOMAIN bundle = 1 .. Len(bundle)
  BY <1>1, PassesMeans DEF HolderInv, Passes
<1>3. ASSUME NEW s \in states, s[3] = "unchecked",
             IsRecord(bundle[s[1]]), s[2] \in ReadOn(bundle[s[1]].kind),
             bundle[s[1]].kind = "outcome" => Form(bundle[s[1]].digest) = "sha256e"
      PROVE  s[2] = "spec" /\ \A i \in DOMAIN bundle : ~Names(bundle, i)
  <2> DEFINE i == s[1]
             m == s[2]
             c == bundle[i]
  <2>1. CASE s \in SettledTo(Len(bundle))
    <3>1. i \in DOMAIN bundle /\ <<m, "unchecked">> \in ClaimStates(bundle, i)
      BY <1>2, <1>3, <2>1, SettledShape
    <3>2. <<m, "unchecked">> \notin Elsewhere(c)
      <4>1. <<m, "unchecked">> \in Elsewhere(c) => <<m, "unchecked">>[1] \notin ReadOn(c.kind)
        BY ElsewhereShape
      <4> QED BY <1>3, <4>1
    <3>3. <<m, "unchecked">> \in OwnStates(bundle, i)
      BY <3>1, <3>2, StatesAre
    <3>4. ~Confirmed(bundle, i)
      <4>1. <<m, "unchecked">> = <<m, IF ~Confirmed(bundle, i) THEN "unchecked"
                                    ELSE IF m = "redacted" THEN "redacted" ELSE "checked">>
        BY <3>3, OwnShape
      <4>2. "unchecked" = IF ~Confirmed(bundle, i) THEN "unchecked"
                          ELSE IF m = "redacted" THEN "redacted" ELSE "checked"
        BY <4>1
      <4> QED BY <4>2
    <3>5. c.kind = "outcome" /\ OutcomeUnchecked(bundle, i)
      BY <3>3, <3>4 DEF OwnStates
    <3> QED BY <1>3, <3>5 DEF OutcomeUnchecked
  <2>2. CASE s \in SpecStates
    <3>1. m = "spec" /\ committed = << >>
      BY <1>3, <2>2, SpecShape
    <3>2. Listed(committed) = {}
      BY <3>1 DEF Listed
    <3> QED BY <1>2, <3>1, <3>2 DEF ListsTo
  <2>3. CASE s \in Left(Base)
    <3>1. /\ i \in DOMAIN bundle /\ m \in Members /\ Carries(c, m)
          /\ ~\E u \in Base : u[1] = i /\ u[2] = m
      BY <2>3, LeftShape
    <3>2. ~ClaimFails(bundle, i)
      BY <1>2, <1>3, <3>1 DEF NoneFails
    <3>3. m = "spec"
      <4>1. SUFFICES ASSUME m # "spec" PROVE FALSE
        OBVIOUS
      <4>2. PICK v : <<m, v>> \in ClaimStates(bundle, i)
        BY <1>3, <3>1, <3>2, <4>1, SettlesOwn
      <4> HIDE DEF i, m
      <4>3. <<i, m, v>> \in Base
        BY <1>2, <3>1, <4>2, SettledHas DEF Base
      <4>4. <<i, m, v>>[1] = i /\ <<i, m, v>>[2] = m
        OBVIOUS
      <4> QED BY <3>1, <4>3, <4>4
    <3>4. c.kind = "outcome"
      <4>1. "spec" \notin Reason /\ "spec" \notin {"body", "nonce"}
        BY DEF Reason
      <4>2. c.kind \in {"decision", "correction"} \/ c.kind = "release" \/ c.kind = "outcome"
        BY <1>3 DEF IsRecord, Records
      <4> QED BY <1>3, <3>3, <4>1, <4>2, ReadOnIs
    <3>5. ShowsSpec(bundle, i)
      BY <1>3, <3>1, <3>2, <3>3, <3>4 DEF ShowsSpec, ClaimFails, Carries
    <3>6. PICK k \in DOMAIN specs : specs[k] = i
      <4>1. i \in Listed(specs)
        BY <1>2, <3>1, <3>5 DEF ListsTo
      <4> QED BY <4>1 DEF Listed
    <3>7. specs # << >> /\ OneSpec
      BY <1>2, <3>6 DEF SpecAgrees
    <3> DEFINE v == IF committed = << >> THEN "unchecked" ELSE "checked"
    <3> HIDE DEF i, m, v
    <3>8. <<i, m, v>> \in SpecStates
      BY <3>3, <3>6, <3>7 DEF SpecStates, v
    <3>9. <<i, m, v>> \in Base /\ <<i, m, v>>[1] = i /\ <<i, m, v>>[2] = m
      BY <3>8 DEF Base
    <3> QED BY <3>1, <3>9
  <2> QED BY <1>2, <2>1, <2>2, <2>3 DEF Base
<1> QED BY <1>1, <1>3

\* From a conforming log, any window with any records, reasons and specs left out
\* or reasons marked redacted passes the record checks, and what is then unchecked
\* no digest could have confirmed (records.go and members.go).
THEOREM WithholdingNeverCosts == Spec => []WithholdingIsSafe
  BY HolderAlways, InvSafe, PTL
=============================================================================
