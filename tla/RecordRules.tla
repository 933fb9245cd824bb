---------------------------- MODULE RecordRules -----------------------------
(***************************************************************************)
(* The rules one switchtender.audit/1 claim's disclosed record is held to  *)
(* (internal/verify/records.go, members.go).                               *)
(*                                                                         *)
(* A claim has what its link commits: kind, the record its method and path *)
(* make it, run, the run its path names, and digest, its content_digest;   *)
(* and it has members beside the link, each a value or Absent.  body and   *)
(* nonce stand for the two members of the claim's own kind.  stray is a    *)
(* record member of another kind, variant a name differing from a read one *)
(* in case only.  Hashes are ideal: a digest is the tuple of its form and  *)
(* of what was hashed, so it tells everything hashed apart.                *)
(***************************************************************************)
EXTENDS Naturals, Sequences, FiniteSetsExt

CONSTANTS
  Absent,   \* a member the claim does not carry
  Empty,    \* the empty string
  Bad       \* a value of another JSON type, or not of the form asked for

ASSUME NoValueAssumption ==
  /\ Absent # Empty /\ Absent # Bad /\ Empty # Bad
  /\ "category" \notin {Absent, Empty, Bad}

Records == {"decision", "correction", "release", "outcome"}
Reason == {"text", "random", "redacted"}
Members == {"body", "nonce", "spec", "stray", "variant"} \union Reason

\* recordMembers: the members a record of the kind is read for.
ReadOn(kind) ==
  CASE kind \in {"decision", "correction"} -> {"body", "nonce"} \union Reason
    [] kind = "release" -> {"body", "nonce"}
    [] kind = "outcome" -> {"body", "nonce", "spec"}
    [] OTHER -> {}

Carries(c, m) == c.m[m] # Absent
Carried(c) == {m \in Members : Carries(c, m)}

\* The member one travels with; alone, it counts as a record of its own.
Companion(m) == CASE m = "nonce" -> "body" [] m = "random" -> "text" [] OTHER -> ""
FaultyAlone(c, m) == Companion(m) = ""
Alone(c, m) == Companion(m) = "" \/ ~Carries(c, Companion(m))

Form(d) == IF d = Empty THEN "none" ELSE d[1]
KeyedForms == {"sha256s", "sha256e"}

\* The first claim of the type in the keyed or the exact form, 0 when none is.
FirstKeyed(b) ==
  LET k == {i \in DOMAIN b : b[i].type = "audit" /\ Form(b[i].digest) \in KeyedForms}
  IN  IF k = {} THEN 0 ELSE Min(k)

FaultyTooOld(b, i) == Form(b[i].digest) = "sha256" /\ i > 1 /\ Form(b[i - 1].digest) \in KeyedForms
TooOld(b, i) ==
  Form(b[i].digest) = "sha256" /\ FirstKeyed(b) > 0 /\ FirstKeyed(b) < i

(***************************************************************************)
(* recordDigestProblem and exactDigestProblem: a body reproduces what its  *)
(* entry committed, under one of the forms open to it.                     *)
(***************************************************************************)
FaultyKeyedHolds(c) == Form(c.digest) = "sha256s" /\ c.m.nonce \notin {Absent, Empty, Bad}
                         /\ c.digest[3] = c.m.body
KeyedHolds(c) == c.digest = <<"sha256s", c.m.nonce, c.m.body>>
LegacyHolds(b, i) ==
  /\ ~TooOld(b, i)
  /\ b[i].m.nonce \in {Absent, Empty}
  /\ b[i].digest = <<"sha256", b[i].m.body>>
ExactHolds(c) ==
  c.digest # Empty /\ c.m.body # Bad /\ c.digest = <<"sha256e", c.m.nonce, c.m.body>>

BodyHolds(b, i) ==
  /\ b[i].digest # Empty /\ b[i].m.body \notin {Absent, Bad}
  /\ KeyedHolds(b[i]) \/ LegacyHolds(b, i)

(***************************************************************************)
(* checkReason.  A commitment is Absent, Empty, Bad, or the tuple of the   *)
(* event, the random value and the text it opens to.                       *)
(***************************************************************************)
ReasonOpens(c) ==
  c.m.body.commit = <<c.m.body.event, c.m.random, c.m.text>>

Commits(c) == c.m.body.commit \notin {Absent, Empty}

ReasonFails(c) ==
  LET shown == Reason \intersect Carried(c) IN
  \/ c.kind = "release" /\ (c.m.body.commit # Absent \/ shown # {})
  \/ /\ c.kind # "release"
     /\ \/ c.m.body.commit = Bad
        \/ ~Commits(c) /\ (c.kind = "correction" \/ shown # {})
        \/ Commits(c) /\ c.m.body.event = Empty
        \/ Commits(c) /\ "redacted" \in shown
             /\ (c.m.redacted \in {Empty, Bad} \/ shown # {"redacted"})
        \/ Commits(c) /\ "redacted" \notin shown /\ shown # {} /\ ~ReasonOpens(c)

\* The members of a reason that stand after the check, and how.
ReasonStates(c) ==
  IF ~Commits(c) \/ ReasonFails(c) THEN {}
  ELSE {<<m, IF m = "redacted" THEN "redacted" ELSE "checked">> :
          m \in Reason \intersect Carried(c)}

(***************************************************************************)
(* A whole claim.                                                          *)
(***************************************************************************)
IsRecord(c) == c.type = "audit" /\ c.kind \in Records

\* settleElsewhere: a record member on a claim that is not its record.
FaultyElsewhere(c) ==
  IF c.type # "audit" THEN {} ELSE {<<m, "unchecked">> : m \in Carried(c) \ {"variant"}}
Elsewhere(c) ==
  IF c.type # "audit" THEN {}
  ELSE {<<m, "unchecked">> : m \in (Carried(c) \ {"variant"}) \ ReadOn(c.kind)}

FaultyDiscloses(c) == c.digest # Empty
Discloses(c) == Carried(c) \intersect ReadOn(c.kind) # {}

\* checkOutcome: an older form over the producer's own redaction is carried.
OutcomeFails(b, i) ==
  LET c == b[i] IN
  \/ ~Carries(c, "body") /\ Carries(c, "nonce")
  \/ Carries(c, "body") /\ (c.digest = Empty \/ TooOld(b, i))
  \/ Carries(c, "body") /\ Form(c.digest) = "sha256e" /\ ~ExactHolds(c)

OutcomeUnchecked(b, i) ==
  Carries(b[i], "body") /\ ~OutcomeFails(b, i) /\ Form(b[i].digest) # "sha256e"

ClaimFails(b, i) ==
  LET c == b[i] IN
  \/ Carries(c, "variant")
  \/ c.kind = "outcome" /\ (OutcomeFails(b, i) \/ c.m.spec = Bad)
  \/ c.kind # "outcome" /\ Discloses(c) /\ (BodyHolds(b, i) => ReasonFails(c))

\* A record whose body its entry's digest confirmed.
Confirmed(b, i) ==
  /\ IsRecord(b[i]) /\ ~Carries(b[i], "variant") /\ Carries(b[i], "body")
  /\ IF b[i].kind = "outcome" THEN ExactHolds(b[i]) ELSE BodyHolds(b, i)

\* What the check of claim i settles about its members, the spec aside.
ClaimStates(b, i) ==
  LET c == b[i] IN
  Elsewhere(c) \union
  (IF ~IsRecord(c) \/ Carries(c, "variant") THEN {}
   ELSE IF Confirmed(b, i)
     THEN {<<m, "checked">> : m \in Carried(c) \intersect {"body", "nonce"}}
          \union (IF c.kind \in {"decision", "correction"} THEN ReasonStates(c) ELSE {})
   ELSE IF c.kind = "outcome" /\ OutcomeUnchecked(b, i)
     THEN {<<m, "unchecked">> : m \in Carried(c) \intersect {"body", "nonce"}}
   ELSE {})

\* outcomeSpec and checkRecordClaim's result: what a confirmed record names.  An
\* outcome nested past maxOutcomeDepth, or that is no such object, names nothing
\* at all; a decision that names no digest names the empty one.
Names(b, i) ==
  /\ Confirmed(b, i)
  /\ \/ b[i].kind = "decision"
     \/ b[i].kind = "outcome" /\ b[i].m.body.readable
Named(b, i) ==
  [claim |-> i, kind |-> b[i].kind, digest |-> b[i].m.body.spec,
   run |-> IF b[i].kind = "decision" THEN b[i].m.body.run ELSE b[i].run]

ShowsSpec(b, i) ==
  /\ IsRecord(b[i]) /\ b[i].kind = "outcome" /\ ~Carries(b[i], "variant")
  /\ b[i].m.spec \notin {Absent, Bad}
=============================================================================
