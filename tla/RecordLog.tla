----------------------------- MODULE RecordLog ------------------------------
(***************************************************************************)
(* checkRecords over a bundle of switchtender.audit/1 claims, as a walk    *)
(* from claim to claim and from committed spec to committed spec, and what *)
(* may become of the records between the producer and the verifier.        *)
(*                                                                         *)
(* The producer's entries are fixed and, so it is assumed, anchored: what  *)
(* the links commit stays as recorded.  A holder withholds records and     *)
(* reasons and cuts the window; whoever holds the producer's key may also  *)
(* change any member beside the links and sign again.                      *)
(***************************************************************************)
EXTENDS RecordRules

CONSTANTS
  Logs,        \* the logs a producer may have recorded, in full disclosure
  Values,      \* for each member, the other values it may be given
  MaxHolder,   \* bound: what the holder does
  MaxEdits     \* bound: members changed by the key's holder

(***************************************************************************)
(* A claim in full disclosure: its digest is that of the body beside it,   *)
(* and a decision's or a correction's commitment that of the reason.  What *)
(* a digest of an older form says of an outcome is the producer's own.     *)
(***************************************************************************)
InFull(c) ==
  /\ c = [type |-> c.type, kind |-> c.kind, run |-> c.run, digest |-> c.digest, m |-> c.m]
  /\ c.m = [x \in Members |-> c.m[x]]
  /\ c.kind \in {"decision", "correction", "release"} /\ c.digest # Empty =>
       \/ c.digest = <<"sha256s", c.m.nonce, c.m.body>>
       \/ c.digest = <<"sha256", c.m.body>> /\ c.m.nonce = Absent
  /\ c.kind = "outcome" /\ Form(c.digest) = "sha256e" =>
       c.digest = <<"sha256e", c.m.nonce, c.m.body>>
  /\ c.kind \in {"decision", "correction"} /\ c.m.body.commit \notin {Absent, Empty, Bad} =>
       c.m.body.commit = <<c.m.body.event, c.m.random, c.m.text>>

ASSUME RecordedAssumption ==
  \A l \in Logs :
    /\ Len(l) \in Nat \ {0} /\ l = [i \in 1 .. Len(l) |-> l[i]]
    /\ \A i \in 1 .. Len(l) : InFull(l[i])

ASSUME HolderAssumption == MaxHolder \in Nat /\ MaxEdits \in Nat

VARIABLES
  recorded,    \* the log
  bundle,      \* the claims of the bundle
  from,        \* the recorded entry the bundle opens with
  withheld,    \* steps of the holder
  edits,       \* members changed
  phase, pos,
  problem,     \* some check has failed
  states,      \* <<claim, member, state>>, as settled or classified
  specs,       \* the claims whose spec is disclosed, in order
  committed,   \* the digests confirmed records name, in order
  seen         \* runSpecsAgree's map: run and kind, the digests so far

made == <<recorded, bundle, from, withheld, edits>>
found == <<problem, states, specs, committed, seen>>
vars == <<recorded, bundle, from, withheld, edits, phase, pos,
          problem, states, specs, committed, seen>>

Init ==
  /\ recorded \in Logs /\ bundle = recorded /\ from = 1
  /\ withheld = 0 /\ edits = 0 /\ phase = "open" /\ pos = 1
  /\ problem = FALSE /\ states = {} /\ specs = << >> /\ committed = << >> /\ seen = {}

(***************************************************************************)
(* The holder, and whoever holds the key.                                  *)
(***************************************************************************)
Held == phase = "open" /\ withheld < MaxHolder /\ withheld' = withheld + 1
          /\ UNCHANGED <<recorded, edits, phase, pos, found>>

Without(i, ms) == [bundle EXCEPT ![i].m = [m \in Members |-> IF m \in ms THEN Absent ELSE @[m]]]

\* A record goes with its nonce and its reason, an outcome or a spec by itself,
\* a reason with its random value.
Units(c) ==
  CASE c.kind \in {"decision", "correction"} -> {{"body", "nonce"} \union Reason, Reason}
    [] c.kind \in {"release", "outcome"} -> {{"body", "nonce"}, {"spec"}}
    [] OTHER -> {{"stray"}}
Withhold ==
  /\ Held
  /\ \E i \in DOMAIN bundle : \E ms \in Units(bundle[i]) : bundle' = Without(i, ms)
  /\ UNCHANGED from

\* The text and its random value make way for a category.
Redact ==
  /\ Held
  /\ \E i \in DOMAIN bundle :
       /\ Carries(bundle[i], "text")
       /\ bundle' = [Without(i, Reason) EXCEPT ![i].m.redacted = "category"]
  /\ UNCHANGED from

CutWindow ==
  /\ Held
  /\ \E a \in DOMAIN bundle : \E z \in a .. Len(bundle) :
       bundle' = SubSeq(bundle, a, z) /\ from' = from + a - 1

\* Any member beside the link is given another value, or the claim another type.
Alter ==
  /\ phase = "open" /\ edits < MaxEdits /\ edits' = edits + 1
  /\ \E i \in DOMAIN bundle :
       \/ \E m \in Members : \E v \in (Values[m] \union {Absent}) \ {bundle[i].m[m]} :
            bundle' = [bundle EXCEPT ![i].m[m] = v]
       \/ bundle' = [bundle EXCEPT ![i].type = "other"]
  /\ UNCHANGED <<recorded, from, withheld, phase, pos, found>>

Deliver ==
  /\ phase = "open" /\ phase' = "claims"
  /\ UNCHANGED <<made, pos, found>>

(***************************************************************************)
(* checkRecords.                                                           *)
(***************************************************************************)
Settled(i) == {<<i, s[1], s[2]>> : s \in ClaimStates(bundle, i)}

\* One turn of the loop over the claims: a problem never ends it.
CheckClaim ==
  /\ phase = "claims" /\ pos <= Len(bundle)
  /\ problem' = (problem \/ (IsRecord(bundle[pos]) /\ ClaimFails(bundle, pos)))
  /\ states' = states \union Settled(pos)
  /\ specs' = IF ShowsSpec(bundle, pos) THEN Append(specs, pos) ELSE specs
  /\ committed' = IF Names(bundle, pos) THEN Append(committed, Named(bundle, pos)) ELSE committed
  /\ pos' = pos + 1
  /\ UNCHANGED <<made, phase, seen>>

LastClaim ==
  /\ phase = "claims" /\ pos > Len(bundle)
  /\ phase' = "runs" /\ pos' = 1
  /\ UNCHANGED <<made, found>>

\* One turn of runSpecsAgree.  Where its own kind was seen before, the first of
\* the other kind stands for all of them.
Comparable(c) == c.run # Empty /\ c.digest # Empty
Other(kind) == IF kind = "outcome" THEN "decision" ELSE "outcome"
Seen(run, kind) == {s \in seen : s.run = run /\ s.kind = kind}
FaultyAgainst(c) ==
  IF Seen(c.run, c.kind) # {} THEN {} ELSE Seen(c.run, Other(c.kind))
Against(c) ==
  LET other == Seen(c.run, Other(c.kind))
  IN  IF Seen(c.run, c.kind) # {} /\ other # {}
        THEN {CHOOSE s \in other : \A t \in other : s.claim <= t.claim}
        ELSE other

Agrees(c) == Comparable(c) => \A s \in Against(c) : s.digest = c.digest

CompareRun ==
  /\ phase = "runs" /\ pos <= Len(committed) /\ Agrees(committed[pos])
  /\ seen' = seen \union {c \in {committed[pos]} : Comparable(c)}
  /\ pos' = pos + 1
  /\ UNCHANGED <<made, phase, problem, states, specs, committed>>

RunDisagrees ==
  /\ phase = "runs" /\ pos <= Len(committed) /\ ~Agrees(committed[pos])
  /\ problem' = TRUE /\ phase' = "done"
  /\ UNCHANGED <<made, pos, states, specs, committed, seen>>

\* The rest of checkSpecs: one spec, named by every confirmed record.
SpecOf(i) == bundle[i].m.spec
OneSpec ==
  /\ \A k \in DOMAIN specs : SpecOf(specs[k]) = SpecOf(specs[1])
  /\ \A k \in DOMAIN committed : committed[k].digest = SpecOf(specs[1])

CheckSpecs ==
  /\ phase = "runs" /\ pos > Len(committed)
  /\ problem' = (problem \/ (specs # << >> /\ ~OneSpec))
  /\ states' = IF specs = << >> \/ ~OneSpec THEN states
               ELSE states \union
                      {<<specs[k], "spec", IF committed = << >> THEN "unchecked" ELSE "checked">> :
                         k \in DOMAIN specs}
  /\ phase' = IF problem' THEN "done" ELSE "classify"
  /\ UNCHANGED <<made, pos, specs, committed, seen>>

\* classifyDisclosed: what no check settled is unchecked.
Classify ==
  /\ phase = "classify"
  /\ states' = states \union
       {s \in (DOMAIN bundle) \X Members \X {"unchecked"} :
          Carries(bundle[s[1]], s[2]) /\ ~\E t \in states : t[1] = s[1] /\ t[2] = s[2]}
  /\ phase' = "done"
  /\ UNCHANGED <<made, pos, problem, specs, committed, seen>>

Check == CheckClaim \/ LastClaim \/ CompareRun \/ RunDisagrees \/ CheckSpecs \/ Classify

Done == phase = "done" /\ UNCHANGED vars

Next == Withhold \/ Redact \/ CutWindow \/ Alter \/ Deliver \/ Check \/ Done

Spec == Init /\ [][Next]_vars

-----------------------------------------------------------------------------
(***************************************************************************)
(* Properties.                                                             *)
(***************************************************************************)

\* Every variable has its type, and a member is in one state at most.
TypeOK ==
  /\ recorded \in Logs
  /\ Len(bundle) \in 1 .. Len(recorded) /\ from \in 1 .. Len(recorded)
  /\ withheld \in 0 .. MaxHolder /\ edits \in 0 .. MaxEdits
  /\ phase \in {"open", "claims", "runs", "classify", "done"}
  /\ pos \in 1 .. Len(bundle) + 1 /\ problem \in BOOLEAN
  /\ states \subseteq (DOMAIN bundle) \X Members \X {"checked", "unchecked", "redacted"}
  /\ \A s, t \in states : s[1] = t[1] /\ s[2] = t[2] => s = t
  /\ \A k \in DOMAIN specs : specs[k] \in DOMAIN bundle
  /\ Len(committed) <= Len(bundle) /\ seen \subseteq {committed[k] : k \in DOMAIN committed}

Passes == phase = "done" /\ ~problem

\* The entry of the log claim i of the bundle is.
Origin(i) == recorded[from + i - 1]

\* What is reported as checked is what the entry committed, whoever altered and
\* signed the bundle: a body, a nonce, a reason and its random value read as
\* recorded, save that a legacy body's nonce may be empty or missing, and a
\* disclosed spec is the one every confirmed record names.
CheckedIsRecorded ==
  Passes =>
    \A s \in states : s[3] = "checked" =>
      IF s[2] = "spec"
        THEN /\ \E i \in DOMAIN bundle : Names(bundle, i)
             /\ \A i \in DOMAIN bundle :
                  Names(bundle, i) => Origin(i).m.body.spec = bundle[s[1]].m.spec
        ELSE \/ bundle[s[1]].m[s[2]] = Origin(s[1]).m[s[2]]
             \/ s[2] = "nonce" /\ bundle[s[1]].m.nonce = Empty /\ Origin(s[1]).m.nonce = Absent

\* A producer that conforms: keyed from the first keyed digest on, one spec to a
\* run, and at most one spec disclosed, every record naming it.
Conforms(l) ==
  /\ \A i \in DOMAIN l : ~TooOld(l, i)
  /\ LET n == {i \in DOMAIN l : Names(l, i)} IN
       /\ \A i, j \in n : Named(l, i).run = Named(l, j).run =>
                             Named(l, i).digest = Named(l, j).digest
       /\ \A i \in DOMAIN l : ShowsSpec(l, i) =>
            \A j \in n \union {k \in DOMAIN l : ShowsSpec(l, k)} :
              l[i].m.spec = IF j \in n THEN l[j].m.body.spec ELSE l[j].m.spec
  /\ \A i \in DOMAIN l : IsRecord(l[i]) => ~ClaimFails(l, i)

\* Withholding never costs the verdict: from a conforming log any window, with
\* records, reasons and specs left out or reasons marked redacted, passes, and a
\* record stays unchecked only when no digest form could have confirmed it.
WithholdingIsSafe ==
  phase = "done" /\ edits = 0 /\ Conforms(recorded) =>
    /\ ~problem
    /\ \A s \in states :
         s[3] = "unchecked" =>
           \/ ~IsRecord(bundle[s[1]]) \/ s[2] \notin ReadOn(bundle[s[1]].kind)
           \/ bundle[s[1]].kind = "outcome" /\ Form(bundle[s[1]].digest) # "sha256e"
           \/ s[2] = "spec" /\ \A i \in DOMAIN bundle : ~Names(bundle, i)

\* Two records of one run, an approval and an execution, naming different specs.
Drift(c, d) ==
  /\ Comparable(c) /\ Comparable(d)
  /\ c.run = d.run /\ c.kind # d.kind /\ c.digest # d.digest

\* An approval of one spec beside an execution of another never gets past
\* runSpecsAgree, in whatever order the records of a run come and whether or not
\* the spec is disclosed; and runSpecsAgree stops for nothing else.
SpecDriftShows ==
  /\ phase \in {"classify", "done"} /\ pos > Len(committed) =>
       \A i, j \in DOMAIN committed : ~Drift(committed[i], committed[j])
  /\ phase = "done" /\ pos <= Len(committed) =>
       \E i \in 1 .. pos - 1 : Drift(committed[i], committed[pos])

\* A guessable body is accepted only before the keyed form began in the bundle:
\* where one is confirmed, no earlier claim of the type was recorded keyed,
\* whatever has come between them (firstKeyed).
GuessableOnlyBefore ==
  Passes =>
    \A i \in DOMAIN bundle : Confirmed(bundle, i) /\ Form(bundle[i].digest) = "sha256" =>
      \A j \in 1 .. i - 1 : bundle[j].type = "audit" => Form(Origin(j).digest) \notin KeyedForms

\* VERIFIED without a count of unchecked records means it: if no unchecked member
\* is counted, there is none (classifyDisclosed and the members that travel
\* together).
NothingUncounted ==
  Passes /\ (\A s \in states : s[3] = "unchecked" => ~Alone(bundle[s[1]], s[2])) =>
    \A s \in states : s[3] # "unchecked"
=============================================================================
