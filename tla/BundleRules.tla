---------------------------- MODULE BundleRules -----------------------------
(***************************************************************************)
(* What verify.Run and verify.RunPresentation decide of a document that is *)
(* not its records: the order it is read in, whose signature it bears,     *)
(* whose installation it speaks for, who counter-signed it, which fields   *)
(* it discloses, and to whom and for which challenge it is presented.  Its *)
(* chain, anchors, spans and records are the other modules' subject and    *)
(* are taken to hold here.                                                 *)
(*                                                                         *)
(* A signature is the record of who made it over what, a digest the tuple  *)
(* of what was hashed: neither has two preimages.  A bundle has one claim, *)
(* which is its head, so that only the domain tags keep apart what is      *)
(* signed of the two.                                                      *)
(***************************************************************************)
EXTENDS Integers, Sequences, FiniteSetsExt, SequencesExt

CONSTANTS
  None,         \* no option, no time, no binding
  Empty,        \* an option supplied as the empty string
  Installs,     \* installation ids
  MintedFrom    \* the key an id was minted from, None for an id of another form

ASSUME InstallsAssumption == None \notin Installs

Version == "0.1"
KeyID(k) == <<"sha256", k>>
Signed(k, msg) == [by |-> k, over |-> msg]
Verifies(k, msg, sig) == sig = Signed(k, msg)

(***************************************************************************)
(* A bundle: content is what CanonicalUnsigned leaves, the rest is what    *)
(* StripUnsigned drops.  fault names a rule of the reader it breaks.       *)
(***************************************************************************)
FaultyCanonicalUnsigned(b) == [tag |-> "bundle", content |-> b.content, shown |-> b.shown]
CanonicalUnsigned(b) == [tag |-> "bundle", content |-> b.content]

Entry(k, content) ==
  [keyId |-> KeyID(k), alg |-> "ed25519", sig |-> Signed(k, [tag |-> "bundle", content |-> content])]

\* SignBundle replaces every signature and keeps what it does not cover.
FaultySignBundle(b, k) == [b EXCEPT !.sigs = Append(@, Entry(k, b.content))]
SignBundle(b, k) == [b EXCEPT !.sigs = <<Entry(k, b.content)>>]

Tree(b) == b.content.profile \in {"v1", "merkle"}
Chained(b) == Tree(b) \/ b.content.profile = "switchtender"

\* The rules of bundle.Parse that decide between its two refusals, in its order.
ParseRules(b) ==
  << <<b.version # None, "parse">>,
     <<b.version = Version, "unsupported">>,
     <<b.fault \notin {"number", "member", "producer"}, "parse">>,
     <<b.content.profile # "unknown", "unsupported">>,
     <<b.fault # "claim", "parse">>,
     <<Len(b.sigs) > 0, "parse">>,
     <<\A i \in DOMAIN b.sigs : b.sigs[i].alg = "ed25519", "unsupported">> >>

First(rules) ==
  LET broken == {i \in DOMAIN rules : ~rules[i][1]}
  IN  IF broken = {} THEN "read" ELSE rules[Min(broken)][2]

Parse(b) == First(ParseRules(b))

(***************************************************************************)
(* checkSignature: every entry names the producer's key, one verifies.     *)
(***************************************************************************)
FaultyNoRider(b) ==
  \E n \in DOMAIN b.sigs :
    /\ Verifies(b.content.key, CanonicalUnsigned(b), b.sigs[n].sig)
    /\ \A i \in 1 .. n : b.sigs[i].keyId = b.content.keyId
NoRider(b) == \A i \in DOMAIN b.sigs : b.sigs[i].keyId = b.content.keyId

SignatureOK(b) ==
  /\ b.content.keyId = KeyID(b.content.key)
  /\ NoRider(b)
  /\ \E i \in DOMAIN b.sigs : Verifies(b.content.key, CanonicalUnsigned(b), b.sigs[i].sig)

PinMatches(b, o) == o.pin = KeyID(b.content.key)

\* checkInstallKey.
Minted(b) == MintedFrom[b.content.install] = b.content.key
FaultyAccepted(b, o) == o.accept = b.content.install \/ PinMatches(b, o)
Accepted(b, o) == o.accept = b.content.install /\ PinMatches(b, o)

InstallHolds(b, o) ==
  /\ o.accept = None \/ (o.pin # None /\ o.accept = b.content.install)
  /\ \/ ~SignatureOK(b) \/ b.content.profile # "switchtender"
     \/ MintedFrom[b.content.install] = None
     \/ Minted(b) \/ Accepted(b, o)

(***************************************************************************)
(* checkAttestations and checkHeadAttestations.                            *)
(***************************************************************************)
ClaimInput(b, a) == [tag |-> "attestation/1", link |-> b.content.link, role |-> a.role, at |-> a.at]
FaultyHeadInput(b, a) == ClaimInput(b, a)
HeadInput(b, a) ==
  [tag |-> "head-attestation/1", link |-> b.content.link, seq |-> 1, role |-> a.role, at |-> a.at]

CounterSigns(b, a, input, o) ==
  /\ a.keyId = KeyID(a.key) /\ a.role # Empty
  /\ Verifies(a.key, input, a.sig)
  /\ o.attestors = {} \/ a.keyId \in o.attestors

AttestationsHold(b, o) ==
  /\ \A a \in b.claimAtts : Chained(b) /\ CounterSigns(b, a, ClaimInput(b, a), o)
  /\ \A a \in b.headAtts : Chained(b) /\ CounterSigns(b, a, HeadInput(b, a), o)

\* checkDisclosures: each is of the committed set, and none is shown twice.
Digest(d) == <<"sha256", d>>
DisclosuresHold(b) ==
  (b.content.fields # {} \/ b.shown # << >>) =>
    /\ Tree(b)
    /\ \A i \in DOMAIN b.shown : Digest(b.shown[i]) \in b.content.fields
    /\ IsInjective(b.shown)

(***************************************************************************)
(* Run.                                                                    *)
(***************************************************************************)
Holds(b, o) ==
  /\ SignatureOK(b)
  /\ o.pin = None \/ PinMatches(b, o)
  /\ InstallHolds(b, o) /\ DisclosuresHold(b) /\ AttestationsHold(b, o)

Run(b, o) ==
  [unsupported |-> Parse(b) = "unsupported", ok |-> Parse(b) = "read" /\ Holds(b, o)]

(***************************************************************************)
(* A presentation, as seal.Present makes it and RunPresentation checks it. *)
(***************************************************************************)
FaultyPresentationInput(p) ==
  [tag |-> "presentation/1", audience |-> p.audience, nonce |-> Empty, at |-> p.at, bundle |-> p.bundle]
PresentationInput(p) ==
  [tag |-> "presentation/1", audience |-> p.audience, nonce |-> p.nonce, at |-> p.at, bundle |-> p.bundle]

Present(b, holder, audience, nonce, at) ==
  LET p == [version |-> Version, audience |-> audience, nonce |-> nonce, at |-> at,
            key |-> holder, keyId |-> KeyID(holder), alg |-> "ed25519", fault |-> "none",
            bundle |-> b, sig |-> None]
  IN  [p EXCEPT !.sig = Signed(holder, PresentationInput(p))]

\* reduceDisclosures: the named ones stay, in their order, of a claim that has any.
InOrder(K) ==
  CHOOSE f \in [1 .. Cardinality(K) -> K] : \A i, j \in DOMAIN f : i < j => f[i] < f[j]
Chosen(s, keep) ==
  LET at == InOrder({i \in DOMAIN s : s[i].name \in keep})
  IN  [i \in DOMAIN at |-> s[at[i]]]
ReduceDisclosures(b, keep) == [b EXCEPT !.shown = Chosen(@, keep)]

ReadPresentation(p) ==
  IF p.version # Version THEN "unsupported" ELSE IF p.fault # "none" THEN "parse" ELSE "read"

HolderSigned(p) ==
  /\ p.alg = "ed25519" /\ p.keyId = KeyID(p.key) /\ p.at # None
  /\ Verifies(p.key, PresentationInput(p), p.sig)

FaultyExpectationsHold(p, o) == o.nonce = None \/ p.nonce = o.nonce
ExpectationsHold(p, o) ==
  /\ o.audience = None \/ p.audience = o.audience
  /\ o.nonce = None \/ p.nonce = o.nonce

RunPresentation(p, o) ==
  LET read == ReadPresentation(p)
  IN  [unsupported |-> read = "unsupported",
       ok |-> /\ read = "read"
              /\ HolderSigned(p) /\ ExpectationsHold(p, o)
              /\ Run(p.bundle, o).ok]

(***************************************************************************)
(* runVerify: a pin or an expectation supplied empty is a usage error.     *)
(***************************************************************************)
Code(r) == IF r.ok THEN 0 ELSE IF r.unsupported THEN 3 ELSE 1

Usage(o) == o.pin # Empty /\ o.audience # Empty /\ o.nonce # Empty

\* A presentation that declares no version is read as a bundle, which has none.
LooksLikePresentation(f) == f.kind = "presentation" /\ f.doc.version # None

RunVerify(f, o) ==
  IF ~Usage(o) THEN 2
  ELSE IF LooksLikePresentation(f) THEN Code(RunPresentation(f.doc, o))
  ELSE IF f.kind = "bundle" THEN Code(Run(f.doc, o)) ELSE 1
=============================================================================
