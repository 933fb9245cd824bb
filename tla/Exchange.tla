------------------------------ MODULE Exchange ------------------------------
(***************************************************************************)
(* A sealed bundle on its way: producers seal it, attestors counter-sign   *)
(* it, its holder presents parts of it to verifiers who issued challenges, *)
(* and third parties rearrange whatever is not covered by a signature.     *)
(* What was sent stays in the mail: an answer may arrive late, twice, or   *)
(* at another verifier.  A verifier is one run of the command, which keeps *)
(* nothing from one run to the next.                                       *)
(***************************************************************************)
EXTENDS BundleRules

CONSTANTS
  Starts,       \* what the first sealed bundle may hold
  Producers, Holders, Attestors,     \* keys
  Stranger,     \* the key of a third party
  Rightful,     \* installation id -> the keys that came to speak for it
  Verifiers, Nonces,
  Options,      \* what a verifier may be run with
  MaxActs       \* bound: answers, counter-signatures and edits, together

\* None is nobody's key, and the stranger's is no other's.
ASSUME KeysAssumption ==
  /\ Stranger \notin Producers \union Holders \union Attestors /\ None \notin Producers
  /\ \A k \in Producers : KeyID(k) \notin {None, Empty}

\* What a producer writes is not what a reader takes for a member left out.
ASSUME WrittenAssumption == None \notin {Version, "now"} /\ Empty # "approver"

ASSUME BoundAssumption == MaxActs \in Nat

\* A bundle as its producer seals it, before anyone counter-signs it.
Sealed(s) ==
  [version |-> Version, fault |-> "none", content |-> s.content,
   sigs |-> <<Entry(s.content.key, s.content)>>, shown |-> s.shown, claimAtts |-> {}, headAtts |-> {}]

\* It names its producer's key, and shows what its content commits to.
ASSUME StartsAssumption ==
  \A s \in Starts :
    /\ {"key", "keyId", "install", "profile", "link", "fields"} \subseteq DOMAIN s.content
    /\ s.content.key \in Producers /\ s.content.keyId = KeyID(s.content.key)
    /\ s.content.install \in Installs /\ s.content.profile # "unknown"
    /\ s.shown \in Seq(ToSet(s.shown)) /\ DisclosuresHold(Sealed(s))

\* Who holds the key an id was minted from came to speak for it.
ASSUME RightfulAssumption ==
  \A i \in Installs : MintedFrom[i] # None => MintedFrom[i] \in Rightful[i]

ASSUME OptionsAssumption ==
  \A o \in Options :
    /\ {"pin", "accept", "attestors", "audience", "nonce"} \subseteq DOMAIN o
    /\ o.audience \in {None, Empty, "own"} /\ o.nonce \in {None, Empty, "own"}

VARIABLES
  held,         \* the bundle in circulation
  made,         \* the signatures made by their keys' owners, over what
  issued,       \* the challenges issued: <<verifier, nonce>>
  answers,      \* the presentations holders made, each with the challenges it knew
  mail,         \* the presentations under way
  acts, edits,  \* what was done so far, and how much of it by those who sign nothing
  last          \* the run in progress: what is judged, with which options, and the code

vars == <<held, made, issued, answers, mail, acts, edits, last>>

Idle == [code |-> None]

Init ==
  /\ \E s \in Starts : held = Sealed(s) /\ made = {Entry(s.content.key, s.content).sig}
  /\ issued = {} /\ answers = {} /\ mail = {} /\ acts = 0 /\ edits = 0 /\ last = Idle

Open == last = Idle /\ UNCHANGED last
Acts == Open /\ acts < MaxActs /\ acts' = acts + 1

(***************************************************************************)
(* Those who sign.                                                         *)
(***************************************************************************)

\* Another producer puts its key in the producer block and seals the same
\* records: after a rotation of its key, or because they are someone else's.
Reseal(k) ==
  LET content == [held.content EXCEPT !.key = k, !.keyId = KeyID(k)]
      b       == SignBundle([held EXCEPT !.content = content], k)
  IN  /\ Acts /\ k # held.content.key
      /\ held' = b /\ made' = made \union {Entry(k, content).sig}
      /\ UNCHANGED <<issued, answers, mail, edits>>

\* An attestation over the claim's link or over the head.
CounterSign(k, head, role, at) ==
  LET a     == [key |-> k, keyId |-> KeyID(k), role |-> role, at |-> at, sig |-> None]
      input == IF head THEN HeadInput(held, a) ELSE ClaimInput(held, a)
      done  == [a EXCEPT !.sig = Signed(k, input)]
  IN  /\ Acts /\ Chained(held)
      /\ held' = IF head THEN [held EXCEPT !.headAtts = @ \union {done}]
                         ELSE [held EXCEPT !.claimAtts = @ \union {done}]
      /\ made' = made \union {done.sig}
      /\ UNCHANGED <<issued, answers, mail, edits>>

Challenge(v, n) ==
  /\ Open /\ \A c \in issued : c[2] # n
  /\ issued' = issued \union {<<v, n>>}
  /\ UNCHANGED <<held, made, answers, mail, acts, edits>>

\* runPresent: a holder answers a nonce it has seen, from whichever verifier it
\* heard it, to the verifier it means; with no nonce it sends an empty one.
Answer(h, v, n, keep) ==
  LET p == Present(ReduceDisclosures(held, keep), h, v, n, "now")
  IN  /\ Acts
      /\ n \in {Empty} \union {c[2] : c \in issued}
      /\ answers' = answers \union {[p |-> p, known |-> issued]}
      /\ mail' = mail \union {p}
      /\ made' = made \union {p.sig}
      /\ UNCHANGED <<held, issued, edits>>

(***************************************************************************)
(* Those who do not.                                                       *)
(***************************************************************************)
\* An entry in the signatures: the stranger's, or one that verifies for nobody.
ForeignEntries(b) ==
  {Entry(Stranger, b.content), [Entry(b.content.key, b.content) EXCEPT !.sig.by = None],
   [Entry(b.content.key, b.content) EXCEPT !.alg = "other"]}

Varied(a) == \* a counter-signature with another role, time or key, and as it is
  {a, [a EXCEPT !.role = "auditor"], [a EXCEPT !.role = Empty], [a EXCEPT !.at = None],
   [a EXCEPT !.key = Stranger], [a EXCEPT !.key = Stranger, !.keyId = KeyID(Stranger)]}

\* One of them varied, on the claim or on the head.
Moved(b, a) ==
  {[b EXCEPT !.claimAtts = (@ \ {a}) \union {m}, !.headAtts = @ \ {a}] : m \in Varied(a)}
  \union {[b EXCEPT !.headAtts = (@ \ {a}) \union {m}, !.claimAtts = @ \ {a}] : m \in Varied(a)}

Rearranged(b) ==
  {[b EXCEPT !.sigs = InsertAt(@, i, e)] : i \in 1 .. Len(b.sigs) + 1, e \in ForeignEntries(b)}
  \union {[b EXCEPT !.sigs = << >>]}
  \union (UNION {Moved(b, a) : a \in b.claimAtts \union b.headAtts})
  \union {[b EXCEPT !.shown = Append(@, d)] :
            d \in {[name |-> "f1", value |-> "other"]} \union {b.shown[i] : i \in DOMAIN b.shown}}
  \union {[b EXCEPT !.content.install = i] : i \in Installs}
  \union {[b EXCEPT !.content.profile = p] : p \in {"v1", "switchtender", "none", "unknown"}}
  \union {[b EXCEPT !.content.link = "l2"], [b EXCEPT !.content.keyId = KeyID(Stranger)]}
  \union {[b EXCEPT !.version = v] : v \in {"0.2", None}}
  \union {[b EXCEPT !.fault = f] : f \in {"number", "member", "producer", "claim"}}

Rearrange ==
  /\ Acts /\ edits' = edits + 1
  /\ held' \in Rearranged(held) \ {held}
  /\ UNCHANGED <<made, issued, answers, mail>>

Renamed(p, h, k) == [p EXCEPT !.key = h, !.keyId = k]

Redirected(p) ==
  {[p EXCEPT !.audience = v] : v \in Verifiers} \union {[p EXCEPT !.nonce = c[2]] : c \in issued}
  \union {Renamed(p, h, KeyID(g)) : h, g \in Holders}
  \union {[p EXCEPT !.bundle = b] : b \in {held} \union {ReduceDisclosures(p.bundle, {})}}
  \union {[p EXCEPT !.at = a] : a \in {"earlier", None}}
  \union {[p EXCEPT !.version = v] : v \in {"0.2", None}}
  \union {[p EXCEPT !.alg = "other"], [p EXCEPT !.fault = "member"]}

Redirect(p) ==
  /\ Acts /\ edits' = edits + 1
  /\ mail' \in {mail \union {q} : q \in Redirected(p)} \ {mail}
  /\ UNCHANGED <<held, made, issued, answers>>

(***************************************************************************)
(* A run of the command, on the bundle or on anything in the mail.         *)
(***************************************************************************)
Files == {[kind |-> "bundle", doc |-> held]} \union {[kind |-> "presentation", doc |-> p] : p \in mail}

\* The nonce a verifier expects is one it issued, as is the audience its own name.
Verify(v, f, o) ==
  /\ last = Idle
  /\ \E n \in IF o.nonce # "own" THEN {o.nonce} ELSE {c[2] : c \in {c \in issued : c[1] = v}} :
       LET opts == [o EXCEPT !.audience = IF @ = "own" THEN v ELSE @, !.nonce = n]
       IN  last' = [code |-> RunVerify(f, opts), verifier |-> v, file |-> f, opts |-> opts]
  /\ UNCHANGED <<held, made, issued, answers, mail, acts, edits>>

Return ==
  /\ last # Idle /\ last' = Idle
  /\ UNCHANGED <<held, made, issued, answers, mail, acts, edits>>

Next ==
  \/ \E k \in Producers : Reseal(k)
  \/ \E k \in Attestors, head \in BOOLEAN, at \in {"t1", None} : CounterSign(k, head, "approver", at)
  \/ \E v \in Verifiers, n \in Nonces : Challenge(v, n)
  \/ \E h \in Holders, v \in Verifiers, n \in Nonces \union {Empty}, keep \in {{"f1"}, {"f1", "f2"}} :
       Answer(h, v, n, keep)
  \/ Rearrange
  \/ \E p \in mail : Redirect(p)
  \/ \E v \in Verifiers, f \in Files, o \in Options : Verify(v, f, o)
  \/ Return

Spec == Init /\ [][Next]_vars

-----------------------------------------------------------------------------
(***************************************************************************)
(* Properties.                                                             *)
(***************************************************************************)

\* Every variable has its type; a bundle nobody rearranged bears its producer's
\* signature and no other.
TypeOK ==
  /\ held.content.key \in Producers /\ held.content.install \in Installs
  /\ edits = 0 => held.sigs = <<Entry(held.content.key, held.content)>>
  /\ issued \subseteq Verifiers \X Nonces
  /\ \A a \in answers : a.p.key \in Holders /\ a.known \subseteq issued
  /\ {a.p : a \in answers} \subseteq mail /\ acts \in 0 .. MaxActs /\ edits \in 0 .. acts
  /\ last.code \in {None, 0, 1, 2, 3}

Presented == last # Idle /\ last.file.kind = "presentation"
Judged == IF Presented THEN last.file.doc.bundle ELSE last.file.doc
Passed == last # Idle /\ last.code = 0

\* A presentation that passes with the audience and the nonce compared was made
\* by that holder for that verifier and that challenge, after the verifier issued
\* it, over the very bundle judged: an answer made for another verifier, one made
\* before the challenge, and one altered on the way do not pass.  It may pass more
\* than once: RunPresentation keeps no state, and an answer that comes again under
\* the same nonce is told from the first by the caller or not at all.
AnswersTheChallenge ==
  Passed /\ Presented /\ last.opts.audience # None /\ last.opts.nonce # None =>
    \E a \in answers :
      /\ a.p = last.file.doc
      /\ a.p.audience = last.verifier /\ a.p.nonce = last.opts.nonce
      /\ <<last.verifier, last.opts.nonce>> \in a.known

\* The caller accepts an installation only for a key that came to speak for it.
Informed(o) == o.accept = None \/ o.pin \in {KeyID(k) : k \in Rightful[o.accept]}

\* An installation's history stays with it: a switchtender bundle under an id
\* minted from a key passes only for that installation's keys, whichever pin a
\* caller copied from the bundle itself (checkInstallKey).
HistoryStaysHome ==
  Passed /\ Informed(last.opts) /\ Judged.content.profile = "switchtender" =>
    \/ MintedFrom[Judged.content.install] = None
    \/ Judged.content.key \in Rightful[Judged.content.install]

\* With the attestors named, every counter-signature on a bundle that passes was
\* made by one of them, of this link, in this role, at this time, and of the
\* claim or of the head as it is reported.
AttestedWasSaid ==
  Passed /\ last.opts.attestors # {} =>
    LET b == Judged
        said(a, tag) == \E m \in made :
          /\ KeyID(m.by) \in last.opts.attestors /\ a.key = m.by /\ m.over.tag = tag
          /\ m.over.link = b.content.link /\ m.over.role = a.role /\ m.over.at = a.at
    IN  /\ \A a \in b.claimAtts : said(a, "attestation/1")
        /\ \A a \in b.headAtts : said(a, "head-attestation/1")

\* A bundle that passes was sealed as it stands by the key its producer block
\* holds, carries no other key's entry, and passes with its entries in any order.
SealedWhole ==
  Passed =>
    LET b == Judged IN
      /\ Signed(b.content.key, CanonicalUnsigned(b)) \in made
      /\ \A i \in DOMAIN b.sigs : b.sigs[i].keyId = KeyID(b.content.key)
      /\ Run([b EXCEPT !.sigs = Reverse(b.sigs)], last.opts).ok

\* Withholding, counter-signing and delay cost nobody the verdict: while nobody
\* has interfered, a sealed bundle, whatever fields its holder left out and
\* whoever counter-signed it since, passes for a caller with the right pins, and
\* so does every answer under the expectations it was made for, however often.
HonestAnswerPasses ==
  LET o == last.opts
      b == Judged
      e == IF Presented THEN [audience |-> last.file.doc.audience, nonce |-> last.file.doc.nonce]
           ELSE [audience |-> o.audience, nonce |-> o.nonce]
  IN  /\ last # Idle /\ edits = 0
      /\ o.pin = KeyID(b.content.key)
      /\ o.accept = IF b.content.profile # "switchtender" \/ Minted(b) THEN None ELSE b.content.install
      /\ {a.keyId : a \in b.claimAtts \union b.headAtts} \subseteq o.attestors \/ o.attestors = {}
      /\ o.audience \in {None, e.audience} \ {Empty} /\ o.nonce \in {None, e.nonce} \ {Empty}
      => last.code = 0

\* What codes.go:12 and the usage text say of exit code 3: it is the answer when
\* the bundle or the presentation declares a version, a profile or an algorithm
\* this verifier does not implement, also when all else about the presentation
\* is in order, which is told from a bundle not to be trusted.
UnsupportedIsTold ==
  /\ last # Idle /\ Usage(last.opts) /\ Parse(Judged) = "unsupported"
  /\ Presented => /\ ReadPresentation(last.file.doc) = "read"
                  /\ HolderSigned(last.file.doc) /\ ExpectationsHold(last.file.doc, last.opts)
  => last.code = 3
=============================================================================
