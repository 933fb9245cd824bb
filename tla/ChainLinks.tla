----------------------------- MODULE ChainLinks -----------------------------
(***************************************************************************)
(* Claims, links and bundles of the two linear chain profiles, and what a  *)
(* link commits to (internal/chain/chain.go, internal/bundle/bundle.go).   *)
(*                                                                         *)
(* A link is SHA-256 (HMAC-SHA-256 in a keyed chain) over a canonical JSON *)
(* object.  The hash is taken as ideal: a link is the tuple of the values  *)
(* that enter it, so two links are equal exactly when everything hashed is *)
(* equal.  The three constructions have tuples of three different lengths, *)
(* as their JSON objects have different members.                           *)
(***************************************************************************)
EXTENDS Naturals, Sequences

CONSTANTS
  Core,       \* values of the members both profiles commit: at, actor, method, path ...
  Beside,     \* values of the payload members a switchtender link leaves out
  Pack,       \* packaging: disclosures, attestations, evidence present and location
  Installs,   \* installation ids, each standing for its signing key too
  NoInstall   \* the empty string where an install id may stand

ASSUME InstallAssumption == NoInstall \notin Installs

ProfileSwitchTender == "switchtender-audit-v1"
ProfileV1 == "loomseal-chain-v1"
Profiles == {ProfileSwitchTender, ProfileV1}

\* The modes of a verified chain: every link recomputed, or only followed.
ModeFull == "full"
ModeStructural == "structural"

\* The empty link, and 64 hex digits that are the hash of nothing at hand.
NoLink == << >>
StrayLink == <<"stray">>

\* The coordinates of a claim or of an anchor.
Coords(c) == [seq |-> c.seq, link |-> c.link]

(***************************************************************************)
(* Faulty variants.  An operator named Faulty... is a plausible mistake in *)
(* the definition that follows it; the models never use one.  Each is put  *)
(* in place of that definition to see the property it breaks fail.         *)
(***************************************************************************)

(***************************************************************************)
(* What a link commits to.  ClaimContent drops the packaging; it keeps the *)
(* payload whole, so the members a switchtender link skips are in it.      *)
(***************************************************************************)
FaultyContentWithPackaging(c) == <<c.core, c.beside, c.install, c.pack>>
ClaimContent(c) == <<c.core, c.beside, c.install>>

\* LinkV1 with and without the producer's key.
LinkV1(key, install, c) ==
  IF key = "" THEN <<ProfileV1, install, c.seq, c.prev, ClaimContent(c)>>
              ELSE <<ProfileV1, install, c.seq, c.prev, ClaimContent(c), key>>

\* The link checkSwitchTender recomputes: no domain, no chain parameter, the
\* fields of the entry and the install id only where the entry carries one.
FaultyLinkWithoutPrev(c) == <<c.seq, c.core, c.install>>
LinkSwitchTender(c) == <<c.seq, c.prev, c.core, c.install>>

\* The part of a claim a profile's link commits, position aside.
Committed(profile, c) ==
  IF profile = ProfileV1 THEN ClaimContent(c) ELSE <<c.core, c.install>>

(***************************************************************************)
(* The rules chain.Verify holds a bundle's claims to, one operator per     *)
(* test, in the order the code makes them.                                 *)
(***************************************************************************)

\* Every claim carries chain coordinates.
Coordinated(b) == \A i \in DOMAIN b.claims : b.claims[i].chained

\* checkContinuity's test of claim i against the claim before it, or, for
\* the first, the genesis rule and the rule for a window opened later.
FaultyFollowsBySeq(b, i) ==
  IF i = 1 THEN TRUE ELSE b.claims[i].seq = b.claims[i - 1].seq + 1

Follows(b, i) ==
  LET c == b.claims[i]
  IN  IF i = 1
        THEN /\ c.seq = 1 => c.prev = NoLink
             /\ c.seq > 1 => c.prev # NoLink
        ELSE /\ c.seq = b.claims[i - 1].seq + 1
             /\ c.prev = b.claims[i - 1].link

Newest(b) == b.claims[Len(b.claims)]

FaultyHeadBehindWindow(b) == b.head.seq < b.claims[1].seq
HeadBehind(b) == b.head.seq < Newest(b).seq
HeadTied(b) == b.head.seq = Newest(b).seq /\ b.head.link = Newest(b).link
HeadContradicts(b) == b.head.seq = Newest(b).seq /\ b.head.link # Newest(b).link

\* The conditions on the declaration, before any link is recomputed.
ProfileRefused(b) ==
  \/ b.profile = ProfileSwitchTender /\ b.keyed
  \/ b.profile = ProfileSwitchTender /\ b.param # NoInstall /\ b.param # b.producer
  \/ b.profile = ProfileV1 /\ ~b.keyed /\ b.param = NoInstall
  \/ b.profile = ProfileV1 /\ ~b.keyed /\ b.param # b.producer

\* An entry under the switchtender profile that names another install.
FaultyNamesOtherParam(b, i) ==
  b.profile = ProfileSwitchTender /\ b.param # NoInstall
    /\ b.claims[i].install \notin {NoInstall, b.param}

NamesOtherInstall(b, i) ==
  /\ b.profile = ProfileSwitchTender
  /\ b.claims[i].install # NoInstall
  /\ b.claims[i].install # b.producer

\* The link the verifier computes for claim i.
Recomputed(b, i) ==
  IF b.profile = ProfileV1 THEN LinkV1("", b.param, b.claims[i])
                           ELSE LinkSwitchTender(b.claims[i])

LinkRecomputes(b, i) == b.claims[i].link = Recomputed(b, i)
=============================================================================
