# LoomSeal, specified

LoomSeal defines a portable proof document, the *bundle*: claims a producer
makes, linked into a chain, signed, and anchored with third parties. The
repository is the format's verifier in Go, with a reference verifier in Python.
The verifier is stateless: it reads one file, walks over it, and issues a
verdict and a level. What makes it hard is not concurrency inside one process
but what a verdict says about a *history* the verifier never saw: the log that
grew, was restored and grew again, the anchor somebody recorded in between, the
window that was cut, and every change the file met on its way. The
specifications here put the verifier's step-by-step code next to such a
history and state what a verdict means in it: the log and its anchors, the
producer's schedule, the records a holder withholds, the exchange of bundles
and answers, and the readers of what others wrote.

## 1. The system

| Part | Code | State it keeps | Operations |
|---|---|---|---|
| Linear chains | `internal/chain/chain.go` | position, `Result` (mode, head matched) | `Verify`, `checkContinuity`, `checkLinks`, `checkSwitchTender`, `checkV1`, `LinkV1` |
| Tree profile | `internal/chain/merkle.go` | as above, tree size, proofs counted | `verifyMerkle`, `verifyConsistency` |
| Merkle tree | `merkle/merkle.go` | fold registers `fn`, `sn`, `fr`, `sr` | `Root`, `InclusionProof`, `VerifyInclusion`, `ConsistencyProof`, `VerifyConsistency` |
| Pipeline | `internal/verify/verify.go` | `Report`, its problems in order | `Run`, signature, install, chain, anchors, reach, level |
| Attestations | `internal/verify/attest.go` | counts in the report | claim and head counter-signatures |
| Spans | `internal/verify/span.go` | pairs of beats, gaps, coverage | `checkSpan`, first, path, pairs, `missedWindows` |
| Records | `internal/verify/records.go`, `members.go` | first keyed claim, committed specs by run | `checkRecords`, `runSpecsAgree` |
| Disclosures | `internal/verify/disclose.go` | none | `checkDisclosures` |
| Presentations | `internal/verify/present.go` | none between two runs | `RunPresentation`, `checkHolderSignature` |
| Bundle | `internal/bundle` | the parsed bundle | `Parse`, `CheckDepth`, `validate`, `StripUnsigned` |
| Canonical JSON | `jcs/jcs.go` | a stack of values | `Parse`, `Serialize`, `CheckNumbers` |
| RFC 3161 | `rfc3161` | a reader's offset, a stack of ends | `Verify`, `wellFormed`, certificate checks |
| Producer side | `seal/seal.go` | the log (outside this repository) | `LinkV1`, `SignBundle`, `Present` |
| Command line | `internal/cmd` | worst exit code so far | `verify`, `present`, `keygen` |

How they meet. The producer appends entries to its log and links them
(`seal.LinkV1` is `chain.LinkV1`), third parties record the coordinates of some
entry, the producer cuts and signs a window. Whoever holds the file may redact
it, add attestations, move artifacts (all of that is outside links and
signature), or change anything else. `Run` parses the bundle, verifies
signatures and install, then calls `chain.Verify`, and hands its `Result`, or
its error, to the anchor checks, which work whether or not the chain verified;
`measureUnanchored` and `level` turn the lot into the report. The report is all
that leaves.

Hard behaviours, each with its line and kind in `PROJECT.json` under
`hazards`: an anchor vouches for the past only through unbroken continuity;
flags the file itself carries (`keyed`, `profile`, the head) steer which rules
apply; results of a failed walk meet later checks; a restored log produces two
histories with common links; the Merkle folds decide index boundaries bit by
bit; the map of verified coordinates is written by three sources; beats, entries
and tokens carry the times of different clocks; rules about a whole log are
applied to a window of it; the presentation verifier keeps no memory; one
document is read by a scanner, a tree and a struct.

What makes each part correct: *chains and anchors*, an anchored verdict
shows recorded history and overstates nothing, and an honest window verifies;
*Merkle*, a fold accepts exactly what a reference definition of membership and
growth accepts; *spans*, coverage and gaps count the producer's schedule, and
members mean what was linked; *times*, the reported staleness is never too
small; *records*, what is reported as checked is what was recorded, specs of one
run agree in every order, withholding never turns a verdict; *pipeline*, a
passing bundle was sealed whole, by a key its installation has;
*attestations*, a counter-signature counts only as what its signer said;
*presentations*, an accepted answer was made for this challenge; *readers*, the
scanners, the struct and the signed tree agree about one document, and a token
means what its authority stamped.

## 2. The modules

| Module | What it is |
|---|---|
| `ChainLinks` | claims, links, bundles; the tests `chain.Verify` makes, as operators |
| `LinearChain` | `chain.Verify` and the anchor part of `verify.Run` as a step machine |
| `AnchoredLog` | producer, ledger of anchors, the file on its way, and `LinearChain` reading it; the properties |
| `ChainJudge` | abstract specification: one judgement in one step |
| `MerkleTree` | roots, both kinds of proof, and one step of the verifier's folds |
| `TreeChain` | `verifyMerkle`, `verifyConsistency` and the anchor checks on a tree bundle, as a step machine |
| `TreeLog` | the producer's tree, recorded roots and leaves, the file on its way, and `TreeChain` reading it; the properties |
| `SpanRules` | span claims, times of entries, tokens and bundle: the tests, as operators |
| `TimedLog` | a producer that beats on a schedule, authorities with other clocks, and `SpanRules` reading a window; the properties |
| `RecordRules` | digests, reasons, outcomes and the state of every disclosed member, for one claim |
| `RecordLog` | a log, what its holder withholds, what the key's holder changes, and `checkRecords` walking over it; the properties |
| `BundleRules` | signatures, `Parse`'s refusals, `Run`, `RunPresentation`, `runVerify` as operators over ideal signatures |
| `Exchange` | producers, attestors, holders, verifiers, third parties and the mail between them; the properties |
| `MerkleFold` | `VerifyInclusion` and `VerifyConsistency` asked every question with every path |
| `TextScan` | `CheckDepth`, `validateStrings` and the decoder, on the same text |
| `DerRead`, `ObjectRead`, `TokenRead` | DER octets, the three readings of an object, the timestamp token |
| `Readers` | one call of one of the functions of the last three rows |
| `AnchoredLogInv` | the inductive invariants `IInv`, `JudgeInv` and `GenuineInv` of `AnchoredLog` |
| `AnchoredLog_proofs`, `TreeLog_proofs`, `TimedLog_proofs`, `RecordLog_proofs`, `Exchange_proofs`, `TextScan_proofs`, `Readers_proofs` | theorems and proofs of those modules |
| `MerkleTree_proofs` | what roots, proofs and folds are, for trees of every size: the lemmas on folds of `Readers_proofs` and `TreeLog_proofs` |
| `MCAnchoredLog`, `MCTreeLog`, `MCTimedLog`, `MCRecordLog`, `MCExchange`, `MCReaders` | instances for TLC |

`AnchoredLog` extends `LinearChain`, which extends `ChainLinks`. `TreeLog`
extends `TreeChain`, which composes `LinearChain` (the report, the level, the
reach, the coordinates of claims and head) with `MerkleTree`; `MerkleFold`
extends `MerkleTree` alone. `TimedLog`, `RecordLog` and `Exchange` each extend
their rules. `Readers` extends `MerkleFold` and `TextScan` and instantiates the
three others over variables of its own.

### State and code

**Chains.** In `LinearChain`, `phase` is where `Run` stands, `pos` the loop
index of `checkContinuity` or of `checkSwitchTender`/`checkV1`, `err` the
sentinel `Verify` returned, `headMatched` and `mode` the fields of
`chain.Result`, `report` the chain and anchor fields of `verify.Report`. One
action per loop or straight-line test: `CheckCoordinates`, `CheckContinuity`,
`CheckHead`, `CheckProfile`, `CheckLinks`, each with a disjunct per early
return (`Fail`), then `CheckAnchors`, which is `checkAnchors`,
`measureUnanchored` and `level`. In `AnchoredLog`, `Append1`, `Restore`,
`AnchorHead` and `Export` are the producer and the third parties, the disjuncts
of `Edit` what may become of the file, `Deliver` and `Discard` the relying
party. That side lives outside the repository; it is modelled from the links
the repository's producer code and vector generator write and from what the
verifier has to withstand.

**Trees.** In `TreeChain`, `walk` holds the registers `fn`, `sn`, `fr`
(`first`) and `sr` or `computed` (`second`) of the fold under way, `read` how
much of the path it has taken, `growthOK` is `ConsistencyOK`.
`CheckDeclaration` is `verifyMerkle` up to its loop, `CheckClaim` the loop up to
the inclusion fold, `FoldClaim` that fold, `CheckGrowth` and `FoldGrowth` the
consistency proof. `TreeVerified` is the map of verified coordinates with its
three sources in the order they are written. In `TreeLog`, `AnchorRoot` and
`AnchorLeaf` are what third parties record, `ExportOther` a tree of another
installation that starts with the owner's leaves, `SetGrowth` a proof of
growth changed on its way, and `Graft` a tree built on an anchored hash as if it
were a root; the rest mirrors `AnchoredLog`.

**Spans and times.** `SpanRules` has one operator per rule of `span.go`
(`Parses`, `PathHolds`, the first beat, `MissingBeat` and the other tests of a
pair, `MissedWindows`), `CheckSpan` puts them together and goes on after a
problem as the code does; `AnchorsOK`, `AttestationAge` and `UnanchoredWindow`
are the parts of `verify.go` that compare times. All of it is integers: a tick
is the code's microsecond, and rounding to a cadence is the code's integer
division. `Figure` is what the report prints of a span of time: to the nearest
second, halves up (`Rounded`, Go's `Duration.Round`), so that 400 ms reads `0s`,
and nothing at all (`NoFigure`) unless the span is more than nothing. That a
`Duration` ends at 292 years is left out. In
`TimedLog`, `FirstBeat` and `NextBeat` are a producer's timer, due a whole
number of cadences after the last beat and fired somewhat late, `SetBack` its
clock set back, `Anchor` an authority whose clock `lag`s behind; `ticks` keeps,
apart from the log, how often the timer was really due. `Export` cuts a window;
`TakeOut`, `Rewrite`, `Retype`, `Retime` and `SpoilToken` change it, links
recomputed. `Verify` is the span and time checks of one `Run` over bytes nothing
changes, so one step.

**Records.** A claim in `RecordRules` has what its link commits (`kind`, `run`,
`digest`) and the members beside it (`m`). `BodyHolds`, `ExactHolds`,
`ReasonFails` and `OutcomeFails` are `recordDigestProblem`,
`exactDigestProblem`, `checkReason` and `checkOutcome`; `FirstKeyed` and
`TooOld` the rule about the guessable form; `ClaimStates` what a claim's check
settles about each member. In `RecordLog`, `Withhold`, `Redact` and `CutWindow`
are a holder's, `Alter` the key holder's; `CheckClaim`, `LastClaim`,
`CompareRun`, `RunDisagrees`, `CheckSpecs` and `Classify` are the loops of
`checkRecords`, `runSpecsAgree`, `checkSpecs` and `classifyDisclosed`, with
`seen` the map of `runSpecsAgree`.

**Exchange.** `BundleRules` has the code's checks in the code's order: `Parse`
(`unsupported` before anything a later version might mean otherwise, and the
faults in their order), `SignatureOK`, `InstallHolds` with pin and accepted
id, `AttestationsHold` for both counter-signatures, `DisclosuresHold`, `Holds` for the whole of `Run`,
`ReadPresentation`, `HolderSigned`, `ExpectationsHold`, and `RunVerify` with the
usage errors and the exit code. In `Exchange`, `Reseal`, `CounterSign`,
`Challenge` and `Answer` are those who sign, `Rearrange` and `Redirect` those
who change what no signature of theirs covers. `mail` is never emptied, so an
answer arrives late, repeatedly, at another verifier, or never. `Verify` and
`Return` are one run of the command; nothing is kept between two.

**Readers.** `MerkleFold` reads a path hash by hash, each chosen when it is
folded, and may end anywhere: that is every path. `TextScan` advances
`CheckDepth`, `validateStrings` and the decoder together, one character at a
time, over every text; `ahead` is how far `validateStrings` looks into an
escape. `DerRead` tries every octet string up to a length, and `OneForm` compares
each with the encodings that `LengthCode`, `SubCode` and `Fits` define. `ObjectRead` writes
an object member by member and keeps what the signed tree, the struct of
`encoding/json` and a holder's map of doubles each hold of it. In `TokenRead` an
authority stamps links with its certificates, a carrier rearranges a token or
signs with another certificate, and `Verify` reads it in the code's order.

### Abstractions

* *Hashes and signatures are ideal.* A link is the tuple of what is hashed, a
  digest the tuple of its form and what was hashed, a signature the pair of key
  and signed text. `NoLink` is the empty string, `StrayLink` any hash nobody can
  explain. Nobody makes a signature of a key that is not theirs.
* *A claim* in the chain modules has the members both profiles commit (`core`),
  those a switchtender link leaves out (`beside`), the payload's install id, and
  packaging that no link covers (`pack`). What a link commits is the code's:
  `ClaimContent` for loomseal-chain-v1, the fixed list of fields for
  switchtender-audit-v1.
* *Each composition looks at one part.* In the chain modules an install id
  stands for its key and the signature check is taken to have passed
  (`Relabel` lets any installation sign any file); in `TimedLog` and `RecordLog`
  links recompute, and in `RecordLog` the entries are taken to be anchored; in
  `Exchange` the chain is its link. What ties them is `Run`: the verdict is the
  conjunction of its checks, none of which reads another's result except the
  anchor checks, which read the chain's and are modelled with it.
* *Parsing has passed* for the chain, span and record modules. Files have at
  least one claim, a known profile, positions from 1. What `Parse` refuses is
  in `BundleRules` and `ObjectRead`.
* *Anchors are a set of coordinates*, with tokens and times in `TimedLog`;
  duplicates change only counts.
* *A tree's hashes* are tuples too: a leaf `<<data>>`, a node `<<left, right>>`,
  so the two separators keep their effect. Slices of leaves are pairs of bounds.
* *An octet* in `DerRead` has 8 values instead of 256 and `Safe` in `ObjectRead`
  is 8 instead of 2^53; every rule scales with them.
* *The verifier reads a snapshot.* It works on bytes in memory, so the producer
  and the holder take no step in between; the interleavings that matter are of
  whole runs with appends, anchors, restores, cuts, answers and changes.

Operators named `Faulty...` are plausible mistakes in the definition that
follows them. No model uses one; `PROJECT.json` names for every property the
mistake that breaks it.

## 3. The runs

| Run | Bounds | States | Shows |
|---|---|---|---|
| `linear` | log 2, 1 anchor, 1 restore, 1 change; three chain styles, two installs, records with and without an install id | 473,150 | `AnchoredMeansRecorded`: below a matched anchor an anchored bundle shows what the log held when the anchor was recorded; `LiftedHistoryRefused`: another install gets the word only over switchtender entries with no install id; `HonestWindowVerifies`: a window that says what the log says passes, anchored exactly when it should be; `ReachNeverOverstated`; `IInv`, the invariant of the proofs; `EveryFileJudged` (liveness); `ImplementsJudge`: the step machine implements `ChainJudge` |
| `tree_restored` | log 3, 2 shown, 1 anchor, 1 restore | 1,337,806 | `HonestBundleVerifies`: any disclosure with any proof of growth passes |
| `tree_altered` | log 2, 2 shown, 1 anchor, 1 restore, 1 change | 1,430,318 | `RootMeansRecorded`: up to a matched root a passing bundle shows what the log held; `LeafMeansEntry`: a matched leaf is shown as recorded, unless the log is shown to have grown from it; `GrowthMeansPrefix`: growth verified between a recorded root and a head means the leaves of the one are a prefix of the other's; `EveryTreeJudged` (liveness) |
| `timed_log` | 3 entries, cadence of 4 s in thirds of a second, 1 firing missed, 1 anchor by a clock as far behind as the skew allows, 1 set-back, 1 edit; the linear profile with the most checks, the tree and no chain | 923,896 | `PopulationKept`: no entry or beat is taken out unnoticed; `CoverageIsSchedule`: windows and gaps count the timer's; `MembersMeanLog`: anchored beats read as written; `HonestTimesVerify`: clocks within the skew cost nothing; `StalenessNotFlattered`: age and window are stated when they should be, and short by no more than rounding takes |
| `records` | logs of 3 claims, 1 step of a holder, 1 change | 433,378 | `CheckedIsRecorded`, `WithholdingIsSafe`, `SpecDriftShows`, `GuessableOnlyBefore`, `NothingUncounted`: below |
| `exchange` | 2 acts (answers, counter-signatures, changes), 3 producer keys, 1 attestor, 2 holders, 2 verifiers, 2 nonces, 20 option sets; symmetry over holders, verifiers and nonces | 904,515 | `AnswersTheChallenge`, `HistoryStaysHome`, `AttestedWasSaid`, `SealedWhole`, `HonestAnswerPasses`: below |
| `readers` | trees of 1 to 5 leaves, paths up to 4; depth limit 2; 3 octets read; 3 members; 2 stamps, 1 change | 3,919,184 | `InclusionDecided`, `GrowthDecided`: a fold accepts exactly the audit path, or the proof of growth; `DepthIsNesting`, `StringsExact`: the scans agree with the decoder; `OneForm`: octets are accepted exactly when they are the one encoding of their value; `OneReading`: struct, signed tree and holder's copy hold the same; `TokenMeansStamped`: a token under the authority's key is one it stamped, for this link and time; `HonestTokenVerifies` |
| `leaf_level`, `resolution`, `leaf_reach`, `newer_presented`, `certificate_order` | as the runs of their modules | until violated | the findings below |

What the record properties say. Whoever altered and re-signed a bundle, what it
reports as *checked* reads as recorded (`CheckedIsRecorded`); from a log that
conforms, no withholding costs the verdict or makes a confirmable member
unchecked (`WithholdingIsSafe`); no approval and execution of one run name
different specs in a passing bundle, although only some pairs are compared
(`SpecDriftShows`); once the keyed form has begun a guessable digest confirms
nothing (`GuessableOnlyBefore`); a report that counts nothing unchecked has
nothing unchecked (`NothingUncounted`). What the exchange properties say. An
answer that passes was made by its holder, for that verifier and that challenge,
after the challenge was issued, over that very bundle (`AnswersTheChallenge`;
the same answer passes again under the same nonce, for `RunPresentation` keeps
nothing to tell it by: single use is the caller's); a switchtender bundle passes under a minted id
only with a key that id has, for a caller who accepts keys knowingly
(`HistoryStaysHome`); a counter-signature counts as what its signer said
(`AttestedWasSaid`); a passing bundle bears its own key's signature over all of
it and nobody else's, in any order (`SealedWhole`); withholding,
counter-signing and delay cost no honest party anything (`HonestAnswerPasses`).

**Why the bounds are enough.** Every chain rule relates a claim to the one
before it, to the head or to an anchor, so two or three positions hold a window
with something before, inside and after it; one anchor suffices because each
anchor's guarantee is stated on its own, one restore gives two histories with a
common prefix, and most ways of going wrong need one or two coordinated changes
(a changed claim with its link recomputed counts as one). Five leaves hold every
shape a fold meets: a complete tree, an odd node carried up one level and two, a
prefix that ends on a complete subtree and one that does not; a path of four
hashes is one longer than the tallest tree takes. In `TreeLog` three leaves hold
an odd node carried up; proofs of growth whose first hash seeds the fold need
four and are covered by `readers`. Span rules relate a beat to the beat before
it and to the entries between: three entries hold two beats with an event
between them, and three beats in a row with one missed. The record rules relate
a claim to one earlier claim, except `runSpecsAgree`, where three records of a
run are the first case in which one pair is not compared (and the theorem of
section 4 covers every length). Two acts hold an answer and what happens to it,
or two counter-signatures, or two rearrangements; the challenges are not counted
among them. Where a run's bounds leave a case out, a proof of section 4 does not.

A tick of `timed_log` is a third of a second, the coarsest in which rounding goes
both ways: a span of one tick is rounded to nothing and one of two to a second.

`GuessableOnlyBefore` speaks of the claims a bundle shows, as FORMAT.md's rule
does (FORMAT.md:1485): a window that opens past the log's first keyed entry may
show a guessable digest that the whole log would refuse, which is listed as a
hazard of its own.

`CoverageIsSchedule` holds where the slack of a beat is at most half a cadence,
which is so for every cadence of two seconds or more. At one second the code's slack
is a whole beat, so a missed beat there may be no gap (`span.go:235`): that case
is listed as a hazard and outside the run.

**Deadlock** is checked except in `readers`, where the functions have returned:
elsewhere a relying party can always put a judged file aside, a run can return,
or the model says that it is done.

**Fairness.** `WF_vars(Run)` in `AnchoredLog` and `TreeLog` only: once `Run` was
entered it keeps executing, as it is a sequence of loops over the claims without
I/O or locks. Nothing is assumed of producers, holders or third parties, and no
other module states fairness: a verifier there is one step, a walk whose length
is the bundle's, or a call. `EveryFileJudged` says no combination of claims,
head and profile leaves the walk without a next step or turning in place;
`EveryTreeJudged` says it of the tree profile's walk and folds.

**Findings.** Five runs check what `FORMAT.md` or a comment says, and TLC shows
the code does otherwise.

* `leaf_level`: a leaf anchor by itself earns "anchored by reference"
  (`verify.go:831`), where FORMAT says it does not earn the anchored level.
* `resolution`: the map of verified coordinates holds one link per position, so
  a head or an earlier root of size n hides the claim at position n, and an
  anchor on that disclosed leaf fails the bundle (`verify.go:561`, `571`), where
  FORMAT matches it.
* `leaf_reach`: `measureUnanchored` takes a leaf anchor for one that fixes the
  history before it (`verify.go:668`).
* `newer_presented`: a presentation in order whose bundle is of a version,
  profile or algorithm this verifier does not implement exits 1, where
  `codes.go` reserves 3 for it: `RunPresentation` joins the inner report by its
  `OK` alone (`present.go:285`).
* `certificate_order`: FORMAT says certificate order inside a token carries no
  meaning; of two certificates under one subject key identifier, as when an
  authority renews its certificate for the same key, the first decides
  (`cert.go:255`). FORMAT.md:992 says that it does, against FORMAT.md:813.

What holds of the tree anchors instead is `RootMeansRecorded` and
`LeafMeansEntry`: a recorded root fixes everything up to its size, a recorded
leaf fixes itself, unless it is matched as the root growth was shown from. Note
also what `RootMeansRecorded` does not say: growth from a recorded root makes
that root a match in the bundle of *any* installation whose tree starts with
those leaves. Such a bundle can show none of them, only what it recorded after.
And what `HistoryStaysHome` does not say: an assigned id is its owner's only by
the caller's word, and a loomseal-chain-v1 bundle says nothing about who had the
id before.

**Refinement.** `ChainJudge` defines a sound chain without mentioning order of
tests, position or early return: one window, agreeing with its head, rehashed
for this producer. `AnchoredLog` implements it with `file` the bundle once it
is handed over and `verdict` the report once there is one.

## 4. What is proved

Checked by TLAPS, for every value of the constants, every length and every
number of steps:

| Module | Theorem | Says |
|---|---|---|
| `AnchoredLog_proofs` | `Invariance` | `Spec => []IInv` |
| | `AnchoredIsRecorded` | `Spec => []AnchoredMeansRecorded` |
| | `LiftedIsRefused` | `Spec => []LiftedHistoryRefused` |
| | `ReachIsExact` | `Spec => []ReachNeverOverstated` |
| | `TypesHold` | `Spec => []TypeOK` |
| | `VerifierImplementsJudge` | `Spec => ImplementsJudge` |
| | `HonestWindowsPass` | `Spec => []HonestWindowVerifies` |
| | `OneLinkOneHistory` | two passing files that share a link say the same up to it |
| | `WalkEnds` | every step of the walk takes it nearer its verdict |
| `TreeLog_proofs` | `RootIsRecorded` | `Spec => []RootMeansRecorded` |
| | `LeafIsEntry` | `Spec => []LeafMeansEntry` |
| | `GrowthIsPrefix` | `Spec => []GrowthMeansPrefix` |
| | `HonestVerifies` | `Spec => []HonestBundleVerifies` |
| | `TreeLogTypes` | `Spec => []TypeOK` |
| | `TreeWalkEnds` | every step of the walk takes it nearer its verdict |
| `TimedLog_proofs` | `MembersAreAsWritten` | `Spec => []MembersMeanLog` |
| | `FiguresNotFlattered` | `Spec => []StalenessNotFlattered` |
| | `NothingTakenOut` | `Spec => []PopulationKept` |
| | `HonestClocksPass` | `Spec => []HonestTimesVerify` |
| | `CoverageCountsSchedule` | `Spec => []CoverageIsSchedule`, for cadences of two seconds or more |
| | `TimedTypes` | `Spec => []TypeOK` |
| `RecordLog_proofs` | `DriftAlwaysShows` | `Spec => []SpecDriftShows` |
| | `CheckedWasRecorded` | `Spec => []CheckedIsRecorded` |
| | `GuessableNeverAfter` | `Spec => []GuessableOnlyBefore` |
| | `NothingGoesUncounted` | `Spec => []NothingUncounted` |
| | `RecordTypes` | `Spec => []TypeOK` |
| | `WithholdingNeverCosts` | `Spec => []WithholdingIsSafe` |
| `Exchange_proofs` | `AnswersAreFresh` | `Spec => []AnswersTheChallenge` |
| | `HistoryIsHome` | `Spec => []HistoryStaysHome` |
| | `AttestedIsSaid` | `Spec => []AttestedWasSaid` |
| | `PassingIsSealed` | `Spec => []SealedWhole` |
| | `HonestPasses` | `Spec => []HonestAnswerPasses` |
| | `ExchangeTypes` | `Spec => []TypeOK` |
| `TextScan_proofs` | `DepthTheorem` | `TextSpec => []DepthIsNesting` |
| | `StringsTheorem` | `TextSpec => []StringsExact` |
| `Readers_proofs` | `InclusionIsDecided` | `ReadersSpec => []InclusionDecided` |
| | `GrowthIsDecided` | `ReadersSpec => []GrowthDecided` |
| | `ReadingsAgree` | `ReadersSpec => []OneReading` |
| | `TokensAreStamped` | `ReadersSpec => []TokenMeansStamped` |
| | `HonestTokensPass` | `ReadersSpec => []HonestTokenVerifies` |
| | `OctetsHaveOneForm` | `ReadersSpec => []OneForm` |

**Assumptions**, each evaluated by TLC in a run.

* `AnchoredLog`: the owner is an installation and its key is not the empty
  string; no installation is the empty string; records carry no install id or
  the owner's; bounds are naturals, at least one log entry.
* `TreeLog`: the owner is an installation, records carry no install id or the
  owner's, bounds are naturals, at least one log entry and one claim shown.
* `SpanRules`, `TimedLog`: ticks are naturals; cadences lie in the range `Parse`
  lets through; a beat is late by less than half its cadence, which is what the
  code's rounding distinguishes. `CoverageCountsSchedule` has a hypothesis of
  its own, that no cadence is one second: section 3 says what happens there.
* `RecordRules`, `RecordLog`: the special values differ, and "category" is none
  of them; the logs are non-empty sequences of claims in full disclosure, whose
  digests are not the empty string. Nothing is assumed of what a record says.
* `BundleRules`, `Exchange`: "no value" is not an installation, a producer or a
  thing a producer writes; a key id is neither absent nor empty; a first bundle
  names its producer's key, an installation and a known profile, and shows what
  its content commits to; an id's minting key is one of those that speak for it;
  options have their members; a third party's key is nobody else's.
* `TextScan`: the depth limit is a natural. `MerkleFold`: logs are sequences and
  none is empty; bounds are naturals. `Readers`: the authority's keys are
  its own, its certificates can be read, are of version 3 and are for
  timestamping, it stamps with a hash and an algorithm the verifier knows, and
  "nothing" is not a link; an octet has more than its top bit, bounds are
  naturals, and no container is longer than the octets of a length can say (2^32
  in the code, which an element could not state anyway).

**Anchored history.** `AnchoredMeansRecorded` speaks of the claims *behind* an
anchor, while the verifier walks *forwards*, so it is not inductive. `IInv`
therefore attaches to every claim the walk has passed a conditional
(`ShowsHistory`): *if* this claim's link is the one a recorded log held at this
position, *then* every claim up to it is that log's entry, and the profile and
install are that log's. `HistoryStep` carries it over one claim: by `LinkBinds`
(ideal hashes) equal links have equal predecessors and contents; continuity
turns equal predecessors into equal links one claim back, and the conditional
there applies. `InPlace` keeps the window's positions consecutive, which makes
"the claim before" and "the entry before" the same position. The anchor
finally discharges the condition: a matched anchor in a fully recomputed chain
is a claim's coordinates (`AnchoredWindow`; a head ahead of the claims is never
matched). The invariant also holds logs and ledger entries to be linked
(`Linked`), which a restore keeps because a prefix of a linked log is linked.
`LiftedIsRefused` uses the same history plus the install tests of the two
profiles. `ReachIsExact` needs that finitely many coordinates have a farthest
one and that consecutive positions make a count a difference.

**The judge.** `VerifierImplementsJudge` maps every step of the walk to a
stutter until the report is there. `JudgeInv` says what a phase owes to the
tests behind it: the head neither behind nor contradicting the claims from
`profile` on, `headMatched` whenever the head is tied, and at the end a mode that is
`SoundMode` of the whole file, which an early return makes empty for the same
files for which one look at everything would. `HonestWindowsPass` adds
`GenuineInv`, that an unchanged file is the log cut at two positions (`IsCut`):
a linked log passes each test of the walk, and the judgement is known by then.

**Spans and times.** `TimedInv` follows the log (`BeatsInv`: beats are numbered
and counted without a hole; `ScheduleInv`: while no clock is set back, every
beat comes within half a cadence of the tick it stands for), the ledger (an
anchor is of the log as it stands, which never shrinks), the window and the
report. Under a switchtender link only the path is committed, so
`MembersAreAsWritten` goes from equal links to equal paths to equal members by
`PathHolds`. `NothingTakenOut` takes the beats of a window pair by pair: numbers
that follow each other are, in the log, beats with nothing but counted entries
between them. `CoverageCountsSchedule` shows that rounding to the nearest
cadence undoes the lateness of both ends (`MissedWindows` is the number of ticks
between them less one), and adds up the pairs of a window as disjoint sets,
whose cardinality is what the code sums in its loop. `FiguresNotFlattered`
takes the newest token that held, or the last position matched, as the one the
code's loop arrives at, and adds that a figure covers every span up to the one it
was made of (`FigureIs`), short by half a second at most (`SecondIs`).

**Scans.** `DepthIsNesting` compares a counter with a stack, which it equals
only while both are out of strings together; `DepthInv` therefore says in which
of its modes the decoder is for each state of the scanner, and that the counter
is the stack's height until the limit was passed. `StringsExact` needs to know
what the look-ahead has already read: `StringInv` says that `ahead` holds
exactly the escape, or the pair, that the decoder is in the middle of.

**Specs of a run.** `runSpecsAgree` compares a record with all of the other
kind, or with the first of them when its own kind was met before. `RunInv` says
`seen` is what was met and no two records met so far differ. Then another of the
record's kind (`o`) agrees with every record of the other kind, so agreeing with
one of them (`s`) is agreeing with all (`AgreesWithAll`).

**States of members.** Whatever is done to a bundle, each claim keeps what its
link commits of the entry it came from (`BundleInv`). `StateInv` says that
`states` after claim k is exactly what the rules settle of claims 1 to k
(`SettledTo`), and after `Classify` that plus the members nobody settled; a
member settled as checked was read on by a digest that matches, and an ideal
digest has one preimage (`CheckedWasRecorded`). `GuessableNeverAfter` needs that
the first keyed claim of the window is at or before any later one, and
`NothingGoesUncounted` that members which travel together are settled
together. `WithholdingNeverCosts` rests on `PartInv`: of each claim the holder
leaves its record whole or none of it, and its reason whole, none of it, or a
category in its place; so no rule fails that did not fail on the log, and specs
that agreed there agree in any part of it.

**Exchange.** What no rearrangement reaches is followed by `EInv`: every
presentation under way bears the signature of some holder's answer, every
counter-signature is one an attestor made, an answer knows the challenge it
names, no nonce is issued twice, and a run that compares the audience compares it
with the verifier's own name. Ideal signatures then determine the rest
(`SignedIsMade`, `OneSigner`): an accepted presentation is the holder's answer
member by member, and the challenge it names, unique, is the verifier's.
`BorneInv` says the same of bundles: an entry that verifies under a producer's
key is over a text that producer signed. A passing bundle then has no other
entry at all, since each entry is tried against the one key of the producer
block, and the loop's answer does not depend on the order of the entries
(`PassingIsSealed`). `HonestInv` says what circulates while nobody rearranged
anything; `ReadMeans` turns `Parse`'s first-fault reading into "no rule stands",
and disclosures left out keep the others a subsequence (`Chosen`), so that every
check of `Run` passes (`HonestPasses`).

**Readers.** `ObjInv` ties the three readings member by member: as long as no
name was repeated or stray and the values are plain ones, tree and struct hold
the same, and `Parse` accepts nothing else. `TokenInv` says that a signature
of an authority's key is over what it stamped, whoever carried or rearranged
the token; `Verify` binds the text signed to the imprint, and the imprint to
the link.

**Two windows.** The theorems about anchors speak of one file and what was
recorded. `OneLinkOneHistory` speaks of two files, whoever sealed them: if each
passes with its links recomputed and they share one link, at whatever index in
each, then going back from there claim by claim they agree in position,
predecessor, link and content for as long as both go, by induction on the way
back (`LinksBind` for each claim, continuity to the one before). A producer that
keeps two histories can therefore show them with no common link after the place
where they part: no anchor recorded past it can vouch for both.

**Termination.** `EveryFileJudged` and `EveryTreeJudged` are liveness and stay
with TLC. What would make them fail, a walk that goes on for ever, is excluded
for every file by `WalkEnds` and `TreeWalkEnds`: `StepsLeft` is a natural number,
positive while the walk is on, at most 2n + 6 for n claims, and every step lowers
it; nothing else moves meanwhile. In a tree bundle the paths are the sealer's and
may be of any length, so the measure does not count their hashes: a fold lowers
the height `sn` of its walk (`FoldNearer`, with `CarriedLower` for the odd nodes
that are carried up), at the root it takes no further hash, and so no claim's path
takes more steps than the head's tree has leaves.

**Octets.** `OneForm` says that what is accepted is exactly what some value is
written as. One direction needs that a number has one sequence of digits without
a leading zero (`CanonOnly`, by induction over the last digit: quotient and
remainder are determined); the other that this sequence is what `Digits` finds,
and that reading it gives the number back. A length is then its digits behind a
count, where the short form is not to be had; a signed value fits k octets
exactly when the octets ahead of the last k only repeat its sign
(`DerInteger` asks no more, as the first nine bits decide). For identifiers the
scan of `derOID` has the invariant `Held`: what was read is the writing of some
subidentifiers, followed by the opening octets of one more, whose value so far is
`v`; `start` says that there are none. An octet keeps it by closing that
subidentifier or adding to it, and the two refusals are the two ways in which it
would not be one that can be written. Sets of lengths stand in for induction
over sequences (`Upwards`).

**Trees and folds.** Roots, proofs and the shifts of a fold are recursive
functions. That they exist is proved by induction over a set of naturals
(`Upwards`), on functions cut off at a depth (`RootsExist`, `PathsExist`,
`ClimbExists`); what they are follows (`RootOne`, `RootTwo`,
`InclusionPathsAre`, `SubProofsAre`). `SameRoot` is the heart of it: ideal
hashes and the two separators make parts of two logs with one root the same
leaves. A walk stands over a node of the tree (`Stands`), the slice of q leaves,
a power of two, that begins at `fn * q` and is cut off at the log's end, and one
hash takes it to the node above (`StepUp`): a right child, or the odd node
carried up as often as it is odd, gains its left sibling, any other its right.
`Audited` and `Growing` are the inductive invariants for the right size: the
walk has the root of its node exactly when the path so far is that node's, and
the leaf (or the prefix) is right; below the root it has read less than the
whole path (`PathsReach`). For a size that is not the log's a walk stands over
no node of it; there `LeafOf` and `GrownOf` say what would follow if the hash
it holds were that of some part of the log, which no order of folding changes.

**Recorded trees.** The head a tree bundle declares is whatever its sealer
wrote: no log need stand behind it, so what a fold decides about a log's tree
does not apply. What an accepted inclusion path shows of any head is the column
of nodes from the head down to the leaf, by their hashes and where they sit
(`Vouches`), and such a column fixes the leaf at that position, as the sizes of
the slices along it fix every left and right turn. An accepted proof of growth
shows, of two hashes nobody can explain, that whatever the new one vouches for
below the old size is a leaf of every log the old one is the root of (`Binds`).
`ChecksInv` keeps these from phase to phase: of the claims before `pos` that the
head vouches for each, of the path under way that the node it stands at does, of
the proof that the two hashes it holds bind. An early return drops them
(`ChecksFailed`), and a coordinate enters the map only while they hold. A
matched root is then the head, the earlier root, or the leaf hash of the first
claim, and in each case the recorded log's leaves are the ones shown
(`RootShows`); a matched leaf that is not the earlier root is a claim, since,
but for a tree of one leaf, the head of a passing bundle vouches for a claim and
so is no leaf's hash (`LeafShows`). An earlier root may be one: its size is the
sealer's word, a full subtree's root seeds the fold unseen, and no inclusion
path need pass under it (`Graft` builds such a bundle), so the property excepts
the root the log grew from. `DataInv` says anchors are of logs and an unchanged
bundle is cut from its source (`Honest`), `RegistersInv` that a walk stands at a
node of some tree. For unchanged bundles `HonestInv` takes `Audited` and
`Growing` along: there the log is known, every path is the one the fold asks
for, and no check fails.

**Only model-checked.** `EveryFileJudged` and `EveryTreeJudged`, as liveness
under fairness and ENABLED are out of the prover's reach: that a walk cannot go on
for ever is proved above, that it has a next step until the verdict is not. The
five runs of findings refute and have nothing to prove. Everything else that a
passing run checks, each invariant and each action property, is a theorem above.

## 5. Plan

Done: chains and anchors, Merkle folds, trees, spans and times, records, the
pipeline with attestations, disclosures and presentations, the readers, and the
theorems above: every safety property of every passing run, and the bound on
both walks. What could follow: an abstract judge for the tree profile, as
`ChainJudge` is for the linear ones, with `TreeChain` shown to implement it; the
walk over nested DER elements around the octet rules.

## 6. What is not modelled

`PROJECT.json` lists every component with its status. Left out for good:
Ed25519, SHA-256 and X.509 themselves (ideal); the layout of canonical JSON,
taken as injective; the calendar forms of times, key parsing and subject names
in tokens, and the walk over nested DER elements, of which the octet rules are
modelled; `InclusionProofs`, the producer's batch, whose paths are
`InclusionProof`'s leaf by leaf; evidence files, `keygen`, flags and everything
printed; the WebAssembly wrapper, the Python reference verifier (a second
implementation of the same rules), schema, vectors, examples and site.
