----------------------------- MODULE AnchoredLog ----------------------------
(***************************************************************************)
(* A producer's linear log, the anchors third parties recorded over it, a  *)
(* bundle cut from it, and the verifier of LinearChain reading that bundle.*)
(*                                                                         *)
(* The producer appends, and now and then restores an earlier copy of its  *)
(* log and records on from there, so entries that were anchored may be     *)
(* followed by a different history.  A bundle is a window of the log; on   *)
(* its way it may be cut, altered, relinked, relabelled or re-signed by    *)
(* another installation, within a budget.  The verifier is a run to        *)
(* completion over one file it read into memory, so nothing else moves     *)
(* while it works.                                                         *)
(***************************************************************************)
EXTENDS LinearChain

CONSTANTS
  Owner,        \* the installation the log belongs to
  Records,      \* what it may have to record, position and link aside
  Key,          \* its link key, used when the chain is keyed
  MaxLog,       \* bound: entries in the log
  MaxAnchors,   \* bound: anchors recorded
  MaxRestores,  \* bound: restores of an earlier log
  MaxEdits      \* bound: changes made to a bundle on its way

ASSUME OwnerAssumption == Owner \in Installs /\ Key # ""
ASSUME RecordsAssumption ==
  Records \subseteq [core : Core, beside : Beside, install : {NoInstall, Owner}, pack : Pack]
ASSUME BoundsAssumption ==
  MaxLog \in Nat \ {0} /\ {MaxAnchors, MaxRestores, MaxEdits} \subseteq Nat

VARIABLES
  style,     \* [profile, keyed]: how the producer links its log, fixed for good
  log,       \* the producer's entries, entry k at position k
  ledger,    \* the anchors recorded: coordinates, and the log they were taken of
  restores,  \* restores so far
  edits,     \* changes made to the current bundle
  genuine    \* the bundle still says what the log says, packaging aside

producerVars == <<style, log, ledger, restores>>
fileVars == <<bundle, edits, genuine>>
vars == <<bundle, phase, pos, err, headMatched, mode, report,
          style, log, ledger, restores, edits, genuine>>

NoBundle ==
  [profile |-> "none", keyed |-> FALSE, producer |-> NoInstall, param |-> NoInstall,
   claims |-> << >>, head |-> [seq |-> 0, link |-> NoLink], anchors |-> {}]

\* Only loomseal-chain-v1 has a keyed form.
Styles == {st \in [profile : Profiles, keyed : BOOLEAN] : st.keyed => st.profile = ProfileV1}

\* The link the producer writes; only it can write a keyed one.
ProducerLink(st, c) ==
  IF st.profile = ProfileV1
    THEN LinkV1(IF st.keyed THEN Key ELSE "", Owner, c)
    ELSE LinkSwitchTender(c)

\* The entry for record r at position n, after an entry with link prev.
Entry(st, n, prev, r) ==
  LET c == [chained |-> TRUE, seq |-> n, prev |-> prev, link |-> NoLink, core |-> r.core,
            beside |-> r.beside, install |-> r.install, pack |-> r.pack]
  IN  [c EXCEPT !.link = ProducerLink(st, c)]

\* The link entry n of a log has to name as its predecessor's.
PrevLink(entries, n) == IF n = 1 THEN NoLink ELSE entries[n - 1].link

Init ==
  /\ style \in Styles
  /\ log = << >> /\ ledger = {} /\ restores = 0
  /\ bundle = NoBundle /\ edits = 0 /\ genuine = FALSE
  /\ phase = "idle" /\ pos = 0 /\ err = "" /\ headMatched = FALSE /\ mode = ""
  /\ report = NoReport

(***************************************************************************)
(* The producer and the third parties.                                     *)
(***************************************************************************)
Append1 ==
  /\ phase = "idle" /\ Len(log) < MaxLog
  /\ \E r \in Records :
       log' = Append(log, Entry(style, Len(log) + 1, PrevLink(log, Len(log) + 1), r))
  /\ UNCHANGED <<style, ledger, restores, fileVars, runVars>>

\* An earlier copy of the log takes its place.
Restore ==
  /\ phase = "idle" /\ restores < MaxRestores
  /\ \E n \in 0 .. Len(log) - 1 : log' = SubSeq(log, 1, n)
  /\ restores' = restores + 1
  /\ UNCHANGED <<style, ledger, fileVars, runVars>>

\* A timestamp authority or a public feed records the newest link.
AnchorHead ==
  /\ phase = "idle" /\ log # << >> /\ Cardinality(ledger) < MaxAnchors
  /\ ledger' = ledger \union
       {[seq |-> Len(log), link |-> log[Len(log)].link, entries |-> log]}
  /\ UNCHANGED <<style, log, restores, fileVars, runVars>>

\* A window from..to of the log, the head at some entry at or past its end,
\* and anchors taken from the ledger or naming the head.
Export ==
  /\ phase = "idle"
  /\ \E from \in DOMAIN log : \E to \in from .. Len(log) : \E top \in to .. Len(log) :
       \E anchors \in SUBSET ({Coords(a) : a \in ledger} \union {Coords(log[top])}) :
         /\ bundle' = [profile |-> style.profile, keyed |-> style.keyed,
                       producer |-> Owner, param |-> Owner,
                       claims |-> SubSeq(log, from, to),
                       head |-> Coords(log[top]), anchors |-> anchors]
         /\ genuine' = \A a \in anchors : \E k \in (from .. to) \union {top} :
                                            a = Coords(log[k])
  /\ phase' = "transit" /\ edits' = 0
  /\ UNCHANGED <<producerVars, pos, err, headMatched, mode, report>>

(***************************************************************************)
(* What may become of the file.  Whoever changes it can recompute an       *)
(* unkeyed link, so a changed claim is relinked or not.                    *)
(***************************************************************************)
Edited(keepsGenuine) ==
  /\ phase = "transit" /\ edits < MaxEdits
  /\ edits' = edits + 1
  /\ genuine' = (genuine /\ keepsGenuine)
  /\ UNCHANGED <<producerVars, runVars>>

Relinked(b, i) == [b EXCEPT !.claims[i].link = Recomputed(b, i)]

\* The file with claim i replaced, as it is or relinked.
Replaces(i, c) ==
  LET b == [bundle EXCEPT !.claims[i] = c]
  IN  bundle' \in {b, Relinked(b, i)}

\* Packaging changes hands freely: redaction, attestations, artifact locations.
Repackage ==
  /\ Edited(TRUE)
  /\ \E i \in DOMAIN bundle.claims, pack \in Pack :
       bundle' = [bundle EXCEPT !.claims[i].pack = pack]

AlterClaim ==
  /\ Edited(FALSE)
  /\ \E i \in DOMAIN bundle.claims :
       LET c == bundle.claims[i] IN
       \/ \E core \in Core \ {c.core} : Replaces(i, [c EXCEPT !.core = core])
       \/ \E beside \in Beside \ {c.beside} : Replaces(i, [c EXCEPT !.beside = beside])
       \/ \E install \in (Installs \union {NoInstall}) \ {c.install} :
            Replaces(i, [c EXCEPT !.install = install])

MoveClaim ==
  /\ Edited(FALSE)
  /\ \E i \in DOMAIN bundle.claims :
       LET c == bundle.claims[i] IN
       \/ \E n \in 1 .. MaxLog + 1 : Replaces(i, [c EXCEPT !.seq = n])
       \/ \E l \in {NoLink, StrayLink} \union {bundle.claims[j].link : j \in 1 .. i - 1} :
            Replaces(i, [c EXCEPT !.prev = l])

\* An entry of a log as it once was takes a claim's place.
SpliceClaim ==
  /\ Edited(FALSE)
  /\ \E i \in DOMAIN bundle.claims, a \in ledger : \E k \in DOMAIN a.entries :
       bundle' = [bundle EXCEPT !.claims[i] = a.entries[k]]

DropClaim ==
  /\ Edited(FALSE)
  /\ Len(bundle.claims) > 1
  /\ \E i \in DOMAIN bundle.claims :
       bundle' = [bundle EXCEPT !.claims =
                    SubSeq(@, 1, i - 1) \o SubSeq(@, i + 1, Len(@))]

StripCoordinates ==
  /\ Edited(FALSE)
  /\ \E i \in DOMAIN bundle.claims :
       bundle' = [bundle EXCEPT !.claims[i].chained = FALSE]

\* The head names one of the claims, or a position nothing backs.
SetHead ==
  /\ Edited(FALSE)
  /\ \E head \in {Coords(bundle.claims[i]) : i \in DOMAIN bundle.claims}
                   \union [seq : 1 .. MaxLog + 1, link : {StrayLink}] :
       \E anchors \in {bundle.anchors, bundle.anchors \union {head}} :
         bundle' = [bundle EXCEPT !.head = head, !.anchors = anchors]

\* Another profile, another keying, another signer with or without its own
\* install id in the chain's parameters.
Relabel ==
  /\ Edited(FALSE)
  /\ \/ \E p \in Profiles : bundle' = [bundle EXCEPT !.profile = p]
     \/ bundle' = [bundle EXCEPT !.keyed = ~@]
     \/ \E install \in Installs : \E param \in {bundle.param, install, NoInstall} :
          bundle' = [bundle EXCEPT !.producer = install, !.param = param]

Edit ==
  \/ Repackage \/ AlterClaim \/ MoveClaim \/ SpliceClaim
  \/ DropClaim \/ StripCoordinates \/ SetHead \/ Relabel

(***************************************************************************)
(* The relying party.                                                      *)
(***************************************************************************)
Deliver ==
  /\ phase = "transit"
  /\ phase' = "coords"
  /\ UNCHANGED <<producerVars, fileVars, pos, err, headMatched, mode, report>>

\* The verdict is read and the file put aside; nothing of it is kept.
Discard ==
  /\ phase = "done"
  /\ bundle' = NoBundle /\ edits' = 0 /\ genuine' = FALSE
  /\ phase' = "idle" /\ pos' = 0 /\ err' = "" /\ headMatched' = FALSE /\ mode' = ""
  /\ report' = NoReport
  /\ UNCHANGED producerVars

Run == Verify /\ UNCHANGED <<producerVars, edits, genuine>>

Next ==
  \/ Append1 \/ Restore \/ AnchorHead \/ Export \/ Edit \/ Deliver \/ Run \/ Discard

Spec == Init /\ [][Next]_vars /\ WF_vars(Run)

-----------------------------------------------------------------------------
(***************************************************************************)
(* Properties.                                                             *)
(***************************************************************************)

\* Every variable has its type; links are left to the other invariants.
TypeOK ==
  /\ style \in Styles
  /\ Len(log) \in 0 .. MaxLog
  /\ Cardinality(ledger) \in 0 .. MaxAnchors
  /\ restores \in 0 .. MaxRestores
  /\ edits \in 0 .. MaxEdits
  /\ genuine \in BOOLEAN
  /\ phase \in Phases
  /\ pos \in Nat
  /\ err \in Errors \union {""}
  /\ headMatched \in BOOLEAN
  /\ mode \in {"", ModeFull, ModeStructural}
  /\ report.ok \in BOOLEAN /\ report.level \in Levels
  /\ {report.matched, report.declared, report.through, report.unanchored} \subseteq Nat

Anchored == phase = "done" /\ report.level = "signed, chained, anchored"

\* The recorded anchors among those the verdict counted.
Witnesses == {a \in ledger : Coords(a) \in MatchedAnchors(bundle, headMatched)}

\* Claim c is the entry the log held at c's position when a was recorded, in
\* everything the log's links commit.
RecordedAs(c, a) ==
  /\ c.seq \in DOMAIN a.entries
  /\ Committed(style.profile, c) = Committed(style.profile, a.entries[c.seq])

\* The anchored word (verify.go level) means what it says: whatever happened to
\* the log and to the file, a bundle that earns it over an anchor somebody
\* really recorded shows, at and before that anchor, the entries the log held
\* when the anchor was recorded.
AnchoredMeansRecorded ==
  Anchored =>
    \A a \in Witnesses : \A i \in DOMAIN bundle.claims :
      bundle.claims[i].seq <= a.seq => RecordedAs(bundle.claims[i], a)

\* Anchored history cannot be passed off as another installation's: a bundle
\* another install signs earns the anchored word over a recorded anchor only
\* under the switchtender profile, and only with entries recorded before that
\* log adopted install ids (checkSwitchTender, checkV1).
LiftedHistoryRefused ==
  Anchored /\ bundle.producer # Owner =>
    \A a \in Witnesses :
      /\ style.profile = ProfileSwitchTender
      /\ \A i \in DOMAIN bundle.claims :
           bundle.claims[i].seq <= a.seq =>
             a.entries[bundle.claims[i].seq].install = NoInstall

\* The reach the report states (measureUnanchored) is never overstated: it ends
\* at a claim the bundle shows, whose coordinates an anchor names, and the claims
\* it calls unanchored are exactly those between there and the newest one.
ReachNeverOverstated ==
  phase = "done" /\ report.ok /\ report.through > 0 =>
    /\ \E i \in DOMAIN bundle.claims :
         bundle.claims[i].seq = report.through /\ Coords(bundle.claims[i]) \in bundle.anchors
    /\ report.unanchored = Newest(bundle).seq - report.through

\* Cutting a window and repackaging it costs nothing: a bundle that says what
\* the log says verifies, in the mode its keying allows, and is anchored exactly
\* when its links recompute and an anchor names one of its claims.
HonestWindowVerifies ==
  phase = "done" /\ genuine =>
    /\ report.ok
    /\ mode = IF style.keyed THEN ModeStructural ELSE ModeFull
    /\ report.level = "signed, chained, anchored" <=>
         ~style.keyed /\ \E i \in DOMAIN bundle.claims :
                            Coords(bundle.claims[i]) \in bundle.anchors

\* The loops, the early returns and the order of the tests amount to the one-step
\* judgement of ChainJudge, on the file as it stood when it was handed over.
Judged == INSTANCE ChainJudge WITH
  NoFile <- NoBundle,
  file <- IF phase \in {"idle", "transit"} THEN NoBundle ELSE bundle,
  verdict <- [judged |-> phase = "done", ok |-> report.ok,
              mode |-> IF phase = "done" THEN mode ELSE "",
              level |-> IF phase = "done" THEN report.level ELSE ""]
ImplementsJudge == Judged!JudgeSpec

\* Every file handed over gets a verdict: no claim, head or profile leaves the
\* walk of Run without a next step.
EveryFileJudged == phase = "coords" ~> phase = "done"
=============================================================================
