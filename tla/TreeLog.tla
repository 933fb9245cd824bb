------------------------------ MODULE TreeLog -------------------------------
(***************************************************************************)
(* A producer's tree log, what third parties recorded of it, bundles that  *)
(* disclose some of its leaves, and the verifier of TreeChain reading them.*)
(*                                                                         *)
(* The producer appends, and may go back to an earlier log and record on   *)
(* from there.  Third parties record a root with its size or one leaf hash.*)
(* Another installation may keep a tree whose first leaves are the         *)
(* producer's.  A bundle may change on its way, within a budget.           *)
(***************************************************************************)
EXTENDS TreeChain, SequencesExt

CONSTANTS
  Owner,        \* the installation the log belongs to
  Records,      \* what it may have to record
  MaxLog,       \* bound: leaves in a log
  MaxShown,     \* bound: claims in a bundle
  MaxAnchors,   \* bound: anchors recorded
  MaxRestores,  \* bound: restores of an earlier log
  MaxEdits      \* bound: changes made to a bundle on its way

ASSUME TreeOwnerAssumption == Owner \in Installs
ASSUME TreeRecordsAssumption ==
  Records \subseteq [core : Core, beside : Beside, install : {NoInstall, Owner}, pack : Pack]
ASSUME TreeBoundsAssumption ==
  /\ {MaxLog, MaxShown} \subseteq Nat \ {0}
  /\ {MaxAnchors, MaxRestores, MaxEdits} \subseteq Nat

VARIABLES
  log,       \* [install, record] per leaf, in order
  ledger,    \* the anchors recorded: kind, coordinates, the log they were taken of
  restores,  \* restores so far
  edits,     \* changes made to the current bundle
  source     \* the log the current bundle was cut from

producerVars == <<log, ledger, restores>>
fileVars == <<bundle, edits, source>>
vars == <<treeVars, producerVars, fileVars>>

NoBundle ==
  [keyed |-> FALSE, producer |-> NoInstall, param |-> NoInstall, claims |-> << >>,
   head |-> [seq |-> 0, link |-> EmptyRoot, prev |-> NoLink], growth |-> NoGrowth,
   anchors |-> {}]

\* A hash no tree at hand holds.
StrayHash == <<"stray", "stray", "stray">>

-----------------------------------------------------------------------------
Leaves(entries) == [i \in DOMAIN entries |-> TreeLeaf(entries[i].install, entries[i].record)]
LogRoot(entries) == Root(Leaves(entries))

\* The claim that discloses entry n, with its audit path.
Disclosed(entries, n) ==
  LET r == entries[n].record
  IN  [chained |-> TRUE, seq |-> n, prev |-> NoLink, link |-> LeafHash(Leaves(entries)[n]),
       included |-> TRUE, path |-> InclusionProof(n - 1, Leaves(entries)),
       core |-> r.core, beside |-> r.beside, install |-> r.install, pack |-> r.pack]

Growth(entries, from) ==
  [from |-> from, root |-> LogRoot(SubSeq(entries, 1, from)),
   path |-> ConsistencyProof(from, Leaves(entries))]

Init ==
  /\ log = << >> /\ ledger = {} /\ restores = 0
  /\ bundle = NoBundle /\ edits = 0 /\ source = << >>
  /\ phase = "idle" /\ pos = 0 /\ err = "" /\ headMatched = FALSE /\ mode = ""
  /\ report = NoReport /\ walk = NoWalk /\ read = 0 /\ growthOK = FALSE

(***************************************************************************)
(* The producer and the third parties.                                     *)
(***************************************************************************)
Append1 ==
  /\ phase = "idle" /\ Len(log) < MaxLog
  /\ \E r \in Records : log' = Append(log, [install |-> Owner, record |-> r])
  /\ UNCHANGED <<ledger, restores, fileVars, treeVars>>

Restore ==
  /\ phase = "idle" /\ restores < MaxRestores
  /\ \E n \in 0 .. Len(log) - 1 : log' = SubSeq(log, 1, n)
  /\ restores' = restores + 1
  /\ UNCHANGED <<ledger, fileVars, treeVars>>

Recorded(kind, n, link) ==
  /\ phase = "idle" /\ Cardinality(ledger) < MaxAnchors
  /\ ledger' = ledger \union {[kind |-> kind, seq |-> n, link |-> link, entries |-> log]}
  /\ UNCHANGED <<log, restores, fileVars, treeVars>>

AnchorRoot == log # << >> /\ Recorded("root", Len(log), LogRoot(log))
AnchorLeaf == \E n \in DOMAIN log : Recorded("leaf", n, LeafHash(Leaves(log)[n]))

\* Some of the first n positions, at most MaxShown of them, in order.
Shown(n) ==
  {s \in UNION {[1 .. k -> 1 .. n] : k \in 1 .. MaxShown} :
     \A i, j \in DOMAIN s : i < j => s[i] < s[j]}

\* A bundle signed by install over a log: some leaves, the head, perhaps a
\* proof of growth from an earlier size, and anchors that name any of these.
Cut(install, entries, shown, from) ==
  /\ phase = "idle"
  /\ LET n == Len(entries)
         growth == IF from = 0 THEN NoGrowth ELSE Growth(entries, from)
         head == [seq |-> n, link |-> LogRoot(entries), prev |-> NoLink]
     IN  \E anchors \in SUBSET ({Coords(a) : a \in ledger} \union {Coords(head)}) :
           bundle' = [keyed |-> FALSE, producer |-> install, param |-> install,
                      claims |-> [i \in DOMAIN shown |-> Disclosed(entries, shown[i])],
                      head |-> head, growth |-> growth, anchors |-> anchors]
  /\ phase' = "transit" /\ edits' = 0 /\ source' = entries
  /\ UNCHANGED <<producerVars, pos, err, headMatched, mode, report, foldVars, growthOK>>

Export ==
  \E n \in DOMAIN log : \E shown \in Shown(n), from \in 0 .. n :
    Cut(Owner, SubSeq(log, 1, n), shown, from)

\* Another installation records on from the owner's leaves, and shows its own.
ExportOther ==
  \E n \in DOMAIN log, install \in Installs \ {Owner}, r \in Records : \E from \in 0 .. n :
    Cut(install, Append(SubSeq(log, 1, n), [install |-> install, record |-> r]), <<n + 1>>, from)

(***************************************************************************)
(* What may become of the file.                                            *)
(***************************************************************************)
Edited ==
  /\ phase = "transit" /\ edits < MaxEdits
  /\ edits' = edits + 1
  /\ UNCHANGED <<source, producerVars, treeVars>>

History == {log, source} \union {a.entries : a \in ledger}

Releafed(b, i) ==
  [b EXCEPT !.claims[i].link = LeafHash(TreeLeaf(b.param, b.claims[i]))]

Repackage ==
  /\ Edited
  /\ \E i \in DOMAIN bundle.claims, pack \in Pack : bundle' = [bundle EXCEPT !.claims[i].pack = pack]

AlterClaim ==
  /\ Edited
  /\ \E i \in DOMAIN bundle.claims :
       \E b \in {[bundle EXCEPT !.claims[i].core = core] : core \in Core} :
         bundle' \in {b, Releafed(b, i)}

MoveClaim ==
  /\ Edited
  /\ \E i \in DOMAIN bundle.claims :
       \/ \E n \in 1 .. MaxLog + 1 : bundle' = [bundle EXCEPT !.claims[i].seq = n]
       \/ bundle' = [bundle EXCEPT !.claims[i].prev = StrayHash]
       \/ bundle' = [bundle EXCEPT !.claims[i].chained = FALSE]
       \/ bundle' = [bundle EXCEPT !.claims[i].included = FALSE]

\* A claim of another log, or another log's path under this claim.
SpliceClaim ==
  /\ Edited
  /\ \E i \in DOMAIN bundle.claims, entries \in History : \E n \in DOMAIN entries :
       LET c == Disclosed(entries, n) IN
       bundle' \in {[bundle EXCEPT !.claims[i] = c], [bundle EXCEPT !.claims[i].path = c.path]}

DropClaim ==
  /\ Edited
  /\ Len(bundle.claims) > 1
  /\ \E i \in DOMAIN bundle.claims : bundle' = [bundle EXCEPT !.claims = RemoveAt(@, i)]

SetHead ==
  /\ Edited
  /\ \/ \E n \in 1 .. MaxLog + 1 : bundle' = [bundle EXCEPT !.head.seq = n]
     \/ \E entries \in History \ {<< >>} :
          bundle' = [bundle EXCEPT !.head.link = LogRoot(entries), !.head.seq = Len(entries)]
     \/ bundle' = [bundle EXCEPT !.head.prev = StrayHash]

SetGrowth ==
  /\ Edited
  /\ \/ \E entries \in History : \E from \in DOMAIN entries :
          \E g \in {Growth(entries, from)} :
            bundle' \in {[bundle EXCEPT !.growth = g],
                         [bundle EXCEPT !.growth = [bundle.growth EXCEPT !.from = g.from, !.root = g.root]]}
     \/ bundle' = [bundle EXCEPT !.growth = NoGrowth]

\* A tree built on an anchored hash as on the root of a full subtree of that
\* size, whatever was hashed there, with a claim as its one further leaf.
Graft ==
  /\ Edited
  /\ \E a \in ledger, i \in DOMAIN bundle.claims :
       LET c == Releafed(bundle, i).claims[i]
           n == a.seq + 1
       IN  bundle' = [bundle EXCEPT
             !.claims = <<[c EXCEPT !.seq = n, !.path = <<a.link>>]>>,
             !.head = [seq |-> n, link |-> NodeHash(a.link, c.link), prev |-> NoLink],
             !.growth = [from |-> a.seq, root |-> a.link, path |-> <<c.link>>]]

Relabel ==
  /\ Edited
  /\ \/ bundle' = [bundle EXCEPT !.keyed = ~@]
     \/ \E install \in Installs : \E param \in {bundle.param, install, NoInstall} :
          bundle' = [bundle EXCEPT !.producer = install, !.param = param]

Edit ==
  \/ Repackage \/ AlterClaim \/ MoveClaim \/ SpliceClaim
  \/ DropClaim \/ SetHead \/ SetGrowth \/ Graft \/ Relabel

(***************************************************************************)
(* The relying party.                                                      *)
(***************************************************************************)
Deliver ==
  /\ phase = "transit"
  /\ phase' = "declared"
  /\ UNCHANGED <<producerVars, fileVars, pos, err, headMatched, mode, report, foldVars, growthOK>>

Discard ==
  /\ phase = "done"
  /\ bundle' = NoBundle /\ edits' = 0 /\ source' = << >>
  /\ phase' = "idle" /\ pos' = 0 /\ err' = "" /\ headMatched' = FALSE /\ mode' = ""
  /\ report' = NoReport /\ walk' = NoWalk /\ read' = 0 /\ growthOK' = FALSE
  /\ UNCHANGED producerVars

Run == VerifyTree /\ UNCHANGED <<producerVars, edits, source>>

Next ==
  \/ Append1 \/ Restore \/ AnchorRoot \/ AnchorLeaf \/ Export \/ ExportOther
  \/ Edit \/ Deliver \/ Run \/ Discard

Spec == Init /\ [][Next]_vars /\ WF_vars(Run)

-----------------------------------------------------------------------------
(***************************************************************************)
(* Properties.                                                             *)
(***************************************************************************)

\* Every variable has its type.
TypeOK ==
  /\ Len(log) \in 0 .. MaxLog /\ restores \in 0 .. MaxRestores /\ edits \in 0 .. MaxEdits
  /\ Cardinality(ledger) \in 0 .. MaxAnchors
  /\ phase \in TreePhases /\ pos \in Nat /\ read \in Nat
  /\ err \in Errors \union {""} /\ mode \in {"", ModeFull}
  /\ headMatched \in BOOLEAN /\ growthOK \in BOOLEAN
  /\ walk.fn \in Nat /\ walk.sn \in Nat /\ walk.fn <= walk.sn
  /\ report.ok \in BOOLEAN /\ report.level \in Levels
  /\ {report.matched, report.declared, report.through, report.unanchored} \subseteq Nat

Verdict == phase = "done" /\ report.ok
Anchored == phase = "done" /\ report.level = "signed, chained, anchored"

\* The recorded anchors among those the verdict counted.
Witnesses(kind) ==
  {a \in ledger : a.kind = kind /\ Coords(a) \in TreeMatched(bundle, headMatched, growthOK)}

ShowsEntry(c, a) ==
  /\ c.seq \in DOMAIN a.entries
  /\ bundle.param = a.entries[c.seq].install
  /\ ClaimContent(c) = ClaimContent(a.entries[c.seq].record)

\* A matched root fixes everything before it: whatever became of the log and the
\* file, a bundle that passes over a root somebody really recorded shows, up to
\* that root's size, the leaves the log held when it was recorded.
RootMeansRecorded ==
  Verdict =>
    \A a \in Witnesses("root") : \A i \in DOMAIN bundle.claims :
      bundle.claims[i].seq <= a.seq => ShowsEntry(bundle.claims[i], a)

\* A matched leaf fixes its own entry: the bundle shows it, as it was recorded,
\* unless it is matched as the root the log grew from, of which nothing need be
\* shown.
LeafMeansEntry ==
  Verdict =>
    \A a \in Witnesses("leaf") :
      Coords(a) # [seq |-> bundle.growth.from, link |-> bundle.growth.root] =>
        \E i \in DOMAIN bundle.claims :
          bundle.claims[i].seq = a.seq /\ ShowsEntry(bundle.claims[i], a)

\* A producer that dropped or changed an entry recorded before a root cannot
\* head a log with a proof that it grew from that root (FORMAT, consistency
\* proofs): over a recorded root and the head of a log that exists, growth that
\* verified means the one is a prefix of the other, packaging aside.
GrowthMeansPrefix ==
  Verdict /\ growthOK =>
    \A a \in Witnesses("root") :
      /\ Coords(a) = [seq |-> bundle.growth.from, link |-> bundle.growth.root]
      /\ Coords(bundle.head) = [seq |-> Len(source), link |-> LogRoot(source)]
      => IsPrefix(Leaves(a.entries), Leaves(source))

\* Disclosing any leaves of a log, with any proof of growth, verifies: an
\* untouched bundle fails for nothing but an anchor that names none of its roots.
HonestBundleVerifies ==
  phase = "done" /\ edits = 0 =>
    /\ err = "" /\ (growthOK <=> HasGrowth(bundle))
    /\ \A a \in bundle.anchors :
         a \in {Coords(bundle.head), [seq |-> bundle.growth.from, link |-> bundle.growth.root]}
           => TreeVerified(bundle, headMatched, growthOK, a)

\* Every file handed over gets a verdict, however long its paths are.
EveryTreeJudged == phase = "declared" ~> phase = "done"

-----------------------------------------------------------------------------
(***************************************************************************)
(* What the documents say and the code does not do.                        *)
(***************************************************************************)

\* FORMAT on a leaf anchor: "reported as matched but does not by itself earn the
\* anchored level".
LeafEarnsNoLevel ==
  Anchored => TreeMatched(bundle, headMatched, growthOK) \intersect
                {Coords(bundle.head), [seq |-> bundle.growth.from, link |-> bundle.growth.root]} # {}

\* FORMAT: in the tree profile "anchor resolution is total", an anchor that names
\* the head, the verified root the log grew from, or a disclosed claim's position
\* and link is matched, and only one that names none of them fails the bundle.
ResolutionTotal ==
  /\ phase = "done" /\ err = ""
  /\ \A a \in bundle.anchors :
       \/ a = Coords(bundle.head)
       \/ growthOK /\ a = [seq |-> bundle.growth.from, link |-> bundle.growth.root]
       \/ \E i \in DOMAIN bundle.claims : a = Coords(bundle.claims[i])
  => report.ok

\* measureUnanchored: "An anchor fixes history only up to the position it names,
\* so the claims after the last anchored position are the ones a compromised
\* producer key could still rewrite", so those before it are as recorded.
ReachIsRecorded ==
  Verdict =>
    \A a \in Witnesses("root") \union Witnesses("leaf") : \A i \in DOMAIN bundle.claims :
      a.seq = report.through /\ bundle.claims[i].seq <= a.seq => ShowsEntry(bundle.claims[i], a)
=============================================================================
