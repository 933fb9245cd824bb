------------------------- MODULE AnchoredLog_proofs -------------------------
(***************************************************************************)
(* For every log, ledger, file and bound: the invariant of AnchoredLogInv, *)
(* and from it what the anchored word means.                               *)
(***************************************************************************)
EXTENDS AnchoredLogInv, SequenceTheorems, FiniteSetTheorems, NaturalsInduction,
        WellFoundedInduction, TLAPS

-----------------------------------------------------------------------------
(* Sequences of claims. *)

\* A sequence over its own elements has a length and the indexes up to it.
LEMMA SequenceShape ==
  ASSUME NEW s, IsSequence(s)
  PROVE  /\ Len(s) \in Nat
         /\ DOMAIN s = 1 .. Len(s)
BY LenProperties DEF IsSequence

\* A sequence over any set is one over its own elements.
LEMMA IsSequenceIntro ==
  ASSUME NEW S, NEW s \in Seq(S)
  PROVE  IsSequence(s)
<1> DEFINE T == {s[i] : i \in DOMAIN s}
<1>1. Len(s) \in Nat /\ DOMAIN s = 1 .. Len(s) /\ s \in [1 .. Len(s) -> S]
  BY LenProperties
<1>2. s \in [1 .. Len(s) -> T]
  BY <1>1
<1>3. s \in Seq(T)
  BY <1>1, <1>2, SeqDef
<1> QED BY <1>3 DEF IsSequence

\* No claims at all.
LEMMA NoClaims == IsClaims(<< >>) /\ Len(<< >>) = 0 /\ DOMAIN << >> = {}
<1>1. << >> \in Seq({}) /\ Len(<< >>) = 0
  BY EmptySeq
<1>2. DOMAIN << >> = {}
  BY <1>1
<1>3. IsSequence(<< >>)
  BY <1>1, IsSequenceIntro
<1>4. ASSUME NEW s, s = << >>
      PROVE  IsClaims(s)
  BY <1>2, <1>3, <1>4 DEF IsClaims
<1> QED BY <1>1, <1>2, <1>4

\* Appending one claim.
LEMMA AppendClaim ==
  ASSUME NEW s, NEW e, IsClaims(s), IsClaim(e)
  PROVE  /\ IsClaims(Append(s, e))
         /\ Len(Append(s, e)) = Len(s) + 1
         /\ Append(s, e)[Len(s) + 1] = e
         /\ \A i \in DOMAIN s : Append(s, e)[i] = s[i]
<1> DEFINE T == {s[i] : i \in DOMAIN s} \union {e}
<1>1. s \in Seq(T)
  BY SeqMonotonic DEF IsClaims, IsSequence
<1>2. Len(s) \in Nat /\ DOMAIN s = 1 .. Len(s)
  BY SequenceShape DEF IsClaims
<1>3. Append(s, e) \in Seq(T) /\ Len(Append(s, e)) = Len(s) + 1
  BY <1>1
<1>4. Append(s, e)[Len(s) + 1] = e
  BY <1>1
<1>5. \A i \in DOMAIN s : Append(s, e)[i] = s[i]
  BY <1>1, <1>2
<1>6. IsSequence(Append(s, e)) /\ DOMAIN Append(s, e) = 1 .. Len(s) + 1
  BY <1>3, IsSequenceIntro, LenProperties
<1> QED BY <1>2, <1>3, <1>4, <1>5, <1>6 DEF IsClaims

\* A window of the claims.
LEMMA WindowOfClaims ==
  ASSUME NEW s, IsClaims(s), NEW m \in Nat \ {0}, NEW n \in 0 .. Len(s)
  PROVE  /\ IsClaims(SubSeq(s, m, n))
         /\ Len(SubSeq(s, m, n)) = IF m <= n THEN n - m + 1 ELSE 0
         /\ \A i \in DOMAIN SubSeq(s, m, n) :
              i \in 1 .. n - m + 1 /\ SubSeq(s, m, n)[i] = s[m + i - 1]
<1> DEFINE T == {s[i] : i \in DOMAIN s}
           w == SubSeq(s, m, n)
<1>1. Len(s) \in Nat /\ DOMAIN s = 1 .. Len(s)
  BY SequenceShape DEF IsClaims
<1>2. \A i \in m .. n : s[i] \in T
  BY <1>1
<1>3. /\ w \in Seq(T)
      /\ Len(w) = IF m <= n THEN n - m + 1 ELSE 0
      /\ \A i \in 1 .. n - m + 1 : w[i] = s[m + i - 1]
  BY <1>1, <1>2, SubSeqProperties
<1>4. IsSequence(w) /\ DOMAIN w = 1 .. Len(w)
  BY <1>3, IsSequenceIntro, LenProperties
<1>5. \A i \in DOMAIN w : i \in 1 .. n - m + 1 /\ m + i - 1 \in DOMAIN s
  BY <1>1, <1>3, <1>4
<1> HIDE DEF w
<1>6. \A i \in DOMAIN w : IsClaim(w[i])
  BY <1>3, <1>5 DEF IsClaims
<1>7. IsClaims(w)
  BY <1>4, <1>6 DEF IsClaims
<1> QED BY <1>3, <1>5, <1>7 DEF w

\* Two runs of claims put together.
LEMMA JoinClaims ==
  ASSUME NEW s, NEW t, IsClaims(s), IsClaims(t)
  PROVE  IsClaims(s \o t) /\ Len(s \o t) = Len(s) + Len(t)
<1> DEFINE T == {s[i] : i \in DOMAIN s} \union {t[i] : i \in DOMAIN t}
<1>1. s \in Seq(T) /\ t \in Seq(T)
  BY SeqMonotonic DEF IsClaims, IsSequence
<1>2. \A c \in T : IsClaim(c)
  BY DEF IsClaims
<1>3. s \o t \in Seq(T) /\ Len(s \o t) = Len(s) + Len(t)
  BY <1>1, ConcatProperties
<1> HIDE DEF T
<1>4. \A i \in DOMAIN (s \o t) : (s \o t)[i] \in T
  BY <1>3, LenProperties, ElementOfSeq
<1>5. IsSequence(s \o t)
  BY <1>3, IsSequenceIntro
<1> QED BY <1>2, <1>3, <1>4, <1>5 DEF IsClaims

\* One claim replaced.
LEMMA ReplaceClaim ==
  ASSUME NEW s, IsClaims(s), NEW i \in DOMAIN s, NEW c, IsClaim(c)
  PROVE  /\ IsClaims([s EXCEPT ![i] = c])
         /\ Len([s EXCEPT ![i] = c]) = Len(s)
<1> DEFINE T == {s[k] : k \in DOMAIN s} \union {c}
           r == [s EXCEPT ![i] = c]
<1>1. s \in Seq(T) /\ Len(s) \in Nat /\ DOMAIN s = 1 .. Len(s)
  BY SeqMonotonic, SequenceShape DEF IsClaims, IsSequence
<1>2. /\ r \in Seq(T) /\ Len(r) = Len(s)
      /\ \A j \in 1 .. Len(s) : r[j] = IF j = i THEN c ELSE s[j]
  BY <1>1, ExceptSeq
<1>3. IsSequence(r) /\ DOMAIN r = 1 .. Len(s)
  BY <1>2, IsSequenceIntro, LenProperties
<1>4. \A j \in DOMAIN r : IsClaim(r[j])
  BY <1>1, <1>2, <1>3 DEF IsClaims
<1> QED BY <1>2, <1>3, <1>4 DEF IsClaims

-----------------------------------------------------------------------------
(* Links. *)

\* An unkeyed link equal to one the producer wrote was made by the same profile
\* from the same position, predecessor and content, and for the same install.
LEMMA LinkBinds ==
  ASSUME NEW b, NEW i, NEW st \in Styles, NEW e,
         b.profile \in Profiles,
         Recomputed(b, i) = ProducerLink(st, e)
  PROVE  /\ b.profile = st.profile
         /\ b.profile = ProfileV1 => b.param = Owner
         /\ b.claims[i].seq = e.seq
         /\ b.claims[i].prev = e.prev
         /\ Committed(st.profile, b.claims[i]) = Committed(st.profile, e)
<1> USE DEF Recomputed, ProducerLink, Committed, Profiles, ProfileV1, ProfileSwitchTender
<1>1. CASE b.profile = ProfileV1 /\ st.profile = ProfileV1
  BY <1>1, OwnerAssumption DEF LinkV1, Styles
<1>2. CASE b.profile = ProfileSwitchTender /\ st.profile = ProfileSwitchTender
  BY <1>2 DEF LinkSwitchTender
<1>3. CASE b.profile = ProfileV1 /\ st.profile = ProfileSwitchTender
  BY <1>3 DEF LinkV1, LinkSwitchTender
<1>4. CASE b.profile = ProfileSwitchTender /\ st.profile = ProfileV1
  BY <1>4 DEF LinkV1, LinkSwitchTender
<1>5. st.profile \in Profiles
  BY DEF Styles
<1> QED BY <1>1, <1>2, <1>3, <1>4, <1>5

\* The entry for a record is a claim, linked as the producer links it.
LEMMA EntryShape ==
  ASSUME NEW st, NEW n \in Nat \ {0}, NEW prev, NEW r \in Records
  PROVE  LET e == Entry(st, n, prev, r) IN
         /\ IsClaim(e)
         /\ e.seq = n /\ e.prev = prev
         /\ e.link = ProducerLink(st, e)
         /\ e.install \in {NoInstall, Owner}
<1>1. r.install \in {NoInstall, Owner}
  BY RecordsAssumption
<1> QED BY <1>1 DEF Entry, IsClaim, ClaimMembers, ProducerLink, LinkV1, LinkSwitchTender,
                    ClaimContent

\* An append keeps a log linked.
LEMMA LinkedAppend ==
  ASSUME NEW st, NEW s, Linked(st, s), NEW r \in Records
  PROVE  Linked(st, Append(s, Entry(st, Len(s) + 1, PrevLink(s, Len(s) + 1), r)))
<1> DEFINE n == Len(s) + 1
           e == Entry(st, n, PrevLink(s, n), r)
           t == Append(s, e)
<1>1. IsClaims(s) /\ Len(s) \in Nat /\ DOMAIN s = 1 .. Len(s)
  BY SequenceShape DEF Linked, IsClaims
<1>2. /\ IsClaim(e) /\ e.seq = n /\ e.prev = PrevLink(s, n)
      /\ e.link = ProducerLink(st, e) /\ e.install \in {NoInstall, Owner}
  BY <1>1, EntryShape
<1> HIDE DEF e
<1>3. IsClaims(t) /\ Len(t) = n /\ t[n] = e /\ \A i \in DOMAIN s : t[i] = s[i]
  BY <1>1, <1>2, AppendClaim
<1>4. DOMAIN t = 1 .. n
  BY <1>3, SequenceShape DEF IsClaims
<1> HIDE DEF t
<1>5. ASSUME NEW k \in DOMAIN t
      PROVE  /\ t[k].seq = k /\ t[k].prev = PrevLink(t, k)
             /\ t[k].link = ProducerLink(st, t[k]) /\ t[k].install \in {NoInstall, Owner}
  <2>1. PrevLink(t, k) = PrevLink(s, k)
    BY <1>1, <1>3, <1>4 DEF PrevLink
  <2>2. CASE k = n
    BY <1>2, <1>3, <2>1, <2>2
  <2>3. CASE k # n
    <3>1. k \in DOMAIN s /\ t[k] = s[k]
      BY <1>1, <1>3, <1>4, <2>3
    <3> QED BY <2>1, <3>1 DEF Linked
  <2> QED BY <2>2, <2>3
<1> QED BY <1>3, <1>5 DEF Linked, t, e

\* So does going back to an earlier log.
LEMMA LinkedPrefix ==
  ASSUME NEW st, NEW s, Linked(st, s), NEW n \in 0 .. Len(s)
  PROVE  Linked(st, SubSeq(s, 1, n))
<1> DEFINE t == SubSeq(s, 1, n)
<1>1. IsClaims(s) /\ Len(s) \in Nat /\ DOMAIN s = 1 .. Len(s)
  BY SequenceShape DEF Linked, IsClaims
<1>2. /\ IsClaims(t)
      /\ \A i \in DOMAIN t : i \in 1 .. n /\ t[i] = s[i]
      /\ Len(t) = n
  BY <1>1, WindowOfClaims
<1>3. DOMAIN t = 1 .. n
  BY <1>2, SequenceShape DEF IsClaims
<1> HIDE DEF t
<1>4. \A k \in DOMAIN t : k \in DOMAIN s /\ t[k] = s[k] /\ PrevLink(t, k) = PrevLink(s, k)
  BY <1>1, <1>2, <1>3 DEF PrevLink
<1>5. Linked(st, t)
  BY <1>2, <1>4 DEF Linked
<1> QED BY <1>5 DEF t

-----------------------------------------------------------------------------
(* Which steps touch what. *)

\* The verifier only reads: the file, the log and the ledger stay as they are.
LEMMA RunFrame ==
  Run => UNCHANGED <<bundle, style, log, ledger, restores, edits, genuine>>
BY DEF Run, Verify, CheckCoordinates, CheckContinuity, CheckHead, CheckProfile, CheckLinks,
       CheckAnchors, Goto, Fail, producerVars

\* A file on its way meets neither the log nor the verifier.
LEMMA EditFrame ==
  Edit => phase = "transit" /\ UNCHANGED <<style, log, ledger, restores, phase, pos, err,
                                           headMatched, mode, report>>
BY DEF Edit, Repackage, AlterClaim, MoveClaim, SpliceClaim, DropClaim, StripCoordinates,
       SetHead, Relabel, Edited, producerVars, runVars

\* Nothing recorded, nothing cut, nothing read: the invariant holds at first.
LEMMA InitInv == Init => IInv
<1> SUFFICES ASSUME Init PROVE IInv
  OBVIOUS
<1>1. LogInv
  BY NoClaims DEF Init, LogInv, Linked
<1>2. LedgerInv
  BY FS_EmptySet DEF Init, LedgerInv
<1>3. BundleInv
  BY DEF Init, BundleInv
<1>4. WalkInv
  BY DEF Init, WalkInv, Phases, Walking, Sound, ModeFull
<1>5. ReportInv
  BY DEF Init, ReportInv
<1> QED BY <1>1, <1>2, <1>3, <1>4, <1>5 DEF IInv

\* Recording, restoring and nothing else changes the log, and it stays linked.
LEMMA LogKept == IInv /\ [Next]_vars => LogInv'
<1> SUFFICES ASSUME LogInv, [Next]_vars PROVE LogInv'
  BY DEF IInv
<1>1. CASE Append1
  <2>1. PICK r \in Records :
          log' = Append(log, Entry(style, Len(log) + 1, PrevLink(log, Len(log) + 1), r))
    BY <1>1 DEF Append1
  <2> QED BY <1>1, <2>1, LinkedAppend DEF LogInv, Append1
<1>2. CASE Restore
  <2>1. PICK n \in 0 .. Len(log) - 1 : log' = SubSeq(log, 1, n)
    BY <1>2 DEF Restore
  <2>2. Len(log) \in Nat
    BY SequenceShape DEF LogInv, Linked, IsClaims
  <2> QED BY <1>2, <2>1, <2>2, LinkedPrefix DEF LogInv, Restore
<1>3. CASE AnchorHead \/ Export \/ Deliver \/ Discard
  BY <1>3 DEF LogInv, AnchorHead, Export, Deliver, Discard, producerVars
<1>4. CASE Edit
  BY <1>4, EditFrame DEF LogInv
<1>5. CASE Run
  BY <1>5, RunFrame DEF LogInv
<1>6. CASE UNCHANGED vars
  BY <1>6 DEF LogInv, vars
<1> QED BY <1>1, <1>2, <1>3, <1>4, <1>5, <1>6 DEF Next

\* An anchor is recorded over a linked log, and stays what it was.
LEMMA LedgerKept == IInv /\ [Next]_vars => LedgerInv'
<1> SUFFICES ASSUME LogInv, LedgerInv, [Next]_vars PROVE LedgerInv'
  BY DEF IInv
<1>1. CASE AnchorHead
  <2> DEFINE n == [seq |-> Len(log), link |-> log[Len(log)].link, entries |-> log]
  <2>1. ledger' = ledger \union {n} /\ style' = style /\ log # << >>
    BY <1>1 DEF AnchorHead
  <2>2. Len(log) \in Nat /\ DOMAIN log = 1 .. Len(log) /\ log \in Seq({log[i] : i \in DOMAIN log})
    BY SequenceShape DEF LogInv, Linked, IsClaims, IsSequence
  <2>3. Len(log) # 0
    BY <2>1, <2>2, EmptySeq
  <2>4. IsFiniteSet(ledger')
    BY <2>1, FS_AddElement DEF LedgerInv
  <2> HIDE DEF n
  <2>5. /\ Linked(style, n.entries)
        /\ n.seq = Len(n.entries) /\ n.seq # 0
        /\ n.link = n.entries[n.seq].link
    BY <2>3 DEF LogInv, n
  <2> QED BY <2>1, <2>4, <2>5 DEF LedgerInv
<1>2. CASE Append1 \/ Restore \/ Export \/ Deliver \/ Discard
  BY <1>2 DEF LedgerInv, Append1, Restore, Export, Deliver, Discard, producerVars
<1>3. CASE Edit
  BY <1>3, EditFrame DEF LedgerInv
<1>4. CASE Run
  BY <1>4, RunFrame DEF LedgerInv
<1>5. CASE UNCHANGED vars
  BY <1>5 DEF LedgerInv, vars
<1> QED BY <1>1, <1>2, <1>3, <1>4, <1>5 DEF Next

-----------------------------------------------------------------------------
(* The file. *)

\* A file whose claim i is replaced is still a file.
LEMMA FileReplace ==
  ASSUME NEW b, IsFile(b), NEW i \in DOMAIN b.claims, NEW c, IsClaim(c)
  PROVE  LET d == [b EXCEPT !.claims[i] = c] IN
         /\ IsFile(d)
         /\ i \in DOMAIN d.claims /\ d.claims[i] = c
<1> DEFINE d == [b EXCEPT !.claims[i] = c]
<1>1. /\ d.claims = [b.claims EXCEPT ![i] = c] /\ DOMAIN d = BundleMembers
      /\ d.profile = b.profile /\ d.keyed = b.keyed /\ d.anchors = b.anchors
  BY DEF IsFile, BundleMembers
<1>2. IsClaims(d.claims) /\ i \in DOMAIN d.claims /\ d.claims[i] = c
  BY <1>1, ReplaceClaim DEF IsFile
<1>3. d.claims # << >>
  BY <1>2, NoClaims
<1> QED BY <1>1, <1>2, <1>3 DEF IsFile

\* A claim with one member changed is still a claim.
LEMMA ClaimChange ==
  ASSUME NEW c, IsClaim(c), NEW v
  PROVE  /\ IsClaim([c EXCEPT !.core = v]) /\ IsClaim([c EXCEPT !.beside = v])
         /\ IsClaim([c EXCEPT !.install = v]) /\ IsClaim([c EXCEPT !.pack = v])
         /\ IsClaim([c EXCEPT !.prev = v]) /\ IsClaim([c EXCEPT !.link = v])
         /\ IsClaim([c EXCEPT !.chained = v])
         /\ v \in Nat \ {0} => IsClaim([c EXCEPT !.seq = v])
BY DEF IsClaim, ClaimMembers

\* Replaces gives a file, relinked or not.
LEMMA FileReplaces ==
  ASSUME IsFile(bundle), NEW i \in DOMAIN bundle.claims, NEW c, IsClaim(c), Replaces(i, c)
  PROVE  IsFile(bundle')
<1> DEFINE d == [bundle EXCEPT !.claims[i] = c]
<1>1. IsFile(d) /\ i \in DOMAIN d.claims /\ d.claims[i] = c
  BY FileReplace
<1>2. CASE bundle' = d
  BY <1>1, <1>2
<1>3. CASE bundle' = Relinked(d, i)
  <2> DEFINE l == Recomputed(d, i)
  <2>1. IsClaim([c EXCEPT !.link = l])
    BY ClaimChange
  <2>2. [d EXCEPT !.claims[i].link = l] = [d EXCEPT !.claims[i] = [c EXCEPT !.link = l]]
    BY <1>1
  <2> HIDE DEF d, l
  <2>3. IsFile([d EXCEPT !.claims[i] = [c EXCEPT !.link = l]])
    BY <1>1, <2>1, FileReplace
  <2> QED BY <1>3, <2>2, <2>3 DEF Relinked, l
<1> QED BY <1>2, <1>3 DEF Replaces

\* Every change on the way leaves a file.
LEMMA FileEdited ==
  ASSUME IsFile(bundle), LedgerInv, Edit
  PROVE  IsFile(bundle')
<1>0. \A i \in DOMAIN bundle.claims : IsClaim(bundle.claims[i])
  BY DEF IsFile, IsClaims
<1>1. CASE Repackage
  <2>1. PICK i \in DOMAIN bundle.claims, pack \in Pack :
          bundle' = [bundle EXCEPT !.claims[i].pack = pack]
    BY <1>1 DEF Repackage
  <2>2. bundle' = [bundle EXCEPT !.claims[i] = [bundle.claims[i] EXCEPT !.pack = pack]]
    BY <2>1
  <2> QED BY <1>0, <2>2, ClaimChange, FileReplace
<1>2. CASE AlterClaim
  <2>1. PICK i \in DOMAIN bundle.claims :
          LET c == bundle.claims[i] IN
          \/ \E core \in Core \ {c.core} : Replaces(i, [c EXCEPT !.core = core])
          \/ \E beside \in Beside \ {c.beside} : Replaces(i, [c EXCEPT !.beside = beside])
          \/ \E install \in (Installs \union {NoInstall}) \ {c.install} :
               Replaces(i, [c EXCEPT !.install = install])
    BY <1>2 DEF AlterClaim
  <2> QED BY <1>0, <2>1, ClaimChange, FileReplaces
<1>3. CASE MoveClaim
  <2>1. PICK i \in DOMAIN bundle.claims :
          LET c == bundle.claims[i] IN
          \/ \E n \in 1 .. MaxLog + 1 : Replaces(i, [c EXCEPT !.seq = n])
          \/ \E l \in {NoLink, StrayLink} \union {bundle.claims[j].link : j \in 1 .. i - 1} :
               Replaces(i, [c EXCEPT !.prev = l])
    BY <1>3 DEF MoveClaim
  <2>2. 1 .. MaxLog + 1 \subseteq Nat \ {0}
    BY BoundsAssumption
  <2> QED BY <1>0, <2>1, <2>2, ClaimChange, FileReplaces
<1>4. CASE SpliceClaim
  <2>0. PICK i \in DOMAIN bundle.claims, a \in ledger :
          \E k \in DOMAIN a.entries : bundle' = [bundle EXCEPT !.claims[i] = a.entries[k]]
    BY <1>4 DEF SpliceClaim
  <2>1. PICK k \in DOMAIN a.entries : bundle' = [bundle EXCEPT !.claims[i] = a.entries[k]]
    BY <2>0
  <2>2. IsClaim(a.entries[k])
    BY DEF LedgerInv, Linked, IsClaims
  <2> QED BY <2>1, <2>2, FileReplace
<1>5. CASE DropClaim
  <2> DEFINE s == bundle.claims
  <2>1. PICK i \in DOMAIN s :
          bundle' = [bundle EXCEPT !.claims = SubSeq(@, 1, i - 1) \o SubSeq(@, i + 1, Len(@))]
    BY <1>5 DEF DropClaim
  <2>2. IsClaims(s) /\ Len(s) \in Nat /\ DOMAIN s = 1 .. Len(s) /\ Len(s) > 1
    BY <1>5, SequenceShape DEF IsFile, IsClaims, DropClaim
  <2> DEFINE front == SubSeq(s, 1, i - 1)
             back == SubSeq(s, i + 1, Len(s))
  <2> HIDE DEF s
  <2>3. IsClaims(front) /\ Len(front) = i - 1
    BY <2>2, WindowOfClaims
  <2>4. IsClaims(back) /\ Len(back) = Len(s) - i
    <3>1. i + 1 \in Nat \ {0} /\ Len(s) \in 0 .. Len(s) /\ i <= Len(s)
      BY <2>2
    <3>2. IsClaims(SubSeq(s, i + 1, Len(s)))
          /\ Len(SubSeq(s, i + 1, Len(s)))
               = IF i + 1 <= Len(s) THEN Len(s) - (i + 1) + 1 ELSE 0
      <4> HIDE DEF back, front
      <4> QED BY <2>2, <3>1, WindowOfClaims
    <3> QED BY <2>2, <3>1, <3>2
  <2> HIDE DEF front, back
  <2>5. IsClaims(front \o back) /\ Len(front \o back) # 0
    BY <2>2, <2>3, <2>4, JoinClaims
  <2>6. front \o back # << >>
    BY <2>5, NoClaims
  <2> QED BY <2>1, <2>5, <2>6 DEF IsFile, BundleMembers, front, back, s
<1>6. CASE StripCoordinates
  <2>1. PICK i \in DOMAIN bundle.claims : bundle' = [bundle EXCEPT !.claims[i].chained = FALSE]
    BY <1>6 DEF StripCoordinates
  <2>2. bundle' = [bundle EXCEPT !.claims[i] = [bundle.claims[i] EXCEPT !.chained = FALSE]]
    BY <2>1
  <2> QED BY <1>0, <2>2, ClaimChange, FileReplace
<1>7. CASE SetHead
  <2>1. PICK head \in {Coords(bundle.claims[i]) : i \in DOMAIN bundle.claims}
                        \union [seq : 1 .. MaxLog + 1, link : {StrayLink}] :
          \E anchors \in {bundle.anchors, bundle.anchors \union {head}} :
            bundle' = [bundle EXCEPT !.head = head, !.anchors = anchors]
    BY <1>7 DEF SetHead
  <2>2. head.seq \in Nat /\ head = Coords(head)
    BY <1>0, BoundsAssumption DEF Coords, IsClaim
  <2>3. IsFiniteSet(bundle.anchors \union {head})
    BY FS_AddElement DEF IsFile
  <2>4. PICK anchors \in {bundle.anchors, bundle.anchors \union {head}} :
          bundle' = [bundle EXCEPT !.head = head, !.anchors = anchors]
    BY <2>1
  <2>5. IsFiniteSet(anchors) /\ \A a \in anchors : a.seq \in Nat /\ a = Coords(a)
    BY <2>2, <2>3, <2>4 DEF IsFile
  <2>6. /\ DOMAIN bundle' = BundleMembers /\ bundle'.anchors = anchors
        /\ bundle'.claims = bundle.claims
        /\ bundle'.profile = bundle.profile /\ bundle'.keyed = bundle.keyed
    BY <2>4 DEF IsFile, BundleMembers
  <2> QED BY <2>5, <2>6 DEF IsFile
<1>8. CASE Relabel
  BY <1>8 DEF Relabel, IsFile, BundleMembers
<1> QED BY <1>1, <1>2, <1>3, <1>4, <1>5, <1>6, <1>7, <1>8 DEF Edit

\* A window cut from a linked log is a file.
LEMMA FileExported ==
  ASSUME LogInv, LedgerInv, IsFiniteSet(ledger), Export
  PROVE  IsFile(bundle')
<1> DEFINE Cut(from, to, top, anchors) ==
             [profile |-> style.profile, keyed |-> style.keyed,
              producer |-> Owner, param |-> Owner, claims |-> SubSeq(log, from, to),
              head |-> Coords(log[top]), anchors |-> anchors]
           Offered(top) == {Coords(a) : a \in ledger} \union {Coords(log[top])}
<1>0. Len(log) \in Nat /\ DOMAIN log = 1 .. Len(log)
  BY SequenceShape DEF LogInv, Linked, IsClaims
<1>1. \E from, to, top \in DOMAIN log : from <= to /\
        \E anchors \in SUBSET Offered(top) : bundle' = Cut(from, to, top, anchors)
  <2>1. PICK from \in DOMAIN log : \E to \in from .. Len(log) : \E top \in to .. Len(log) :
          \E anchors \in SUBSET Offered(top) : bundle' = Cut(from, to, top, anchors)
    BY Zenon DEF Export
  <2> HIDE DEF Cut, Offered
  <2>2. PICK to \in from .. Len(log) : \E top \in to .. Len(log) :
          \E anchors \in SUBSET Offered(top) : bundle' = Cut(from, to, top, anchors)
    BY <2>1
  <2>3. PICK top \in to .. Len(log) :
          \E anchors \in SUBSET Offered(top) : bundle' = Cut(from, to, top, anchors)
    BY <2>2
  <2>4. to \in DOMAIN log /\ top \in DOMAIN log /\ from <= to
    BY <1>0
  <2> QED BY <2>3, <2>4
<1> HIDE DEF Cut
<1>1a. PICK from, to, top \in DOMAIN log : from <= to /\
         \E anchors \in SUBSET Offered(top) : bundle' = Cut(from, to, top, anchors)
  BY <1>1
<1>1b. PICK anchors \in SUBSET Offered(top) : bundle' = Cut(from, to, top, anchors)
  BY <1>1a
<1>2. IsClaims(log) /\ Len(log) \in Nat /\ DOMAIN log = 1 .. Len(log)
  BY SequenceShape DEF LogInv, Linked, IsClaims
<1>3. IsClaims(SubSeq(log, from, to)) /\ Len(SubSeq(log, from, to)) # 0
  BY <1>1a, <1>2, WindowOfClaims
<1>4. SubSeq(log, from, to) # << >>
  BY <1>3, NoClaims
<1>5. \A a \in anchors : a.seq \in Nat /\ a = Coords(a)
  <2>1. \A a \in ledger : Coords(a).seq \in Nat /\ Coords(a) = Coords(Coords(a))
    BY SequenceShape DEF LedgerInv, Linked, IsClaims, Coords
  <2>2. Coords(log[top]).seq \in Nat /\ Coords(log[top]) = Coords(Coords(log[top]))
    BY <1>2 DEF IsClaims, IsClaim, Coords
  <2> QED BY <2>1, <2>2
<1>6. IsFiniteSet(anchors)
  <2>1. IsFiniteSet({Coords(a) : a \in ledger})
    <3> DEFINE T == {Coords(a) : a \in ledger}
    <3>1. [a \in ledger |-> Coords(a)] \in Surjection(ledger, T)
      BY DEF Surjection
    <3> HIDE DEF T
    <3>2. IsFiniteSet(T)
      BY <3>1, FS_Surjection
    <3> QED BY <3>2 DEF T
  <2>2. IsFiniteSet({Coords(a) : a \in ledger} \union {Coords(log[top])})
    BY <2>1, FS_AddElement
  <2> QED BY <2>2, FS_Subset
<1>7. style.profile \in Profiles /\ style.keyed \in BOOLEAN
  BY DEF LogInv, Styles
<1> QED BY <1>1b, <1>3, <1>4, <1>5, <1>6, <1>7 DEF IsFile, BundleMembers, Cut

\* The bundle is a file from export to verdict.
LEMMA BundleKept == IInv /\ [Next]_vars => BundleInv'
<1> SUFFICES ASSUME LogInv, LedgerInv, BundleInv, WalkInv, IsFiniteSet(ledger), [Next]_vars
             PROVE  BundleInv'
  BY DEF IInv, LedgerInv
<1>1. CASE Append1 \/ Restore \/ AnchorHead
  BY <1>1 DEF Append1, Restore, AnchorHead, BundleInv, fileVars, runVars
<1>2. CASE Export
  BY <1>2, FileExported DEF BundleInv, Export
<1>3. CASE Edit
  BY <1>3, EditFrame, FileEdited DEF BundleInv
<1>4. CASE Deliver
  BY <1>4 DEF BundleInv, Deliver, fileVars
<1>5. CASE Discard
  BY <1>5 DEF BundleInv, Discard
<1>6. CASE Run
  <2>1. phase # "idle" /\ phase' # "idle"
    BY <1>6 DEF Run, Verify, CheckCoordinates, CheckContinuity, CheckHead, CheckProfile,
                CheckLinks, CheckAnchors, Goto, Fail
  <2> QED BY <1>6, <2>1, RunFrame DEF BundleInv
<1>7. CASE UNCHANGED vars
  BY <1>7 DEF BundleInv, vars
<1> QED BY <1>1, <1>2, <1>3, <1>4, <1>5, <1>6, <1>7 DEF Next

-----------------------------------------------------------------------------
(* The walk. *)

\* The step the argument rests on.  If claim n's link is the one a recorded log
\* held there, so is its predecessor, which is the link of the claim before it;
\* what was known of that claim then covers everything up to claim n.
LEMMA HistoryStep ==
  ASSUME LogInv, LedgerInv, IsFile(bundle), NEW n \in DOMAIN bundle.claims,
         LinkRecomputes(bundle, n),
         \A i \in DOMAIN bundle.claims : InPlace(i),
         \A i \in DOMAIN bundle.claims : i < n => Held(i)
  PROVE  ShowsHistory(n)
<1> DEFINE c == bundle.claims[n]
<1> SUFFICES ASSUME NEW a \in ledger, c.seq <= a.seq, c.link = a.entries[c.seq].link
             PROVE  /\ bundle.profile = style.profile
                    /\ bundle.profile = ProfileV1 => bundle.param = Owner
                    /\ \A j \in 1 .. n : RecordedAs(bundle.claims[j], a)
  BY DEF ShowsHistory
<1> DEFINE e == a.entries[c.seq]
<1>1. Len(bundle.claims) \in Nat /\ DOMAIN bundle.claims = 1 .. Len(bundle.claims)
  BY SequenceShape DEF IsFile, IsClaims
<1>2. c.seq \in Nat \ {0}
  BY DEF IsFile, IsClaims, IsClaim
<1>3. Len(a.entries) \in Nat /\ DOMAIN a.entries = 1 .. Len(a.entries) /\ a.seq = Len(a.entries)
  BY SequenceShape DEF LedgerInv, Linked, IsClaims
<1>4. c.seq \in DOMAIN a.entries
  BY <1>2, <1>3
<1>5. e.link = ProducerLink(style, e) /\ e.prev = PrevLink(a.entries, c.seq)
  BY <1>4 DEF LedgerInv, Linked
<1>6. Recomputed(bundle, n) = ProducerLink(style, e)
  BY <1>5 DEF LinkRecomputes
<1>7. /\ bundle.profile = style.profile
      /\ bundle.profile = ProfileV1 => bundle.param = Owner
      /\ c.prev = e.prev
      /\ Committed(style.profile, c) = Committed(style.profile, e)
  <2> style \in Styles /\ bundle.profile \in Profiles
    BY DEF LogInv, IsFile
  <2> QED BY <1>6, LinkBinds
<1>8. RecordedAs(c, a)
  BY <1>4, <1>7 DEF RecordedAs
<1>9. ASSUME NEW j \in 1 .. n, j # n PROVE RecordedAs(bundle.claims[j], a)
  <2> DEFINE m == n - 1
             p == bundle.claims[m]
  <2>1. m \in DOMAIN bundle.claims /\ m < n /\ n # 1 /\ j \in 1 .. m
    BY <1>1, <1>9
  <2>2. c.seq = p.seq + 1 /\ c.prev = p.link
    BY <2>1 DEF InPlace, Follows
  <2>3. p.seq \in Nat \ {0}
    BY <2>1 DEF IsFile, IsClaims, IsClaim
  <2>4. e.prev = a.entries[p.seq].link
    BY <1>5, <2>2, <2>3 DEF PrevLink
  <2>5. p.link = a.entries[p.seq].link /\ p.seq <= a.seq
    BY <1>3, <1>7, <2>2, <2>3, <2>4
  <2>6. ShowsHistory(m)
    BY <2>1 DEF Held
  <2> HIDE DEF m
  <2> QED BY <2>1, <2>5, <2>6 DEF ShowsHistory
<1> QED BY <1>7, <1>8, <1>9

\* Outside the walk there is nothing to keep.
LEMMA WalkQuiet ==
  ASSUME phase' \in {"idle", "transit", "coords"}, pos' \in Nat, err' = "", mode' = "",
         headMatched' = FALSE
  PROVE  WalkInv'
BY DEF WalkInv, Phases, Walking, Sound, ModeFull

\* After an error only the error is known.
LEMMA WalkFail ==
  ASSUME NEW e, e # "", WalkInv, Fail(e)
  PROVE  WalkInv'
BY DEF WalkInv, Fail, Phases, Walking, Sound, ModeFull

\* What the walk knows rests on the file, the log and the ledger, which a step of
\* the verifier leaves alone.
LEMMA WalkFrame ==
  ASSUME UNCHANGED <<bundle, style, ledger>>
  PROVE  /\ \A i : InPlace(i)' <=> InPlace(i)
         /\ \A i : Held(i)' <=> Held(i)
         /\ Coordinated(bundle)' <=> Coordinated(bundle)
         /\ HeadTied(bundle)' <=> HeadTied(bundle)
         /\ ProfileRefused(bundle)' <=> ProfileRefused(bundle)
         /\ bundle'.keyed = bundle.keyed /\ bundle'.claims = bundle.claims
<1>1. \A i : InPlace(i)' <=> InPlace(i)
  BY DEF InPlace
<1>2. \A i : Held(i)' <=> Held(i)
  BY DEF Held, ShowsHistory, RecordedAs
<1> QED BY <1>1, <1>2

\* The claims of a file are at least one and are numbered from 1.
LEMMA FileIndexes ==
  ASSUME IsFile(bundle)
  PROVE  /\ Len(bundle.claims) \in Nat \ {0}
         /\ DOMAIN bundle.claims = 1 .. Len(bundle.claims)
         /\ \A i \in DOMAIN bundle.claims : bundle.claims[i].seq \in Nat \ {0}
<1>1. Len(bundle.claims) \in Nat /\ DOMAIN bundle.claims = 1 .. Len(bundle.claims)
  BY SequenceShape DEF IsFile, IsClaims
<1>2. Len(bundle.claims) # 0
  BY EmptySeq DEF IsFile, IsClaims, IsSequence
<1> QED BY <1>1, <1>2 DEF IsFile, IsClaims, IsClaim

\* After CheckCoordinates every claim carries coordinates.
LEMMA WalkCoordinates ==
  ASSUME WalkInv, IsFile(bundle), CheckCoordinates, UNCHANGED <<style, ledger>>
  PROVE  WalkInv'
<1>1. CASE Fail("ErrClaim")
  BY <1>1, WalkFail
<1>2. CASE Coordinated(bundle) /\ pos' = 1 /\ Goto("continuity") /\ UNCHANGED <<headMatched, mode>>
  <2>1. phase = "coords" /\ phase' = "continuity" /\ bundle' = bundle /\ err' = err
    BY <1>2 DEF CheckCoordinates, Goto
  <2>2. Coordinated(bundle)'
    BY <1>2, <2>1
  <2>3. err' = "" /\ mode' = "" /\ headMatched' = FALSE
    BY <1>2, <2>1 DEF WalkInv
  <2>4. \A i \in DOMAIN bundle'.claims : ~(i < pos')
    <3>1. \A i \in DOMAIN bundle.claims : ~(i < 1)
      BY FileIndexes
    <3> QED BY <1>2, <2>1, <3>1
  <2>5. pos' \in Nat /\ pos' # 0
    BY <1>2
  <2> QED BY <2>1, <2>2, <2>3, <2>4, <2>5 DEF WalkInv, Phases, Walking, Sound, ModeFull
<1> QED BY <1>1, <1>2 DEF CheckCoordinates

\* CheckContinuity adds one claim in its place, or leaves with an error.
LEMMA WalkContinuity ==
  ASSUME WalkInv, IsFile(bundle), CheckContinuity, UNCHANGED <<style, ledger>>
  PROVE  WalkInv'
<1> DEFINE n == Len(bundle.claims)
<1>a. /\ n \in Nat /\ DOMAIN bundle.claims = 1 .. n
      /\ \A i \in 1 .. n : bundle.claims[i].seq \in Nat
  BY FileIndexes
<1> HIDE DEF n
<1>b. phase = "continuity" /\ err = "" /\ mode = "" /\ headMatched = FALSE
  BY DEF CheckContinuity, WalkInv
<1>0. /\ pos \in Nat /\ pos # 0 /\ Coordinated(bundle)
      /\ \A i \in 1 .. n : i < pos => InPlace(i)
  BY <1>a, <1>b DEF WalkInv
<1>1. CASE Fail("ErrBroken")
  BY <1>1, WalkFail
<1>2. CASE /\ pos \in DOMAIN bundle.claims /\ Follows(bundle, pos) /\ pos' = pos + 1
           /\ Goto("continuity") /\ UNCHANGED <<headMatched, mode>>
  <2>1. phase' = "continuity" /\ bundle' = bundle /\ err' = err
    BY <1>2 DEF Goto
  <2>2. InPlace(pos)
    <3>1. CASE pos = 1
      BY <1>a, <1>2, <3>1 DEF InPlace
    <3>2. CASE pos # 1
      <4> DEFINE m == pos - 1
      <4>1. m \in 1 .. n /\ m < pos /\ pos \in 1 .. n /\ 1 \in 1 .. n
        BY <1>a, <1>0, <1>2, <3>2
      <4>2. bundle.claims[pos].seq = bundle.claims[m].seq + 1
        BY <1>2, <3>2 DEF Follows
      <4>3. bundle.claims[m].seq = bundle.claims[1].seq + m - 1
        BY <1>0, <4>1 DEF InPlace
      <4>4. bundle.claims[1].seq \in Nat
        BY <1>a, <4>1
      <4>5. bundle.claims[pos].seq = bundle.claims[1].seq + pos - 1
        BY <1>0, <4>2, <4>3, <4>4
      <4> QED BY <1>2, <4>5 DEF InPlace
    <3> QED BY <3>1, <3>2
  <2>3. \A i \in 1 .. n : i < pos + 1 => InPlace(i)
    BY <1>a, <1>0, <2>2
  <2>4. \A i \in DOMAIN bundle'.claims : i < pos' => InPlace(i)'
    BY <1>a, <1>2, <2>1, <2>3, WalkFrame
  <2>5. pos' \in Nat /\ pos' # 0
    BY <1>0, <1>2
  <2>6. err' = "" /\ mode' = "" /\ headMatched' = FALSE /\ Coordinated(bundle)'
    BY <1>b, <1>0, <1>2, <2>1, WalkFrame
  <2> QED BY <2>1, <2>4, <2>5, <2>6 DEF WalkInv, Phases, Walking, Sound, ModeFull
<1>3. CASE pos \notin DOMAIN bundle.claims /\ Goto("head") /\ UNCHANGED <<pos, headMatched, mode>>
  <2>1. phase' = "head" /\ bundle' = bundle /\ err' = err
    BY <1>3 DEF Goto
  <2>2. \A i \in 1 .. n : InPlace(i)
    BY <1>a, <1>0, <1>3
  <2>3. \A i \in DOMAIN bundle'.claims : InPlace(i)'
    BY <1>a, <2>1, <2>2, WalkFrame
  <2> QED BY <1>b, <1>0, <1>3, <2>1, <2>3, WalkFrame DEF WalkInv, Phases, Walking, Sound, ModeFull
<1> QED BY <1>1, <1>2, <1>3 DEF CheckContinuity

\* CheckHead matches the head only when it is the newest claim.
LEMMA WalkHead ==
  ASSUME WalkInv, IsFile(bundle), CheckHead, UNCHANGED <<style, ledger>>
  PROVE  WalkInv'
<1>0. /\ phase = "head" /\ err = "" /\ mode = "" /\ pos \in Nat /\ Coordinated(bundle)
      /\ \A i \in DOMAIN bundle.claims : InPlace(i)
  BY DEF CheckHead, WalkInv, Sound
<1>1. CASE Fail("ErrBroken")
  BY <1>1, WalkFail
<1>2. CASE headMatched' = HeadTied(bundle) /\ Goto("profile") /\ UNCHANGED <<pos, mode>>
  <2>1. phase' = "profile" /\ bundle' = bundle /\ err' = err
    BY <1>2 DEF Goto
  <2>2. \A i \in DOMAIN bundle'.claims : InPlace(i)'
    BY <1>0, <2>1, WalkFrame
  <2>3. headMatched' => HeadTied(bundle)'
    BY <1>2, <2>1, WalkFrame
  <2> QED BY <1>0, <1>2, <2>1, <2>2, <2>3, WalkFrame DEF WalkInv, Phases, Walking, Sound, ModeFull
<1> QED BY <1>1, <1>2 DEF CheckHead

\* CheckProfile leaves with an error, as structural, or with the declaration sound.
LEMMA WalkProfile ==
  ASSUME WalkInv, IsFile(bundle), CheckProfile, UNCHANGED <<style, ledger>>
  PROVE  WalkInv'
<1>0. /\ phase = "profile" /\ err = "" /\ mode = "" /\ pos \in Nat /\ Coordinated(bundle)
      /\ \A i \in DOMAIN bundle.claims : InPlace(i)
      /\ headMatched => HeadTied(bundle)
  BY DEF CheckProfile, WalkInv, Sound
<1>1. CASE Fail("ErrProfile")
  BY <1>1, WalkFail
<1>2. CASE mode' = ModeStructural /\ Goto("anchors") /\ UNCHANGED <<pos, headMatched>>
  <2>1. phase' = "anchors" /\ bundle' = bundle /\ err' = err
    BY <1>2 DEF Goto
  <2>2. \A i \in DOMAIN bundle'.claims : InPlace(i)'
    BY <1>0, <2>1, WalkFrame
  <2>3. headMatched' => HeadTied(bundle)'
    BY <1>0, <1>2, <2>1, WalkFrame
  <2> QED BY <1>0, <1>2, <2>1, <2>2, <2>3, WalkFrame
             DEF WalkInv, Phases, Walking, Sound, ModeFull, ModeStructural
<1>3. CASE /\ ~ProfileRefused(bundle) /\ ~bundle.keyed /\ pos' = 1 /\ Goto("links")
           /\ UNCHANGED <<headMatched, mode>>
  <2>1. phase' = "links" /\ bundle' = bundle /\ err' = err
    BY <1>3 DEF Goto
  <2>2. \A i \in DOMAIN bundle'.claims : InPlace(i)'
    BY <1>0, <2>1, WalkFrame
  <2>3. headMatched' => HeadTied(bundle)'
    BY <1>0, <1>3, <2>1, WalkFrame
  <2>4. \A i \in DOMAIN bundle'.claims : ~(i < pos')
    <3>1. \A i \in DOMAIN bundle.claims : ~(i < 1)
      BY FileIndexes
    <3> QED BY <1>3, <2>1, <3>1
  <2>5. ~ProfileRefused(bundle)' /\ ~bundle'.keyed
    BY <1>3, <2>1, WalkFrame
  <2>6. pos' \in Nat /\ pos' # 0
    BY <1>3
  <2>7. err' = "" /\ mode' = "" /\ Coordinated(bundle)'
    BY <1>0, <1>3, <2>1, WalkFrame
  <2> QED BY <2>1, <2>2, <2>3, <2>4, <2>5, <2>6, <2>7
             DEF WalkInv, Phases, Walking, Sound, ModeFull
<1> QED BY <1>1, <1>2, <1>3 DEF CheckProfile

\* CheckLinks adds one claim whose link recomputes, and with it, by HistoryStep,
\* the history that link vouches for.
LEMMA WalkLinks ==
  ASSUME LogInv, LedgerInv, WalkInv, IsFile(bundle), CheckLinks, UNCHANGED <<style, ledger>>
  PROVE  WalkInv'
<1> DEFINE n == Len(bundle.claims)
<1>a. n \in Nat /\ DOMAIN bundle.claims = 1 .. n
  BY FileIndexes
<1> HIDE DEF n
<1>b. phase = "links" /\ err = "" /\ mode = ""
  BY DEF CheckLinks, WalkInv
<1>0. /\ pos \in Nat /\ pos # 0
      /\ Coordinated(bundle)
      /\ \A i \in 1 .. n : InPlace(i)
      /\ headMatched => HeadTied(bundle)
      /\ ~ProfileRefused(bundle) /\ ~bundle.keyed
      /\ \A i \in 1 .. n : i < pos => Held(i)
  BY <1>a, <1>b DEF WalkInv, Sound
<1>1. CASE Fail("ErrProfile") \/ Fail("ErrBroken")
  BY <1>1, WalkFail
<1>2. CASE /\ pos \in DOMAIN bundle.claims /\ ~NamesOtherInstall(bundle, pos)
           /\ LinkRecomputes(bundle, pos)
           /\ pos' = pos + 1 /\ Goto("links") /\ UNCHANGED <<headMatched, mode>>
  <2>1. phase' = "links" /\ bundle' = bundle /\ err' = err
    BY <1>2 DEF Goto
  <2>2. Held(pos)
    BY <1>a, <1>0, <1>2, HistoryStep DEF Held
  <2>3. \A i \in 1 .. n : i < pos + 1 => Held(i)
    BY <1>a, <1>0, <2>2
  <2>4. \A i \in DOMAIN bundle'.claims : InPlace(i)' /\ (i < pos' => Held(i)')
    BY <1>a, <1>0, <1>2, <2>1, <2>3, WalkFrame
  <2>5. (headMatched' => HeadTied(bundle)') /\ ~ProfileRefused(bundle)' /\ ~bundle'.keyed
    BY <1>0, <1>2, <2>1, WalkFrame
  <2>6. pos' \in Nat /\ pos' # 0
    BY <1>0, <1>2
  <2>7. err' = "" /\ mode' = "" /\ Coordinated(bundle)'
    BY <1>b, <1>0, <1>2, <2>1, WalkFrame
  <2> QED BY <2>1, <2>4, <2>5, <2>6, <2>7 DEF WalkInv, Phases, Walking, Sound, ModeFull
<1>3. CASE /\ pos \notin DOMAIN bundle.claims /\ mode' = ModeFull /\ Goto("anchors")
           /\ UNCHANGED <<pos, headMatched>>
  <2>1. phase' = "anchors" /\ bundle' = bundle /\ err' = err
    BY <1>3 DEF Goto
  <2>2. \A i \in 1 .. n : Held(i)
    BY <1>a, <1>0, <1>3
  <2>3. \A i \in DOMAIN bundle'.claims : InPlace(i)' /\ Held(i)'
    BY <1>a, <1>0, <2>1, <2>2, WalkFrame
  <2>4. (headMatched' => HeadTied(bundle)') /\ ~ProfileRefused(bundle)' /\ ~bundle'.keyed
    BY <1>0, <1>3, <2>1, WalkFrame
  <2> QED BY <1>b, <1>0, <1>3, <2>1, <2>3, <2>4, WalkFrame
             DEF WalkInv, Phases, Walking, Sound, ModeFull
<1> QED BY <1>1, <1>2, <1>3 DEF CheckLinks

\* CheckAnchors writes the report and leaves what the walk found.
LEMMA WalkAnchors ==
  ASSUME WalkInv, CheckAnchors, UNCHANGED <<style, ledger>>
  PROVE  WalkInv'
<1>1. /\ phase = "anchors" /\ phase' = "done"
      /\ UNCHANGED <<bundle, pos, err, headMatched, mode>>
  BY DEF CheckAnchors
<1>2. Sound' <=> Sound
  BY <1>1 DEF Sound
<1> QED BY <1>1, <1>2, WalkFrame DEF WalkInv, Phases, Walking, Sound

\* Nothing moves while the verifier walks, and every step of it keeps the
\* invariant of the walk.
LEMMA WalkKept == IInv /\ [Next]_vars => WalkInv'
<1> SUFFICES ASSUME LogInv, LedgerInv, BundleInv, WalkInv, [Next]_vars PROVE WalkInv'
  BY DEF IInv
<1>0. phase \in {"idle", "transit"} =>
        pos \in Nat /\ err = "" /\ mode = "" /\ headMatched = FALSE
  BY DEF WalkInv
<1>1. CASE Append1 \/ Restore \/ AnchorHead
  BY <1>0, <1>1, WalkQuiet DEF Append1, Restore, AnchorHead, runVars
<1>2. CASE Export \/ Deliver
  BY <1>0, <1>2, WalkQuiet DEF Export, Deliver
<1>3. CASE Edit
  BY <1>0, <1>3, EditFrame, WalkQuiet
<1>4. CASE Discard
  BY <1>4, WalkQuiet DEF Discard
<1>5. CASE Run
  <2>1. phase # "idle"
    BY <1>5 DEF Run, Verify, CheckCoordinates, CheckContinuity, CheckHead, CheckProfile,
                CheckLinks, CheckAnchors
  <2>2. IsFile(bundle)
    BY <2>1 DEF BundleInv
  <2> QED BY <1>5, <2>2, RunFrame, WalkCoordinates, WalkContinuity, WalkHead, WalkProfile,
             WalkLinks, WalkAnchors DEF Run, Verify
<1>6. CASE UNCHANGED vars
  <2>1. UNCHANGED <<bundle, phase, pos, err, headMatched, mode, style, ledger>>
    BY <1>6 DEF vars
  <2>2. Sound' <=> Sound
    BY <2>1 DEF Sound
  <2> QED BY <2>1, <2>2, WalkFrame DEF WalkInv
<1> QED BY <1>1, <1>2, <1>3, <1>4, <1>5, <1>6 DEF Next

-----------------------------------------------------------------------------
(* The verdict. *)

\* The report is written once, by CheckAnchors, of the file and the walk as they
\* stay until the file is put aside.
LEMMA ReportKept == IInv /\ [Next]_vars => ReportInv'
<1> SUFFICES ASSUME ReportInv, [Next]_vars PROVE ReportInv'
  BY DEF IInv
<1>1. CASE Append1 \/ Restore \/ AnchorHead
  <2>1. phase = "idle" /\ UNCHANGED <<phase, report>>
    BY <1>1 DEF Append1, Restore, AnchorHead, runVars
  <2> QED BY <2>1 DEF ReportInv
<1>2. CASE Export
  <2>1. phase = "idle" /\ phase' = "transit" /\ report' = report
    BY <1>2 DEF Export
  <2> QED BY <2>1 DEF ReportInv
<1>3. CASE Edit
  <2>1. phase = "transit" /\ UNCHANGED <<phase, report>>
    BY <1>3, EditFrame
  <2> QED BY <2>1 DEF ReportInv
<1>4. CASE Deliver
  <2>1. phase = "transit" /\ phase' = "coords" /\ report' = report
    BY <1>4 DEF Deliver
  <2> QED BY <2>1 DEF ReportInv
<1>5. CASE Discard
  <2>1. phase' = "idle" /\ report' = NoReport
    BY <1>5 DEF Discard
  <2> QED BY <2>1 DEF ReportInv
<1>6. CASE Run
  <2>1. CASE CheckAnchors
    <3>1. phase' = "done" /\ UNCHANGED <<bundle, err, headMatched, mode>>
      BY <2>1 DEF CheckAnchors
    <3> DEFINE matched == MatchedAnchors(bundle, headMatched)
               ok == err = "" /\ UnmatchedAnchors(bundle, headMatched) = {}
    <3>2. /\ report'.ok = ok
          /\ report'.level = Level(ok, mode, matched)
          /\ report'.through = AnchoredThrough(matched)
          /\ report'.unanchored = UnanchoredClaims(bundle, AnchoredThrough(matched))
      BY <2>1 DEF CheckAnchors
    <3>3. matched' = matched /\ ok' = ok /\ mode' = mode /\ bundle' = bundle
      BY <3>1
    <3> QED BY <3>1, <3>2, <3>3 DEF ReportInv
  <2>2. CASE ~CheckAnchors
    <3>1. phase \in Walking /\ phase' \in Walking /\ report' = report
      BY <1>6, <2>2 DEF Run, Verify, CheckCoordinates, CheckContinuity, CheckHead,
                        CheckProfile, CheckLinks, Goto, Fail, Walking
    <3> QED BY <3>1 DEF ReportInv, Walking
  <2> QED BY <2>1, <2>2
<1>7. CASE UNCHANGED vars
  <2>1. UNCHANGED <<phase, bundle, err, headMatched, mode, report>>
    BY <1>7 DEF vars
  <2> QED BY <2>1 DEF ReportInv
<1> QED BY <1>1, <1>2, <1>3, <1>4, <1>5, <1>6, <1>7 DEF Next

\* The invariant behind the verdicts is inductive, for every log, ledger, file,
\* way of altering it and bound.
THEOREM Invariance == Spec => []IInv
<1>1. Init => IInv
  BY InitInv
<1>2. IInv /\ [Next]_vars => IInv'
  BY LogKept, LedgerKept, BundleKept, WalkKept, ReportKept DEF IInv
<1> QED BY <1>1, <1>2, PTL DEF Spec

\* What an anchored verdict rests on: full mode, no error, and for each recorded
\* anchor it counted a claim at the anchor's position with the anchored link.
LEMMA AnchoredWindow ==
  ASSUME IInv, Anchored, NEW a \in Witnesses
  PROVE  /\ IsFile(bundle) /\ ~ProfileRefused(bundle) /\ ~bundle.keyed
         /\ \A i \in DOMAIN bundle.claims : Held(i) /\ InPlace(i)
         /\ \E n \in DOMAIN bundle.claims : Coords(bundle.claims[n]) = Coords(a)
<1> DEFINE matched == MatchedAnchors(bundle, headMatched)
<1>1. phase = "done" /\ report.level = Level(report.ok, mode, matched)
  BY DEF IInv, ReportInv, Anchored
<1>2. mode = ModeFull
  BY <1>1 DEF Anchored, Level
<1>3. IsFile(bundle)
  BY <1>1 DEF IInv, BundleInv
<1>4. err = "" /\ Sound
  BY <1>1, <1>2 DEF IInv, WalkInv, Sound
<1>5. /\ ~ProfileRefused(bundle) /\ ~bundle.keyed
      /\ \A i \in DOMAIN bundle.claims : Held(i) /\ InPlace(i)
  BY <1>2, <1>4 DEF IInv, WalkInv
<1>6. headMatched => HeadTied(bundle)
  BY DEF IInv, WalkInv
<1>7. Verified(bundle, headMatched, Coords(a))
  BY DEF Witnesses, MatchedAnchors
<1>8. \E n \in DOMAIN bundle.claims : Coords(bundle.claims[n]) = Coords(a)
  <2>1. CASE headMatched /\ Coords(a).seq = bundle.head.seq
    <3>1. Coords(a).link = bundle.head.link
      BY <1>7, <2>1 DEF Verified
    <3>2. Coords(Newest(bundle)) = Coords(a)
      BY <1>6, <2>1, <3>1 DEF HeadTied, Coords
    <3>3. Len(bundle.claims) \in DOMAIN bundle.claims
      BY <1>3, FileIndexes
    <3> QED BY <3>2, <3>3 DEF Newest
  <2>2. CASE ~(headMatched /\ Coords(a).seq = bundle.head.seq)
    BY <1>7, <2>2 DEF Verified
  <2> QED BY <2>1, <2>2
<1> QED BY <1>3, <1>5, <1>8

\* So every claim at or before a counted anchor is the entry recorded there, in
\* the profile of that log and, under loomseal-chain-v1, for its own install.
LEMMA AnchoredHistory ==
  ASSUME IInv, Anchored, NEW a \in Witnesses
  PROVE  /\ bundle.profile = style.profile
         /\ bundle.profile = ProfileV1 => bundle.param = Owner
         /\ \A i \in DOMAIN bundle.claims :
              bundle.claims[i].seq <= a.seq => RecordedAs(bundle.claims[i], a)
<1>1. /\ IsFile(bundle)
      /\ \A i \in DOMAIN bundle.claims : Held(i) /\ InPlace(i)
  BY AnchoredWindow
<1>2. PICK n \in DOMAIN bundle.claims : Coords(bundle.claims[n]) = Coords(a)
  BY AnchoredWindow
<1>3. bundle.claims[n].seq = a.seq /\ bundle.claims[n].link = a.link
  BY <1>2 DEF Coords
<1>4. a \in ledger /\ a.link = a.entries[a.seq].link /\ a.seq \in Nat
  BY SequenceShape DEF Witnesses, IInv, LedgerInv, Linked, IsClaims
<1>5. /\ bundle.profile = style.profile
      /\ bundle.profile = ProfileV1 => bundle.param = Owner
      /\ \A j \in 1 .. n : RecordedAs(bundle.claims[j], a)
  BY <1>1, <1>3, <1>4 DEF Held, ShowsHistory
<1>6. /\ Len(bundle.claims) \in Nat /\ DOMAIN bundle.claims = 1 .. Len(bundle.claims)
      /\ 1 \in DOMAIN bundle.claims /\ bundle.claims[1].seq \in Nat
  BY <1>1, FileIndexes
<1>7. ASSUME NEW i \in DOMAIN bundle.claims, bundle.claims[i].seq <= a.seq
      PROVE  i \in 1 .. n
  <2>1. /\ bundle.claims[i].seq = bundle.claims[1].seq + i - 1
        /\ bundle.claims[n].seq = bundle.claims[1].seq + n - 1
    BY <1>1 DEF InPlace
  <2> QED BY <1>3, <1>6, <1>7, <2>1
<1> QED BY <1>5, <1>7

\* AnchoredMeansRecorded holds of every log and every altered bundle: the anchored
\* word vouches for the entries a third party's anchor was recorded over.
THEOREM AnchoredIsRecorded == Spec => []AnchoredMeansRecorded
<1>1. IInv => AnchoredMeansRecorded
  BY AnchoredHistory DEF AnchoredMeansRecorded
<1> QED BY <1>1, Invariance, PTL

\* LiftedHistoryRefused likewise: loomseal-chain-v1 ties a history to its install,
\* and switchtender-audit-v1 does from the first entry that carries an install id.
THEOREM LiftedIsRefused == Spec => []LiftedHistoryRefused
<1>1. ASSUME IInv, Anchored, bundle.producer # Owner, NEW a \in Witnesses
      PROVE  /\ style.profile = ProfileSwitchTender
             /\ \A i \in DOMAIN bundle.claims :
                  bundle.claims[i].seq <= a.seq =>
                    a.entries[bundle.claims[i].seq].install = NoInstall
  <2>1. /\ ~ProfileRefused(bundle) /\ ~bundle.keyed /\ bundle.profile \in Profiles
        /\ \A i \in DOMAIN bundle.claims : ~NamesOtherInstall(bundle, i)
    BY <1>1, AnchoredWindow DEF Held, IsFile
  <2>2. /\ bundle.profile = style.profile
        /\ bundle.profile = ProfileV1 => bundle.param = Owner
        /\ \A i \in DOMAIN bundle.claims :
             bundle.claims[i].seq <= a.seq => RecordedAs(bundle.claims[i], a)
    BY <1>1, AnchoredHistory
  <2>3. bundle.profile # ProfileV1
    BY <1>1, <2>1, <2>2 DEF ProfileRefused
  <2>4. bundle.profile = ProfileSwitchTender
    BY <2>1, <2>3 DEF Profiles
  <2>5. ASSUME NEW i \in DOMAIN bundle.claims, bundle.claims[i].seq <= a.seq
        PROVE  a.entries[bundle.claims[i].seq].install = NoInstall
    <3> DEFINE c == bundle.claims[i]
               e == a.entries[c.seq]
    <3>1. c.seq \in DOMAIN a.entries /\ Committed(style.profile, c) = Committed(style.profile, e)
      BY <2>2, <2>5 DEF RecordedAs
    <3>2. c.install = e.install
      BY <2>2, <2>3, <3>1 DEF Committed
    <3>3. e.install \in {NoInstall, Owner}
      BY <1>1, <3>1 DEF IInv, LedgerInv, Linked, Witnesses
    <3>4. c.install = NoInstall \/ c.install = bundle.producer
      BY <2>1, <2>4 DEF NamesOtherInstall
    <3> QED BY <1>1, <3>2, <3>3, <3>4
  <2> QED BY <2>2, <2>4, <2>5
<1>2. IInv => LiftedHistoryRefused
  BY <1>1 DEF LiftedHistoryRefused
<1> QED BY <1>2, Invariance, PTL

-----------------------------------------------------------------------------
(* How far the anchors reach. *)

\* Among finitely many coordinates at natural positions one is farthest on.
LEMMA FarthestExists ==
  ASSUME NEW M, IsFiniteSet(M), M # {}, \A a \in M : a.seq \in Nat
  PROVE  \E a \in M : \A c \in M : c.seq <= a.seq
<1> DEFINE T == {U \in SUBSET M : U # {} /\ \A a \in U : \E c \in U : ~(c.seq <= a.seq)}
<1> SUFFICES ASSUME T # {} PROVE FALSE
  <2>1. T = {} => M \notin T
    OBVIOUS
  <2> QED BY <2>1
<1>1. IsWellFoundedOn(StrictSubsetOrdering(M), SUBSET M)
  BY FS_StrictSubsetOrderingWellFounded, FS_FiniteSubsetsOfFinite
<1>2. PICK U \in T : \A V \in T : <<V, U>> \notin StrictSubsetOrdering(M)
  <2> HIDE DEF T
  <2>1. T \subseteq SUBSET M
    BY DEF T
  <2> QED BY <1>1, <2>1, WFMin
<1>3. PICK x \in U : TRUE
  OBVIOUS
<1> DEFINE W == U \ {x}
<1>4. <<W, U>> \in StrictSubsetOrdering(M)
  BY <1>3 DEF StrictSubsetOrdering
<1>5. W \notin T
  BY <1>2, <1>4
<1>6. CASE W = {}
  <2>1. \A c \in U : c = x
    BY <1>6
  <2>2. x.seq \in Nat
    BY <1>3
  <2>3. x.seq <= x.seq
    BY <2>2
  <2>4. \E c \in U : ~(c.seq <= x.seq)
    BY <1>3
  <2> QED BY <2>1, <2>3, <2>4
<1>7. CASE W # {}
  <2>1. PICK y \in W : \A c \in W : c.seq <= y.seq
    BY <1>5, <1>7
  <2>2. \A c \in U : c.seq \in Nat
    OBVIOUS
  <2>3. x.seq \in Nat /\ y.seq \in Nat /\ y \in U
    BY <2>1, <2>2
  <2>4. CASE x.seq <= y.seq
    <3>1. \A c \in U : c.seq <= y.seq
      BY <2>1, <2>4
    <3> QED BY <2>3, <3>1
  <2>5. CASE ~(x.seq <= y.seq)
    <3>1. \A c \in U : c.seq <= x.seq
      BY <2>1, <2>2, <2>3, <2>5
    <3> QED BY <1>3, <3>1
  <2> QED BY <2>4, <2>5
<1> QED BY <1>6, <1>7

\* The reach is the position of a matched anchor, or zero.
LEMMA ReachOf ==
  ASSUME NEW M, IsFiniteSet(M), \A a \in M : a.seq \in Nat
  PROVE  /\ AnchoredThrough(M) \in Nat
         /\ M # {} => \E a \in M : a.seq = AnchoredThrough(M)
         /\ M = {} => AnchoredThrough(M) = 0
<1>1. CASE M = {}
  BY <1>1 DEF AnchoredThrough
<1>2. CASE M # {}
  <2> DEFINE far == CHOOSE a \in M : \A c \in M : c.seq <= a.seq
  <2>1. far \in M
    BY <1>2, FarthestExists
  <2>2. AnchoredThrough(M) = far.seq
    BY <1>2 DEF AnchoredThrough
  <2> HIDE DEF far
  <2> QED BY <1>2, <2>1, <2>2
<1> QED BY <1>1, <1>2

\* The matched anchors of a file are finitely many of its own.
LEMMA MatchedOfFile ==
  ASSUME IsFile(bundle), NEW m
  PROVE  LET M == MatchedAnchors(bundle, m) IN
         M \subseteq bundle.anchors /\ IsFiniteSet(M) /\ \A a \in M : a.seq \in Nat
BY FS_Subset DEF MatchedAnchors, IsFile

\* ReachNeverOverstated holds of every bundle: an anchor that matched names a claim
\* of the window, and the claims stand at consecutive positions.
THEOREM ReachIsExact == Spec => []ReachNeverOverstated
<1> DEFINE M == MatchedAnchors(bundle, headMatched)
<1>1. ASSUME IInv, phase = "done", report.ok, report.through > 0
      PROVE  /\ \E i \in DOMAIN bundle.claims :
                  /\ bundle.claims[i].seq = report.through
                  /\ Coords(bundle.claims[i]) \in bundle.anchors
             /\ report.unanchored = Newest(bundle).seq - report.through
  <2>1. /\ report.through = AnchoredThrough(M)
        /\ report.unanchored = UnanchoredClaims(bundle, report.through)
    BY <1>1 DEF IInv, ReportInv
  <2>2. IsFile(bundle)
    BY <1>1 DEF IInv, BundleInv
  <2>3. Sound
    BY <1>1 DEF IInv, ReportInv, Sound
  <2>4. \A i \in DOMAIN bundle.claims : InPlace(i) /\ bundle.claims[i].chained
    BY <1>1, <2>3 DEF IInv, WalkInv, Coordinated
  <2>5. headMatched => HeadTied(bundle)
    BY <1>1 DEF IInv, WalkInv
  <2>6. M # {}
    BY <1>1, <2>1, <2>2, ReachOf, MatchedOfFile
  <2>7. PICK a \in M : a.seq = report.through
    BY <2>1, <2>2, <2>6, ReachOf, MatchedOfFile
  <2> DEFINE N == Len(bundle.claims)
             first == bundle.claims[1].seq
             r == report.through
  <2>8. N \in Nat \ {0} /\ DOMAIN bundle.claims = 1 .. N /\ first \in Nat
    BY <2>2, FileIndexes
  <2>9. PICK k \in DOMAIN bundle.claims : bundle.claims[k].seq = a.seq /\ bundle.claims[k].link = a.link
    <3>1. a \in bundle.anchors /\ Verified(bundle, headMatched, a)
      BY DEF MatchedAnchors
    <3>2. CASE headMatched /\ a.seq = bundle.head.seq
      <4>1. a.link = bundle.head.link
        BY <3>1, <3>2 DEF Verified
      <4>2. Newest(bundle).seq = a.seq /\ Newest(bundle).link = a.link
        BY <2>5, <3>2, <4>1 DEF HeadTied
      <4>3. N \in DOMAIN bundle.claims
        BY <2>8
      <4> QED BY <4>2, <4>3 DEF Newest
    <3>3. CASE ~(headMatched /\ a.seq = bundle.head.seq)
      BY <3>1, <3>3 DEF Verified, Coords
    <3> QED BY <3>2, <3>3
  <2> HIDE DEF N, first, r
  <2>10. bundle.claims[k].seq = r
    BY <2>7, <2>9 DEF r
  <2>11. r = first + k - 1
    BY <2>4, <2>10 DEF InPlace, first
  <2>12. UnanchoredClaims(bundle, r) = N - k
    <3>1. \A i \in 1 .. N : bundle.claims[i].seq = first + i - 1 /\ bundle.claims[i].chained
      BY <2>4, <2>8 DEF InPlace, first
    <3>2. k \in 1 .. N
      BY <2>8
    <3>3. {i \in 1 .. N : bundle.claims[i].chained /\ bundle.claims[i].seq > r} = (k + 1) .. N
      BY <2>8, <2>11, <3>1, <3>2
    <3>4. Cardinality((k + 1) .. N) = N - k
      BY <2>8, <3>2, FS_Interval
    <3>5. r # 0
      BY <1>1 DEF r
    <3> QED BY <2>8, <3>3, <3>4, <3>5 DEF UnanchoredClaims
  <2>13. Newest(bundle).seq = first + N - 1
    <3>1. N \in DOMAIN bundle.claims
      BY <2>8
    <3>2. bundle.claims[N].seq = first + N - 1
      BY <2>4, <3>1 DEF InPlace, first
    <3> QED BY <3>2 DEF Newest, N
  <2>14. UnanchoredClaims(bundle, r) = Newest(bundle).seq - r
    <3>1. k \in Nat
      BY <2>8
    <3> QED BY <2>8, <2>11, <2>12, <2>13, <3>1
  <2>15. \E i \in DOMAIN bundle.claims :
           bundle.claims[i].seq = report.through /\ Coords(bundle.claims[i]) \in bundle.anchors
    <3>1. a \in bundle.anchors /\ a = Coords(a)
      BY <2>2 DEF MatchedAnchors, IsFile
    <3>2. Coords(bundle.claims[k]) = a
      BY <2>9, <3>1 DEF Coords
    <3> QED BY <2>10, <3>1, <3>2 DEF r
  <2> QED BY <2>1, <2>14, <2>15 DEF r
<1>2. IInv => ReachNeverOverstated
  BY <1>1 DEF ReachNeverOverstated
<1> QED BY <1>2, Invariance, PTL

-----------------------------------------------------------------------------
(* Types. *)

\* The log stays within its bound.
LEMMA LogBounded == TypeOK /\ IInv /\ [Next]_vars => (Len(log) \in 0 .. MaxLog)'
<1> SUFFICES ASSUME TypeOK, LogInv, [Next]_vars PROVE (Len(log) \in 0 .. MaxLog)'
  BY DEF IInv
<1>0. IsClaims(log) /\ Len(log) \in 0 .. MaxLog /\ MaxLog \in Nat
  BY BoundsAssumption DEF TypeOK, LogInv, Linked
<1>1. CASE Append1
  <2>1. PICK r \in Records :
          log' = Append(log, Entry(style, Len(log) + 1, PrevLink(log, Len(log) + 1), r))
    BY <1>1 DEF Append1
  <2> DEFINE e == Entry(style, Len(log) + 1, PrevLink(log, Len(log) + 1), r)
  <2>2. IsClaim(e)
    BY <1>0, EntryShape
  <2> HIDE DEF e
  <2>3. Len(log') = Len(log) + 1
    BY <1>0, <2>1, <2>2, AppendClaim DEF e
  <2>4. Len(log) < MaxLog
    BY <1>1 DEF Append1
  <2> QED BY <1>0, <2>3, <2>4
<1>2. CASE Restore
  <2>1. PICK n \in 0 .. Len(log) - 1 : log' = SubSeq(log, 1, n)
    BY <1>2 DEF Restore
  <2>2. n \in 0 .. Len(log)
    BY <1>0
  <2>3. Len(log') = IF 1 <= n THEN n - 1 + 1 ELSE 0
    BY <1>0, <2>1, <2>2, WindowOfClaims
  <2> QED BY <1>0, <2>2, <2>3
<1>3. CASE UNCHANGED log
  BY <1>0, <1>3
<1>4. AnchorHead \/ Export \/ Edit \/ Deliver \/ Run \/ Discard \/ UNCHANGED vars => UNCHANGED log
  BY EditFrame, RunFrame DEF AnchorHead, Export, Deliver, Discard, producerVars, vars
<1> QED BY <1>1, <1>2, <1>3, <1>4 DEF Next

\* So do the anchors recorded.
LEMMA LedgerBounded == TypeOK /\ IInv /\ [Next]_vars => (Cardinality(ledger) \in 0 .. MaxAnchors)'
<1> SUFFICES ASSUME TypeOK, LedgerInv, [Next]_vars
             PROVE  (Cardinality(ledger) \in 0 .. MaxAnchors)'
  BY DEF IInv
<1>0. IsFiniteSet(ledger) /\ Cardinality(ledger) \in 0 .. MaxAnchors /\ MaxAnchors \in Nat
  BY BoundsAssumption DEF TypeOK, LedgerInv
<1>1. CASE AnchorHead
  <2>1. PICK a : ledger' = ledger \union {a}
    BY <1>1 DEF AnchorHead
  <2>2. Cardinality(ledger) < MaxAnchors
    BY <1>1 DEF AnchorHead
  <2>3. Cardinality(ledger') = Cardinality(ledger) \/ Cardinality(ledger') = Cardinality(ledger) + 1
    BY <1>0, <2>1, FS_AddElement
  <2> QED BY <1>0, <2>2, <2>3
<1>2. CASE UNCHANGED ledger
  BY <1>0, <1>2
<1>3. Append1 \/ Restore \/ Export \/ Edit \/ Deliver \/ Run \/ Discard \/ UNCHANGED vars
        => UNCHANGED ledger
  BY EditFrame, RunFrame DEF Append1, Restore, Export, Deliver, Discard, producerVars, vars
<1> QED BY <1>1, <1>2, <1>3 DEF Next

\* The other budgets, and the mark on the file.
LEMMA BudgetsKept ==
  TypeOK /\ IInv /\ [Next]_vars =>
    (restores \in 0 .. MaxRestores /\ edits \in 0 .. MaxEdits /\ genuine \in BOOLEAN)'
<1> SUFFICES ASSUME TypeOK, [Next]_vars
             PROVE  (restores \in 0 .. MaxRestores /\ edits \in 0 .. MaxEdits
                       /\ genuine \in BOOLEAN)'
  OBVIOUS
<1>0. /\ restores \in 0 .. MaxRestores /\ edits \in 0 .. MaxEdits /\ genuine \in BOOLEAN
      /\ MaxRestores \in Nat /\ MaxEdits \in Nat
  BY BoundsAssumption DEF TypeOK
<1>1. CASE Restore
  <2>1. restores' = restores + 1 /\ restores < MaxRestores /\ UNCHANGED <<edits, genuine>>
    BY <1>1 DEF Restore, fileVars
  <2> QED BY <1>0, <2>1
<1>2. CASE Export
  <2>1. restores' = restores /\ edits' = 0 /\ genuine' \in BOOLEAN
    BY <1>2 DEF Export, producerVars
  <2> QED BY <1>0, <2>1
<1>3. CASE Edit
  <2>1. \E g : restores' = restores /\ edits' = edits + 1 /\ edits < MaxEdits /\ genuine' = (genuine /\ g)
    BY <1>3 DEF Edit, Repackage, AlterClaim, MoveClaim, SpliceClaim, DropClaim,
                StripCoordinates, SetHead, Relabel, Edited, producerVars
  <2> QED BY <1>0, <2>1
<1>4. CASE Discard
  <2>1. restores' = restores /\ edits' = 0 /\ genuine' = FALSE
    BY <1>4 DEF Discard, producerVars
  <2>2. restores' \in 0 .. MaxRestores /\ edits' \in 0 .. MaxEdits
    BY <1>0, <2>1
  <2>3. genuine' \in BOOLEAN
    BY <2>1
  <2> QED BY <2>2, <2>3
<1>5. CASE UNCHANGED <<restores, edits, genuine>>
  BY <1>0, <1>5
<1>6. Append1 \/ AnchorHead \/ Deliver \/ Run \/ UNCHANGED vars => UNCHANGED <<restores, edits, genuine>>
  BY RunFrame DEF Append1, AnchorHead, Deliver, producerVars, fileVars, vars
<1> QED BY <1>1, <1>2, <1>3, <1>4, <1>5, <1>6 DEF Next

\* Every count the report holds is a natural number.
LEMMA CountsOf ==
  ASSUME IsFile(bundle), NEW m
  PROVE  LET M == MatchedAnchors(bundle, m) IN
         {Cardinality(M), Cardinality(DeclaredOnly(bundle, m)), AnchoredThrough(M),
          UnanchoredClaims(bundle, AnchoredThrough(M))} \subseteq Nat
<1> DEFINE M == MatchedAnchors(bundle, m)
<1>1. IsFiniteSet(M) /\ Cardinality(M) \in Nat /\ AnchoredThrough(M) \in Nat
  BY MatchedOfFile, FS_CardinalityType, ReachOf
<1>2. Cardinality(DeclaredOnly(bundle, m)) \in Nat
  <2>1. DeclaredOnly(bundle, m) \subseteq bundle.anchors
    BY DEF DeclaredOnly
  <2> QED BY <2>1, FS_Subset, FS_CardinalityType DEF IsFile
<1>3. \A n : UnanchoredClaims(bundle, n) \in Nat
  <2> TAKE n
  <2> DEFINE U == {i \in DOMAIN bundle.claims : bundle.claims[i].chained /\ bundle.claims[i].seq > n}
  <2>1. IsFiniteSet(DOMAIN bundle.claims)
    BY FileIndexes, FS_Interval
  <2>2. U \subseteq DOMAIN bundle.claims
    OBVIOUS
  <2> HIDE DEF U
  <2>3. Cardinality(U) \in Nat
    BY <2>1, <2>2, FS_Subset, FS_CardinalityType
  <2> QED BY <2>3 DEF UnanchoredClaims, U
<1> QED BY <1>1, <1>2, <1>3

IsReport(r) ==
  /\ r.ok \in BOOLEAN /\ r.level \in Levels
  /\ {r.matched, r.declared, r.through, r.unanchored} \subseteq Nat

\* No report yet is a report.
LEMMA NoReportTyped == IsReport(NoReport)
<1>1. /\ NoReport.ok = FALSE /\ NoReport.level = "not verified"
      /\ NoReport.matched = 0 /\ NoReport.declared = 0
      /\ NoReport.through = 0 /\ NoReport.unanchored = 0
  BY DEF NoReport
<1>2. NoReport.ok \in BOOLEAN /\ NoReport.level \in Levels
  BY <1>1, Zenon DEF Levels
<1>3. {NoReport.matched, NoReport.declared, NoReport.through, NoReport.unanchored} \subseteq Nat
  <2>1. 0 \in Nat
    OBVIOUS
  <2> QED BY <1>1, <2>1, Zenon
<1> QED BY <1>2, <1>3 DEF IsReport

\* Only CheckAnchors writes a report and only Discard clears it.
LEMMA ReportTyped == IInv /\ IsReport(report) /\ [Next]_vars => IsReport(report')
<1> SUFFICES ASSUME IInv, IsReport(report), [Next]_vars PROVE IsReport(report')
  OBVIOUS
<1>1. CASE Run /\ CheckAnchors
  <2> DEFINE M == MatchedAnchors(bundle, headMatched)
             ok == err = "" /\ UnmatchedAnchors(bundle, headMatched) = {}
  <2>1. /\ report'.ok = ok
        /\ report'.level = Level(ok, mode, M)
        /\ report'.matched = Cardinality(M)
        /\ report'.declared = Cardinality(DeclaredOnly(bundle, headMatched))
        /\ report'.through = AnchoredThrough(M)
        /\ report'.unanchored = UnanchoredClaims(bundle, AnchoredThrough(M))
    BY <1>1 DEF CheckAnchors
  <2>2. IsFile(bundle)
    BY <1>1 DEF CheckAnchors, IInv, BundleInv
  <2>3. {report'.matched, report'.declared, report'.through, report'.unanchored} \subseteq Nat
    BY <2>1, <2>2, CountsOf
  <2>4. report'.ok \in BOOLEAN
    BY <2>1
  <2>5. report'.level \in Levels
    <3> HIDE DEF ok, M
    <3> QED BY <2>1 DEF Level, Levels
  <2> QED BY <2>3, <2>4, <2>5 DEF IsReport
<1>2. CASE Discard
  <2>1. report' = NoReport
    BY <1>2 DEF Discard
  <2> QED BY <2>1, NoReportTyped
<1>3. CASE report' = report
  BY <1>3
<1>4. Append1 \/ Restore \/ AnchorHead \/ Export \/ Edit \/ Deliver \/ (Run /\ ~CheckAnchors)
        \/ UNCHANGED vars => report' = report
  BY EditFrame DEF Append1, Restore, AnchorHead, Export, Deliver, Run, Verify, CheckCoordinates,
     CheckContinuity, CheckHead, CheckProfile, CheckLinks, Goto, Fail, runVars, vars
<1> QED BY <1>1, <1>2, <1>3, <1>4 DEF Next

\* The verifier's own registers hold one of the errors and modes the code knows.
LEMMA RegistersTyped ==
  err \in Errors \union {""} /\ mode \in {"", ModeFull, ModeStructural} /\ headMatched \in BOOLEAN
    /\ [Next]_vars =>
  (err \in Errors \union {""} /\ mode \in {"", ModeFull, ModeStructural} /\ headMatched \in BOOLEAN)'
<1> SUFFICES ASSUME err \in Errors \union {""}, mode \in {"", ModeFull, ModeStructural},
                    headMatched \in BOOLEAN, [Next]_vars
             PROVE  (err \in Errors \union {""} /\ mode \in {"", ModeFull, ModeStructural}
                       /\ headMatched \in BOOLEAN)'
  OBVIOUS
<1>1. CASE Run
  <2>1. (\E e \in Errors : Fail(e)) \/ (err' = err /\ mode' \in {mode, ModeFull, ModeStructural})
    BY <1>1 DEF Run, Verify, CheckCoordinates, CheckContinuity, CheckHead, CheckProfile,
                CheckLinks, CheckAnchors, Goto, Errors
  <2>2. headMatched' \in BOOLEAN
    BY <1>1 DEF Run, Verify, CheckCoordinates, CheckContinuity, CheckHead, CheckProfile,
                CheckLinks, CheckAnchors, Fail, HeadTied
  <2> QED BY <2>1, <2>2 DEF Fail
<1>2. CASE Discard
  BY <1>2 DEF Discard
<1>3. CASE UNCHANGED <<err, mode, headMatched>>
  BY <1>3
<1>4. Append1 \/ Restore \/ AnchorHead \/ Export \/ Edit \/ Deliver \/ UNCHANGED vars
        => UNCHANGED <<err, mode, headMatched>>
  BY EditFrame DEF Append1, Restore, AnchorHead, Export, Deliver, runVars, vars
<1> QED BY <1>1, <1>2, <1>3, <1>4 DEF Next

\* The type invariant, for every value of the bounds.
THEOREM TypesHold == Spec => []TypeOK
<1>1. Init => TypeOK
  <2> SUFFICES ASSUME Init PROVE TypeOK
    OBVIOUS
  <2>1. Len(log) = 0 /\ Cardinality(ledger) = 0
    BY NoClaims, FS_EmptySet DEF Init
  <2>2. 0 \in 0 .. MaxLog /\ 0 \in 0 .. MaxAnchors /\ 0 \in 0 .. MaxRestores /\ 0 \in 0 .. MaxEdits
    BY BoundsAssumption
  <2>3. IsReport(report)
    BY NoReportTyped DEF Init
  <2>4. /\ err \in Errors \union {""} /\ mode \in {"", ModeFull, ModeStructural}
        /\ headMatched \in BOOLEAN /\ genuine \in BOOLEAN
    BY DEF Init
  <2>5. style \in Styles /\ phase \in Phases
    BY DEF Init, Phases
  <2>6. pos \in Nat
    BY DEF Init
  <2>7. /\ Len(log) \in 0 .. MaxLog /\ Cardinality(ledger) \in 0 .. MaxAnchors
        /\ restores \in 0 .. MaxRestores /\ edits \in 0 .. MaxEdits
    <3>1. restores = 0 /\ edits = 0
      BY DEF Init
    <3> QED BY <2>1, <2>2, <3>1
  <2> QED BY <2>3, <2>4, <2>5, <2>6, <2>7 DEF TypeOK, IsReport
<1>2. TypeOK /\ IInv /\ IInv' /\ [Next]_vars => TypeOK'
  <2> SUFFICES ASSUME TypeOK, IInv, IInv', [Next]_vars PROVE TypeOK'
    OBVIOUS
  <2>1. IsReport(report')
    BY ReportTyped DEF TypeOK, IsReport
  <2>2. (err \in Errors \union {""} /\ mode \in {"", ModeFull, ModeStructural}
          /\ headMatched \in BOOLEAN)'
    BY RegistersTyped DEF TypeOK
  <2>3. style' \in Styles /\ phase' \in Phases /\ pos' \in Nat
    BY DEF IInv, LogInv, WalkInv
  <2> QED BY <2>1, <2>2, <2>3, LogBounded, LedgerBounded, BudgetsKept DEF TypeOK, IsReport
<1> QED BY <1>1, <1>2, Invariance, PTL DEF Spec

-----------------------------------------------------------------------------
(* One look at the whole file. *)

\* ChainJudge speaks of the links the walk does.
LEMMA SameLinks ==
  /\ Judged!NoLink = NoLink /\ Judged!ProfileV1 = ProfileV1
  /\ Judged!ModeFull = ModeFull /\ Judged!ModeStructural = ModeStructural
  /\ \A c : Judged!Coords(c) = Coords(c)
  /\ \A b, i : Judged!LinkRecomputes(b, i) <=> LinkRecomputes(b, i)
<1>1. \A b, i : Judged!Recomputed(b, i) = Recomputed(b, i)
  BY DEF Judged!Recomputed, Recomputed, Judged!LinkV1, LinkV1, Judged!LinkSwitchTender,
         LinkSwitchTender, Judged!ProfileV1, ProfileV1, Judged!ClaimContent, ClaimContent
<1> QED BY <1>1 DEF Judged!NoLink, NoLink, Judged!ProfileV1, ProfileV1, Judged!ModeFull, ModeFull,
                    Judged!ModeStructural, ModeStructural, Judged!Coords, Coords,
                    Judged!LinkRecomputes, LinkRecomputes

\* Claims that all stand where the walk wants them are one window.
LEMMA WindowIsWalked ==
  ASSUME IsFile(bundle)
  PROVE  Judged!OneWindow(bundle) <=>
           Coordinated(bundle) /\ \A i \in DOMAIN bundle.claims : InPlace(i)
<1> DEFINE s == bundle.claims
           N == Len(s)
<1>1. N \in Nat /\ DOMAIN s = 1 .. N /\ \A i \in DOMAIN s : s[i].seq \in Nat \ {0}
  BY FileIndexes
<1>2. ASSUME Judged!OneWindow(bundle), NEW i \in DOMAIN s PROVE InPlace(i) /\ s[i].chained
  <2>1. /\ s[i].chained /\ s[i].seq = s[1].seq + i - 1
        /\ i = 1 => (s[i].prev = NoLink <=> s[i].seq = 1)
        /\ i > 1 => s[i].prev = s[i - 1].link
    BY <1>2, SameLinks DEF Judged!OneWindow
  <2>2. CASE i = 1
    BY <1>1, <2>1, <2>2 DEF InPlace, Follows
  <2>3. CASE i # 1
    <3> DEFINE m == i - 1
    <3>1. m \in DOMAIN s /\ i > 1 /\ 1 \in DOMAIN s /\ i \in Nat
      BY <1>1, <2>3
    <3>2. s[m].seq = s[1].seq + m - 1 /\ s[1].seq \in Nat
      BY <1>1, <1>2, <3>1 DEF Judged!OneWindow
    <3>3. s[i].seq = s[m].seq + 1
      BY <2>1, <3>1, <3>2
    <3> QED BY <2>1, <2>3, <3>1, <3>3 DEF InPlace, Follows
  <2> QED BY <2>2, <2>3
<1>3. ASSUME Coordinated(bundle), \A i \in DOMAIN s : InPlace(i), NEW i \in DOMAIN s
      PROVE  /\ s[i].chained /\ s[i].seq = s[1].seq + i - 1
             /\ i = 1 => (s[i].prev = NoLink <=> s[i].seq = 1)
             /\ i > 1 => s[i].prev = s[i - 1].link
  <2>1. s[i].chained /\ Follows(bundle, i) /\ s[i].seq = s[1].seq + i - 1 /\ i \in Nat
    BY <1>1, <1>3 DEF Coordinated, InPlace
  <2> QED BY <1>1, <2>1 DEF Follows
<1>4. Judged!OneWindow(bundle) => Coordinated(bundle) /\ \A i \in DOMAIN s : InPlace(i)
  BY <1>2 DEF Coordinated
<1>5. Coordinated(bundle) /\ (\A i \in DOMAIN s : InPlace(i)) => Judged!OneWindow(bundle)
  BY <1>3, SameLinks DEF Judged!OneWindow
<1> QED BY <1>4, <1>5

\* In a window the newest claim is the one at the highest position.
LEMMA NewestIs ==
  ASSUME IsFile(bundle), Judged!OneWindow(bundle)
  PROVE  LET N == Len(bundle.claims)
         IN  /\ N \in DOMAIN bundle.claims /\ Newest(bundle) = bundle.claims[N]
             /\ \A i \in DOMAIN bundle.claims :
                  /\ bundle.claims[i].seq <= Newest(bundle).seq
                  /\ bundle.claims[i].seq = Newest(bundle).seq => i = N
             /\ \A i, j \in DOMAIN bundle.claims :
                  bundle.claims[i].seq = bundle.claims[j].seq => i = j
<1> DEFINE s == bundle.claims
           N == Len(s)
<1>1. N \in Nat \ {0} /\ DOMAIN s = 1 .. N /\ \A i \in DOMAIN s : s[i].seq \in Nat \ {0}
  BY FileIndexes
<1>2. \A i \in DOMAIN s : s[i].seq = s[1].seq + i - 1
  BY DEF Judged!OneWindow
<1>3. Newest(bundle) = s[N]
  BY DEF Newest
<1> HIDE DEF N, s
<1>4. N \in DOMAIN s /\ 1 \in DOMAIN s
  BY <1>1
<1>5. \A i \in DOMAIN s : s[i].seq <= s[N].seq /\ (s[i].seq = s[N].seq => i = N)
  BY <1>1, <1>2, <1>4
<1>6. \A i, j \in DOMAIN s : s[i].seq = s[j].seq => i = j
  BY <1>1, <1>2, <1>4
<1> QED BY <1>3, <1>4, <1>5, <1>6 DEF N, s

\* The head test, told without the newest claim.
LEMMA HeadIsTested ==
  ASSUME IsFile(bundle), HasHead(bundle), Judged!OneWindow(bundle)
  PROVE  Judged!HeadAgrees(bundle) <=> ~HeadBehind(bundle) /\ ~HeadContradicts(bundle)
<1> DEFINE s == bundle.claims
           N == Len(s)
           h == bundle.head
<1>1. /\ N \in DOMAIN s /\ Newest(bundle) = s[N]
      /\ \A i \in DOMAIN s : s[i].seq <= s[N].seq /\ (s[i].seq = s[N].seq => i = N)
  BY NewestIs
<1>2. h = [seq |-> h.seq, link |-> h.link] /\ h.seq \in Nat /\ \A i \in DOMAIN s : s[i].seq \in Nat
  BY FileIndexes DEF HasHead, Coords
<1>3. Judged!HeadAgrees(bundle) <=>
        \A i \in DOMAIN s : s[i].seq >= h.seq => [seq |-> s[i].seq, link |-> s[i].link] = h
  BY SameLinks DEF Judged!HeadAgrees, Coords
<1>4. HeadBehind(bundle) <=> h.seq < s[N].seq
  BY <1>1 DEF HeadBehind
<1>5. HeadContradicts(bundle) <=> h.seq = s[N].seq /\ h.link # s[N].link
  BY <1>1 DEF HeadContradicts
<1> HIDE DEF N, s, h
<1>6. ASSUME \A i \in DOMAIN s : s[i].seq >= h.seq => [seq |-> s[i].seq, link |-> s[i].link] = h
      PROVE  ~(h.seq < s[N].seq) /\ ~(h.seq = s[N].seq /\ h.link # s[N].link)
  <2>1. s[N].seq >= h.seq => s[N].seq = h.seq /\ s[N].link = h.link
    BY <1>1, <1>6
  <2> QED BY <1>1, <1>2, <2>1
<1>7. ASSUME ~(h.seq < s[N].seq), ~(h.seq = s[N].seq /\ h.link # s[N].link),
             NEW i \in DOMAIN s, s[i].seq >= h.seq
      PROVE  [seq |-> s[i].seq, link |-> s[i].link] = h
  <2>1. s[i].seq = h.seq /\ s[N].seq = h.seq /\ i = N
    BY <1>1, <1>2, <1>7
  <2> QED BY <1>2, <1>7, <2>1
<1> QED BY <1>3, <1>4, <1>5, <1>6, <1>7

\* The tests of the declaration and of the links amount to Rehashed.
LEMMA RehashedIs ==
  ASSUME IsFile(bundle), HasHead(bundle), ~bundle.keyed
  PROVE  Judged!Rehashed(bundle) <=>
           /\ ~ProfileRefused(bundle)
           /\ \A i \in DOMAIN bundle.claims :
                ~NamesOtherInstall(bundle, i) /\ LinkRecomputes(bundle, i)
<1>1. bundle.producer # NoInstall
  BY InstallAssumption DEF HasHead
<1>2. bundle.profile = ProfileV1 \/ bundle.profile = ProfileSwitchTender
  BY DEF IsFile, Profiles
<1>3. ProfileV1 # ProfileSwitchTender
  BY DEF ProfileV1, ProfileSwitchTender
<1>4. ProfileRefused(bundle) <=>
        ~(bundle.param \in {bundle.producer} \union (IF bundle.profile = ProfileV1 THEN {} ELSE {NoInstall}))
  BY <1>1, <1>2, <1>3 DEF ProfileRefused
<1>5. \A i \in DOMAIN bundle.claims :
        NamesOtherInstall(bundle, i) <=>
          ~(bundle.profile = ProfileV1 \/ bundle.claims[i].install \in {NoInstall, bundle.producer})
  BY <1>2, <1>3 DEF NamesOtherInstall
<1> QED BY <1>4, <1>5, SameLinks DEF Judged!Rehashed

\* A keyed chain is refused or followed, by its profile.
LEMMA KeyedIs ==
  ASSUME IsFile(bundle), bundle.keyed
  PROVE  ProfileRefused(bundle) <=> bundle.profile # ProfileV1
BY DEF ProfileRefused, IsFile, Profiles, ProfileV1, ProfileSwitchTender

LEMMA ModesDiffer == ModeFull # "" /\ ModeStructural # "" /\ ModeFull # ModeStructural
BY DEF ModeFull, ModeStructural

LEMMA SoundModeIs ==
  ASSUME IsFile(bundle), HasHead(bundle)
  PROVE  /\ ~Judged!OneWindow(bundle) \/ ~Judged!HeadAgrees(bundle) => Judged!SoundMode(bundle) = ""
         /\ bundle.keyed /\ bundle.profile # ProfileV1 => Judged!SoundMode(bundle) = ""
         /\ ~bundle.keyed /\ ~Judged!Rehashed(bundle) => Judged!SoundMode(bundle) = ""
         /\ Judged!OneWindow(bundle) /\ Judged!HeadAgrees(bundle) =>
              /\ bundle.keyed /\ bundle.profile = ProfileV1 => Judged!SoundMode(bundle) = ModeStructural
              /\ ~bundle.keyed /\ Judged!Rehashed(bundle) => Judged!SoundMode(bundle) = ModeFull
         /\ Judged!SoundMode(bundle) # "" => Judged!OneWindow(bundle) /\ Judged!HeadAgrees(bundle)
         /\ Judged!SoundMode(bundle) \in {"", ModeFull, ModeStructural}
BY SameLinks DEF Judged!SoundMode

-----------------------------------------------------------------------------
(* The walk ends as the look at the whole file. *)

\* A step that leaves the file alone leaves the judgement of it alone.
LEMMA JudgeFrame ==
  ASSUME UNCHANGED bundle
  PROVE  /\ Judged!SoundMode(bundle)' = Judged!SoundMode(bundle)
         /\ HasHead(bundle)' <=> HasHead(bundle)
         /\ HeadTied(bundle)' <=> HeadTied(bundle)
         /\ HeadBehind(bundle)' <=> HeadBehind(bundle)
         /\ HeadContradicts(bundle)' <=> HeadContradicts(bundle)
<1>1. Judged!SoundMode(bundle)' = Judged!SoundMode(bundle)
  BY DEF Judged!SoundMode, Judged!OneWindow, Judged!HeadAgrees, Judged!Rehashed,
         Judged!LinkRecomputes, Judged!Recomputed
<1> QED BY <1>1

\* An error is the answer to a file that is not sound.
LEMMA JudgeFail ==
  ASSUME NEW e, e # "", HasHead(bundle), Judged!SoundMode(bundle) = "", Fail(e)
  PROVE  JudgeInv'
<1>1. phase' = "anchors" /\ err' = e /\ mode' = "" /\ bundle' = bundle
  BY DEF Fail
<1>2. HasHead(bundle)' /\ Judged!SoundMode(bundle)' = ""
  BY <1>1, JudgeFrame
<1> QED BY <1>1, <1>2 DEF JudgeInv, Ended

\* While the walk goes on.
LEMMA JudgeOn ==
  ASSUME HasHead(bundle), bundle' = bundle, phase' \in {"transit", "coords", "continuity", "head"}
  PROVE  JudgeInv'
<1>1. HasHead(bundle)'
  BY JudgeFrame
<1> QED BY <1>1 DEF JudgeInv, Ended

\* A head test that passed, and passes on.
LEMMA JudgeHead ==
  ASSUME HasHead(bundle), bundle' = bundle, phase' \in {"profile", "links"},
         ~HeadBehind(bundle), ~HeadContradicts(bundle), HeadTied(bundle) => headMatched'
  PROVE  JudgeInv'
<1>1. HasHead(bundle)' /\ ~HeadBehind(bundle)' /\ ~HeadContradicts(bundle)'
  BY JudgeFrame
<1>2. HeadTied(bundle)' => headMatched'
  BY JudgeFrame
<1> QED BY <1>1, <1>2 DEF JudgeInv, Ended

\* The end of a walk that found nothing wrong.
LEMMA JudgeEnd ==
  ASSUME HasHead(bundle), bundle' = bundle, phase' \in {"anchors", "done"}, err' = "", mode' # "",
         Judged!SoundMode(bundle) = mode', HeadTied(bundle) => headMatched'
  PROVE  JudgeInv'
<1>1. HasHead(bundle)' /\ Judged!SoundMode(bundle)' = mode'
  BY JudgeFrame
<1>2. HeadTied(bundle)' => headMatched'
  BY JudgeFrame
<1> QED BY <1>1, <1>2 DEF JudgeInv, Ended

LEMMA JudgeRun ==
  ASSUME IInv, JudgeInv, Run
  PROVE  JudgeInv'
<1> DEFINE s == bundle.claims
<1>1. phase # "idle" /\ bundle' = bundle
  BY RunFrame DEF Run, Verify, CheckCoordinates, CheckContinuity, CheckHead, CheckProfile,
                  CheckLinks, CheckAnchors
<1>2. IsFile(bundle) /\ HasHead(bundle) /\ WalkInv
  BY <1>1 DEF IInv, BundleInv, JudgeInv
<1>3. CASE CheckCoordinates
  <2>1. CASE ~Coordinated(bundle) /\ Fail("ErrClaim")
    <3>1. ~Judged!OneWindow(bundle)
      BY <1>2, <2>1, WindowIsWalked
    <3> QED BY <1>2, <2>1, <3>1, SoundModeIs, JudgeFail
  <2>2. CASE phase' = "continuity"
    BY <1>1, <1>2, <2>2, JudgeOn
  <2> QED BY <1>3, <2>1, <2>2 DEF CheckCoordinates, Goto
<1>4. CASE CheckContinuity
  <2>1. CASE pos \in DOMAIN s /\ ~Follows(bundle, pos) /\ Fail("ErrBroken")
    <3>1. ~Judged!OneWindow(bundle)
      BY <1>2, <2>1, WindowIsWalked DEF InPlace
    <3> QED BY <1>2, <2>1, <3>1, SoundModeIs, JudgeFail
  <2>2. CASE phase' \in {"continuity", "head"}
    BY <1>1, <1>2, <2>2, JudgeOn
  <2> QED BY <1>4, <2>1, <2>2 DEF CheckContinuity, Goto
<1>5. ASSUME phase \in {"head", "profile", "links"} PROVE Judged!OneWindow(bundle)
  BY <1>2, <1>5, WindowIsWalked DEF WalkInv, Sound
<1>6. CASE CheckHead
  <2>1. Judged!OneWindow(bundle)
    BY <1>5, <1>6 DEF CheckHead
  <2>2. CASE (HeadBehind(bundle) \/ HeadContradicts(bundle)) /\ Fail("ErrBroken")
    <3>1. ~Judged!HeadAgrees(bundle)
      BY <1>2, <2>1, <2>2, HeadIsTested
    <3> QED BY <1>2, <2>2, <3>1, SoundModeIs, JudgeFail
  <2>3. CASE /\ ~HeadBehind(bundle) /\ ~HeadContradicts(bundle)
             /\ headMatched' = HeadTied(bundle) /\ phase' = "profile"
    <3>1. HeadTied(bundle) => headMatched'
      BY <2>3
    <3> QED BY <1>1, <1>2, <2>3, <3>1, JudgeHead
  <2> QED BY <1>6, <2>2, <2>3 DEF CheckHead, Goto
<1>7. ASSUME phase \in {"profile", "links"}
      PROVE  /\ Judged!OneWindow(bundle) /\ Judged!HeadAgrees(bundle)
             /\ ~HeadBehind(bundle) /\ ~HeadContradicts(bundle)
             /\ HeadTied(bundle) => headMatched
             /\ err = ""
  <2>1. Judged!OneWindow(bundle)
    BY <1>5, <1>7
  <2>2. /\ ~HeadBehind(bundle) /\ ~HeadContradicts(bundle)
        /\ HeadTied(bundle) => headMatched
    BY <1>7 DEF JudgeInv
  <2>3. err = ""
    BY <1>2, <1>7 DEF WalkInv
  <2> QED BY <1>2, <2>1, <2>2, <2>3, HeadIsTested
<1>8. CASE CheckProfile
  <2>0. phase = "profile"
    BY <1>8 DEF CheckProfile
  <2>1. CASE ProfileRefused(bundle) /\ Fail("ErrProfile")
    <3>1. Judged!SoundMode(bundle) = ""
      <4>1. CASE bundle.keyed
        BY <1>2, <2>1, <4>1, KeyedIs, SoundModeIs
      <4>2. CASE ~bundle.keyed
        BY <1>2, <2>1, <4>2, RehashedIs, SoundModeIs
      <4> QED BY <4>1, <4>2
    <3> QED BY <1>2, <2>1, <3>1, JudgeFail
  <2>2. CASE /\ ~ProfileRefused(bundle) /\ bundle.keyed
             /\ mode' = ModeStructural /\ Goto("anchors") /\ UNCHANGED <<pos, headMatched>>
    <3>1. Judged!SoundMode(bundle) = ModeStructural
      BY <1>2, <1>7, <2>0, <2>2, KeyedIs, SoundModeIs
    <3>2. phase' = "anchors" /\ err' = ""
      BY <1>7, <2>0, <2>2 DEF Goto
    <3>3. HeadTied(bundle) => headMatched'
      BY <1>7, <2>0, <2>2
    <3> QED BY <1>1, <1>2, <2>2, <3>1, <3>2, <3>3, JudgeEnd, ModesDiffer
  <2>3. CASE phase' = "links" /\ UNCHANGED headMatched
    <3>1. HeadTied(bundle) => headMatched'
      BY <1>7, <2>0, <2>3
    <3> QED BY <1>1, <1>2, <1>7, <2>0, <2>3, <3>1, JudgeHead
  <2> QED BY <1>8, <2>1, <2>2, <2>3 DEF CheckProfile, Goto
<1>9. CASE CheckLinks
  <2>0. phase = "links" /\ ~bundle.keyed /\ ~ProfileRefused(bundle)
    BY <1>2, <1>9 DEF CheckLinks, WalkInv
  <2>1. CASE /\ pos \in DOMAIN s /\ (NamesOtherInstall(bundle, pos) \/ ~LinkRecomputes(bundle, pos))
             /\ \E e \in Errors : Fail(e)
    <3>1. Judged!SoundMode(bundle) = ""
      BY <1>2, <2>0, <2>1, RehashedIs, SoundModeIs
    <3> QED BY <1>2, <2>1, <3>1, JudgeFail DEF Errors
  <2>2. CASE phase' = "links" /\ UNCHANGED headMatched
    <3>1. HeadTied(bundle) => headMatched'
      BY <1>7, <2>0, <2>2
    <3> QED BY <1>1, <1>2, <1>7, <2>0, <2>2, <3>1, JudgeHead
  <2>3. CASE /\ pos \notin DOMAIN s /\ mode' = ModeFull
             /\ Goto("anchors") /\ UNCHANGED <<pos, headMatched>>
    <3>1. phase' = "anchors" /\ err' = ""
      BY <1>7, <2>0, <2>3 DEF Goto
    <3>2. mode' = ModeFull /\ WalkInv'
      BY <2>3, WalkKept DEF Next
    <3>3. \A i \in DOMAIN s : Held(i)
      <4>1. \A i \in DOMAIN bundle'.claims : Held(i)'
        BY <3>2 DEF WalkInv
      <4> QED BY <1>1, <4>1, RunFrame, WalkFrame
    <3>4. Judged!SoundMode(bundle) = ModeFull
      BY <1>2, <1>7, <2>0, <3>3, RehashedIs, SoundModeIs DEF Held
    <3>5. HeadTied(bundle) => headMatched'
      BY <1>7, <2>0, <2>3
    <3> QED BY <1>1, <1>2, <3>1, <3>2, <3>4, <3>5, JudgeEnd, ModesDiffer
  <2> QED BY <1>9, <2>1, <2>2, <2>3 DEF CheckLinks, Goto, Errors
<1>10. CASE CheckAnchors
  <2>1. Ended /\ phase' = "done" /\ UNCHANGED <<err, headMatched, mode>>
    BY <1>10 DEF CheckAnchors, Ended
  <2>2. HasHead(bundle)' /\ Judged!SoundMode(bundle)' = mode'
    BY <1>1, <1>2, <2>1, JudgeFrame DEF JudgeInv
  <2>3. err = "" => (HeadTied(bundle) => headMatched)
    BY <2>1 DEF JudgeInv
  <2>4. err' = "" => (HeadTied(bundle)' => headMatched')
    BY <1>1, <2>1, <2>3, JudgeFrame
  <2>5. (mode' = "" => err' # "") /\ (mode' # "" => err' = "")
    BY <2>1 DEF JudgeInv
  <2> QED BY <2>1, <2>2, <2>4, <2>5 DEF JudgeInv, Ended
<1> QED BY <1>3, <1>4, <1>6, <1>8, <1>9, <1>10 DEF Run, Verify

\* A changed claim leaves the rest of the file alone.
LEMMA ClaimsOnly ==
  ASSUME NEW b, IsFile(b), NEW v
  PROVE  LET d == [b EXCEPT !.claims = v]
         IN  /\ d.claims = v /\ d.head = b.head /\ d.producer = b.producer /\ d.param = b.param
             /\ d.profile = b.profile /\ d.keyed = b.keyed /\ d.anchors = b.anchors
             /\ DOMAIN d = BundleMembers
BY DEF IsFile, BundleMembers

LEMMA HeadReplaces ==
  ASSUME IsFile(bundle), HasHead(bundle), NEW i \in DOMAIN bundle.claims, NEW c, Replaces(i, c)
  PROVE  HasHead(bundle')
<1> DEFINE d == [bundle EXCEPT !.claims[i] = c]
           v == [bundle.claims EXCEPT ![i] = c]
<1>1. d = [bundle EXCEPT !.claims = v]
  OBVIOUS
<1>2. /\ d.head = bundle.head /\ d.producer = bundle.producer /\ DOMAIN d = BundleMembers
  BY <1>1, ClaimsOnly
<1>3. HasHead(d)
  BY <1>2 DEF HasHead
<1>4. HasHead(Relinked(d, i))
  <2> HIDE DEF d
  <2>1. Relinked(d, i).head = d.head /\ Relinked(d, i).producer = d.producer
    BY <1>2 DEF Relinked, BundleMembers
  <2> QED BY <1>3, <2>1 DEF HasHead
<1> QED BY <1>3, <1>4 DEF Replaces

\* Whatever is changed on the way, the file keeps a head and a producer.
LEMMA HeadEdited ==
  ASSUME IsFile(bundle), HasHead(bundle), Edit
  PROVE  HasHead(bundle')
<1>1. CASE Repackage \/ SpliceClaim \/ DropClaim \/ StripCoordinates
  <2>1. \E v : bundle' = [bundle EXCEPT !.claims = v]
    BY <1>1 DEF Repackage, SpliceClaim, DropClaim, StripCoordinates
  <2> QED BY <2>1, ClaimsOnly DEF HasHead
<1>2. CASE AlterClaim \/ MoveClaim
  <2>1. \E i \in DOMAIN bundle.claims : \E c : Replaces(i, c)
    BY <1>2 DEF AlterClaim, MoveClaim
  <2> QED BY <2>1, HeadReplaces
<1>3. CASE SetHead
  <2>1. PICK head \in {Coords(bundle.claims[i]) : i \in DOMAIN bundle.claims}
                        \union [seq : 1 .. MaxLog + 1, link : {StrayLink}] :
          \E anchors : bundle' = [bundle EXCEPT !.head = head, !.anchors = anchors]
    BY <1>3 DEF SetHead
  <2>2. head.seq \in Nat /\ head = Coords(head)
    BY FileIndexes, BoundsAssumption DEF Coords
  <2>3. bundle'.head = head /\ bundle'.producer = bundle.producer
    BY <2>1 DEF IsFile, BundleMembers
  <2> QED BY <2>2, <2>3 DEF HasHead
<1>4. CASE Relabel
  <2>1. bundle'.head = bundle.head /\ bundle'.producer \in Installs
    BY <1>4 DEF Relabel, IsFile, BundleMembers, HasHead
  <2> QED BY <2>1 DEF HasHead
<1> QED BY <1>1, <1>2, <1>3, <1>4 DEF Edit

\* What Export writes.
CutOf(from, to, top, anchors) ==
  [profile |-> style.profile, keyed |-> style.keyed, producer |-> Owner, param |-> Owner,
   claims |-> SubSeq(log, from, to), head |-> Coords(log[top]), anchors |-> anchors]

LEMMA ExportIs ==
  ASSUME LogInv, Export
  PROVE  \E from, to, top \in DOMAIN log : \E anchors :
           /\ from <= to /\ to <= top
           /\ bundle' = CutOf(from, to, top, anchors)
           /\ genuine' = \A a \in anchors : \E k \in (from .. to) \union {top} : a = Coords(log[k])
<1> DEFINE Says(from, to, top, anchors) ==
             \A a \in anchors : \E k \in (from .. to) \union {top} : a = Coords(log[k])
           Makes(from, to, top) ==
             \E anchors : /\ bundle' = CutOf(from, to, top, anchors)
                          /\ genuine' = Says(from, to, top, anchors)
<1>0. Len(log) \in Nat /\ DOMAIN log = 1 .. Len(log)
  BY SequenceShape DEF LogInv, Linked, IsClaims
<1> HIDE DEF Says
<1>a. \E from \in DOMAIN log : \E to \in from .. Len(log) : \E top \in to .. Len(log) :
        \E anchors \in SUBSET ({Coords(a) : a \in ledger} \union {Coords(log[top])}) :
          /\ bundle' = CutOf(from, to, top, anchors)
          /\ genuine' = Says(from, to, top, anchors)
  BY Zenon DEF Export, CutOf, Says
<1>1. PICK from \in DOMAIN log : \E to \in from .. Len(log) : \E top \in to .. Len(log) :
        Makes(from, to, top)
  BY <1>a, Zenon
<1> HIDE DEF Makes
<1>2. PICK to \in from .. Len(log) : \E top \in to .. Len(log) : Makes(from, to, top)
  BY <1>1
<1>3. PICK top \in to .. Len(log) : Makes(from, to, top)
  BY <1>2
<1>4. to \in DOMAIN log /\ top \in DOMAIN log /\ from <= to /\ to <= top
  BY <1>0
<1>5. PICK anchors : /\ bundle' = CutOf(from, to, top, anchors)
                     /\ genuine' = Says(from, to, top, anchors)
  BY <1>3, Zenon DEF Makes
<1>6. /\ from <= to /\ to <= top
      /\ bundle' = CutOf(from, to, top, anchors) /\ genuine' = Says(from, to, top, anchors)
  BY <1>4, <1>5, Zenon
<1> SUFFICES \E f, t, u \in DOMAIN log : \E s :
               /\ f <= t /\ t <= u /\ bundle' = CutOf(f, t, u, s) /\ genuine' = Says(f, t, u, s)
  BY DEF Says
<1> QED BY <1>4, <1>6

LEMMA JudgeKept == IInv /\ JudgeInv /\ [Next]_vars => JudgeInv'
<1> SUFFICES ASSUME IInv, JudgeInv, [Next]_vars PROVE JudgeInv'
  OBVIOUS
<1>1. CASE Append1 \/ Restore \/ AnchorHead \/ Discard
  <2>1. phase' = "idle"
    BY <1>1 DEF Append1, Restore, AnchorHead, Discard, runVars
  <2> QED BY <2>1 DEF JudgeInv, Ended
<1>2. CASE Export
  <2>1. phase' = "transit"
    BY <1>2 DEF Export
  <2>2. PICK from, to, top \in DOMAIN log : \E anchors : bundle' = CutOf(from, to, top, anchors)
    <3>1. \E from, to, top \in DOMAIN log : \E anchors : bundle' = CutOf(from, to, top, anchors)
      BY <1>2, ExportIs, Zenon DEF IInv
    <3> QED BY <3>1, Zenon
  <2>3. bundle'.head = Coords(log[top]) /\ bundle'.producer = Owner
    BY <2>2 DEF CutOf
  <2>4. log[top].seq \in Nat
    BY DEF IInv, LogInv, Linked, IsClaims, IsClaim
  <2>5. HasHead(bundle')
    <3> DEFINE h == bundle'.head
    <3>1. h = Coords(h) /\ h.seq \in Nat
      BY <2>3, <2>4 DEF Coords
    <3>2. bundle'.producer \in Installs
      BY <2>3, OwnerAssumption
    <3> HIDE DEF h
    <3> QED BY <3>1, <3>2 DEF HasHead, h
  <2> QED BY <2>1, <2>5 DEF JudgeInv, Ended
<1>3. CASE Edit
  <2>1. phase = "transit" /\ phase' = "transit"
    BY <1>3, EditFrame
  <2>2. IsFile(bundle) /\ HasHead(bundle)
    BY <2>1 DEF IInv, BundleInv, JudgeInv
  <2> QED BY <1>3, <2>1, <2>2, HeadEdited DEF JudgeInv, Ended
<1>4. CASE Deliver
  <2>1. phase = "transit" /\ phase' = "coords" /\ bundle' = bundle
    BY <1>4 DEF Deliver, fileVars
  <2> QED BY <2>1, JudgeOn DEF JudgeInv
<1>5. CASE Run
  BY <1>5, JudgeRun
<1>6. CASE UNCHANGED vars
  <2>1. UNCHANGED <<bundle, phase, err, headMatched, mode>>
    BY <1>6 DEF vars
  <2> QED BY <2>1, JudgeFrame DEF JudgeInv, Ended
<1> QED BY <1>1, <1>2, <1>3, <1>4, <1>5, <1>6 DEF Next

LEMMA JudgeInvHolds == Spec => []JudgeInv
<1>1. Init => JudgeInv
  BY DEF Init, JudgeInv, Ended
<1> QED BY <1>1, JudgeKept, Invariance, PTL DEF Spec

-----------------------------------------------------------------------------
(* The verdict. *)

\* In a window an anchor is verified when it names a claim, and unmatched when it
\* names neither a claim nor the head.
LEMMA VerifiedIs ==
  ASSUME IsFile(bundle), HasHead(bundle), Judged!OneWindow(bundle),
         headMatched => HeadTied(bundle), HeadTied(bundle) => headMatched,
         NEW a \in bundle.anchors
  PROVE  /\ Verified(bundle, headMatched, a) <=> a \in Judged!ClaimCoords(bundle)
         /\ headMatched => bundle.head \in Judged!ClaimCoords(bundle)
<1> DEFINE s == bundle.claims
           N == Len(s)
           h == bundle.head
           C == Judged!ClaimCoords(bundle)
<1>1. /\ N \in DOMAIN s /\ Newest(bundle) = s[N]
      /\ \A i \in DOMAIN s : s[i].seq = s[N].seq => i = N
      /\ \A i, j \in DOMAIN s : s[i].seq = s[j].seq => i = j
  BY NewestIs
<1>2. h = Coords(h) /\ a = Coords(a)
  BY DEF HasHead, IsFile
<1>3. \A x : x \in C <=> \E i \in DOMAIN s : x = Coords(s[i])
  BY SameLinks DEF Judged!ClaimCoords
<1>4. \A i \in DOMAIN s : s[i].chained /\ i \in Nat
  BY FileIndexes DEF Judged!OneWindow
<1>5. headMatched => h.seq = s[N].seq /\ h.link = s[N].link
  BY <1>1 DEF HeadTied
<1>6. Verified(bundle, headMatched, a) <=>
        IF headMatched /\ a.seq = h.seq THEN a.link = h.link
        ELSE \E i \in DOMAIN s :
               /\ s[i].chained /\ Coords(s[i]) = a
               /\ \A j \in DOMAIN s : j > i /\ s[j].chained => s[j].seq # a.seq
  BY DEF Verified
<1> HIDE DEF s, N, h, C
<1>7. \A x, y : Coords(x) = Coords(y) <=> x.seq = y.seq /\ x.link = y.link
  BY DEF Coords
<1>8. \A i \in DOMAIN s : Coords(s[i]) = a <=> s[i].seq = a.seq /\ s[i].link = a.link
  BY <1>2, <1>7
<1>9. headMatched => h \in C
  <2>1. headMatched => Coords(h) = Coords(s[N])
    BY <1>5, <1>7
  <2> QED BY <1>1, <1>2, <1>3, <2>1
<1>10. CASE headMatched /\ a.seq = h.seq
  <2>1. a \in C => a.link = h.link
    BY <1>1, <1>3, <1>5, <1>8, <1>10
  <2>2. a.link = h.link => a \in C
    BY <1>1, <1>3, <1>5, <1>8, <1>10
  <2> QED BY <1>6, <1>9, <1>10, <2>1, <2>2 DEF C, h
<1>11. CASE ~(headMatched /\ a.seq = h.seq)
  <2>1. ASSUME NEW i \in DOMAIN s, Coords(s[i]) = a
        PROVE  \A j \in DOMAIN s : j > i /\ s[j].chained => s[j].seq # a.seq
    BY <1>1, <1>4, <1>8, <2>1
  <2>2. a \in C <=> \E i \in DOMAIN s :
               /\ s[i].chained /\ Coords(s[i]) = a
               /\ \A j \in DOMAIN s : j > i /\ s[j].chained => s[j].seq # a.seq
    BY <1>3, <1>4, <2>1
  <2> QED BY <1>6, <1>9, <1>11, <2>2 DEF C, h
<1> QED BY <1>10, <1>11

LEMMA UnmatchedIs ==
  ASSUME IsFile(bundle), HasHead(bundle), Judged!OneWindow(bundle),
         headMatched => HeadTied(bundle), HeadTied(bundle) => headMatched
  PROVE  /\ MatchedAnchors(bundle, headMatched) = bundle.anchors \intersect Judged!ClaimCoords(bundle)
         /\ UnmatchedAnchors(bundle, headMatched) = {} <=>
              bundle.anchors \subseteq Judged!ClaimCoords(bundle) \union {bundle.head}
<1> DEFINE A == bundle.anchors
           C == Judged!ClaimCoords(bundle)
           V(a) == Verified(bundle, headMatched, a)
<1>1. \A a \in A : V(a) <=> a \in C
  BY VerifiedIs
<1>2. A # {} /\ headMatched => bundle.head \in C
  BY VerifiedIs
<1>3. MatchedAnchors(bundle, headMatched) = {a \in A : V(a)}
  BY DEF MatchedAnchors
<1>4. DeclaredOnly(bundle, headMatched) = {a \in A : ~V(a) /\ ~headMatched /\ a = bundle.head}
  BY DEF DeclaredOnly
<1> HIDE DEF A, C, V
<1>5. MatchedAnchors(bundle, headMatched) = A \intersect C
  BY <1>1, <1>3
<1>6. UnmatchedAnchors(bundle, headMatched)
        = A \ ((A \intersect C) \union {a \in A : ~V(a) /\ ~headMatched /\ a = bundle.head})
  BY <1>4, <1>5 DEF UnmatchedAnchors, A
<1>7. UnmatchedAnchors(bundle, headMatched) = {} <=> A \subseteq C \union {bundle.head}
  BY <1>1, <1>2, <1>6
<1> QED BY <1>5, <1>7 DEF A, C

\* What CheckAnchors makes of the walk's end is the judgement of the file.
LEMMA VerdictIs ==
  ASSUME IInv, JudgeInv, Ended
  PROVE  LET ok == err = "" /\ UnmatchedAnchors(bundle, headMatched) = {}
         IN  Judged!Judgement(bundle) =
               [judged |-> TRUE, ok |-> ok, mode |-> mode,
                level |-> Level(ok, mode, MatchedAnchors(bundle, headMatched))]
<1> DEFINE ok == err = "" /\ UnmatchedAnchors(bundle, headMatched) = {}
           C == Judged!ClaimCoords(bundle)
           M == MatchedAnchors(bundle, headMatched)
           good == mode # "" /\ bundle.anchors \subseteq C \union {bundle.head}
           level == IF ~good THEN "not verified"
                    ELSE IF mode = ModeFull /\ bundle.anchors \intersect C # {}
                      THEN "signed, chained, anchored" ELSE "signed, chained"
<1>1. IsFile(bundle) /\ HasHead(bundle) /\ WalkInv
  BY DEF IInv, BundleInv, JudgeInv, Ended
<1>2. mode = Judged!SoundMode(bundle) /\ (mode = "" => err # "") /\ (mode # "" => err = "")
  BY DEF JudgeInv
<1>3. Judged!Judgement(bundle) = [judged |-> TRUE, ok |-> good, mode |-> mode, level |-> level]
  BY <1>2, SameLinks DEF Judged!Judgement
<1>4. CASE mode = ""
  <2>1. good = FALSE /\ ok = FALSE
    BY <1>2, <1>4
  <2>2. level = Level(ok, mode, M)
    BY <2>1 DEF Level
  <2>3. good = ok
    BY <2>1
  <2> HIDE DEF good, ok, level, M
  <2>4. level = Level(ok, mode, M)
    BY <2>2
  <2>5. Judged!Judgement(bundle) = [judged |-> TRUE, ok |-> ok, mode |-> mode, level |-> Level(ok, mode, M)]
    BY <1>3, <2>3, <2>4, Zenon
  <2> QED BY <2>5, Zenon DEF ok, M
<1>5. CASE mode # ""
  <2>1. Judged!OneWindow(bundle) /\ err = ""
    BY <1>1, <1>2, <1>5, SoundModeIs
  <2>2. (headMatched => HeadTied(bundle)) /\ (HeadTied(bundle) => headMatched)
    BY <1>1, <2>1 DEF WalkInv, JudgeInv, Ended
  <2>3. /\ M = bundle.anchors \intersect C
        /\ UnmatchedAnchors(bundle, headMatched) = {} <=> bundle.anchors \subseteq C \union {bundle.head}
    BY <1>1, <2>1, <2>2, UnmatchedIs
  <2>4. ok = good
    BY <1>5, <2>1, <2>3
  <2>5. level = Level(good, mode, M)
    BY <2>3 DEF Level
  <2> HIDE DEF good, ok, level, M
  <2>6. Judged!Judgement(bundle) = [judged |-> TRUE, ok |-> ok, mode |-> mode, level |-> Level(ok, mode, M)]
    BY <1>3, <2>4, <2>5, Zenon
  <2> QED BY <2>6, Zenon DEF ok, M
<1> QED BY <1>4, <1>5

\* One step of the log, the file or the verifier is one step of ChainJudge, or none.
LEMMA JudgeStep == IInv /\ JudgeInv /\ IInv' /\ [Next]_vars => [Judged!JNext]_(Judged!judgeVars)
<1> SUFFICES ASSUME IInv, JudgeInv, IInv', [Next]_vars PROVE [Judged!JNext]_(Judged!judgeVars)
  OBVIOUS
<1> DEFINE file == IF phase \in {"idle", "transit"} THEN NoBundle ELSE bundle
           verdict == [judged |-> phase = "done", ok |-> report.ok,
                       mode |-> IF phase = "done" THEN mode ELSE "",
                       level |-> IF phase = "done" THEN report.level ELSE ""]
<1>1. Judged!judgeVars = <<file, verdict>> /\ Judged!judgeVars' = <<file', verdict'>>
  BY DEF Judged!judgeVars
<1>2. phase \in Phases /\ phase' \in Phases
  BY DEF IInv, WalkInv
<1>3. (phase # "done" => report = NoReport) /\ (phase' # "done" => report' = NoReport)
  BY DEF IInv, ReportInv
<1>4. NoReport.ok = FALSE
  BY DEF NoReport
<1>5. Judged!Pending = [judged |-> FALSE, ok |-> FALSE, mode |-> "", level |-> ""]
  BY DEF Judged!Pending
<1>6. phase # "done" => verdict = Judged!Pending
  BY <1>3, <1>4, <1>5, Zenon
<1>7. phase' # "done" => verdict' = Judged!Pending
  BY <1>3, <1>4, <1>5, Zenon
<1>8. \A b : IsFile(b) => b # NoBundle
  BY DEF IsFile, NoBundle
<1>9. CASE Append1 \/ Restore \/ AnchorHead \/ Export \/ Edit
  <2>1. phase \in {"idle", "transit"} /\ phase' \in {"idle", "transit"}
    BY <1>9, EditFrame DEF Append1, Restore, AnchorHead, Export, runVars
  <2>2. file' = file
    BY <2>1
  <2>3. verdict' = verdict
    <3> HIDE DEF verdict
    <3> QED BY <1>6, <1>7, <2>1
  <2> HIDE DEF file, verdict
  <2> QED BY <1>1, <2>2, <2>3
<1>10. CASE Deliver
  <2>1. phase = "transit" /\ phase' = "coords" /\ bundle' = bundle
    BY <1>10 DEF Deliver, fileVars
  <2>2. IsFile(bundle)
    BY <2>1 DEF IInv, BundleInv
  <2>3. file = NoBundle /\ file' # NoBundle /\ verdict' = Judged!Pending
    <3> HIDE DEF verdict
    <3> QED BY <1>7, <1>8, <2>1, <2>2
  <2> QED BY <2>3, Zenon DEF Judged!JNext, Judged!Receive
<1>11. CASE Run /\ ~CheckAnchors
  <2>1. phase \in Walking /\ phase' \in Walking /\ bundle' = bundle
    BY <1>11 DEF Run, Verify, CheckCoordinates, CheckContinuity, CheckHead,
                 CheckProfile, CheckLinks, Goto, Fail, Walking
  <2>2. phase # "done" /\ phase' # "done" /\ file' = file
    BY <2>1 DEF Walking
  <2>3. verdict' = verdict
    <3> HIDE DEF verdict
    <3> QED BY <1>6, <1>7, <2>2
  <2> HIDE DEF file, verdict
  <2> QED BY <1>1, <2>2, <2>3
<1>12. CASE CheckAnchors
  <2>1. /\ phase = "anchors" /\ phase' = "done"
        /\ UNCHANGED <<bundle, err, headMatched, mode>>
    BY <1>12 DEF CheckAnchors
  <2> DEFINE ok == err = "" /\ UnmatchedAnchors(bundle, headMatched) = {}
             level == Level(ok, mode, MatchedAnchors(bundle, headMatched))
  <2>2. IsFile(bundle)
    BY <2>1 DEF IInv, BundleInv
  <2>3. file # NoBundle /\ file = bundle /\ file' = file /\ verdict = Judged!Pending
    <3> HIDE DEF verdict
    <3> QED BY <1>6, <1>8, <2>1, <2>2
  <2>4. report'.ok = ok /\ report'.level = level
    BY <1>12 DEF CheckAnchors
  <2>5. verdict' = [judged |-> phase' = "done", ok |-> report'.ok,
                    mode |-> IF phase' = "done" THEN mode' ELSE "",
                    level |-> IF phase' = "done" THEN report'.level ELSE ""]
    OBVIOUS
  <2> HIDE DEF file, verdict, ok, level
  <2>6. verdict' = [judged |-> TRUE, ok |-> ok, mode |-> mode, level |-> level]
    <3>1. mode' = mode
      BY <2>1
    <3> DEFINE done == phase' = "done"
    <3>2. done = TRUE
      BY <2>1
    <3>3. (IF done THEN mode' ELSE "") = mode /\ (IF done THEN report'.level ELSE "") = level
      BY <2>4, <3>1, <3>2
    <3> QED BY <2>4, <2>5, <3>2, <3>3, Zenon
  <2>7. Judged!Judgement(bundle) = [judged |-> TRUE, ok |-> ok, mode |-> mode, level |-> level]
    BY <2>1, VerdictIs, Zenon DEF Ended, ok, level
  <2>8. verdict' = Judged!Judgement(file)
    BY <2>3, <2>6, <2>7, Zenon
  <2> QED BY <2>3, <2>8, Zenon DEF Judged!JNext, Judged!Judge, file, verdict
<1>13. CASE Discard
  <2>1. phase = "done" /\ phase' = "idle"
    BY <1>13 DEF Discard
  <2>2. verdict.judged
    BY <2>1
  <2>3. file' = NoBundle /\ verdict' = Judged!Pending
    <3>1. file' = NoBundle
      BY <1>13, <2>1 DEF Discard
    <3> HIDE DEF verdict
    <3> QED BY <1>7, <2>1, <3>1
  <2> QED BY <2>2, <2>3, Zenon DEF Judged!JNext, Judged!PutAside
<1>14. CASE UNCHANGED vars
  <2>1. UNCHANGED <<bundle, phase, mode, report>>
    BY <1>14 DEF vars
  <2>2. file' = file /\ verdict' = verdict
    BY <2>1, Zenon
  <2> HIDE DEF file, verdict
  <2> QED BY <1>1, <2>2
<1> QED BY <1>9, <1>10, <1>11, <1>12, <1>13, <1>14 DEF Next, Run, Verify

\* The loops, early returns and order of tests of chain.Verify, checkAnchors and
\* level implement the one-step judgement of ChainJudge, for every log, ledger,
\* file and way of altering it.
THEOREM VerifierImplementsJudge == Spec => ImplementsJudge
<1>1. Init => Judged!JInit
  <2> SUFFICES ASSUME Init PROVE Judged!JInit
    OBVIOUS
  <2>1. phase = "idle" /\ report = NoReport /\ NoReport.ok = FALSE
    BY DEF Init, NoReport
  <2>2. phase # "done" /\ report.ok = FALSE
    BY <2>1
  <2> QED BY <2>1, <2>2, Zenon DEF Judged!JInit, Judged!Pending
<1> QED BY <1>1, JudgeStep, JudgeInvHolds, Invariance, PTL
        DEF Spec, ImplementsJudge, Judged!JudgeSpec

-----------------------------------------------------------------------------
(* A window of the log, packaged as it may be, is sound. *)

\* A step that leaves the log and the file alone leaves the cut alone.
LEMMA CutFrame ==
  ASSUME UNCHANGED <<log, style, bundle>>, NEW from, NEW top
  PROVE  IsCut(from, top)' <=> IsCut(from, top)
BY DEF IsCut

\* The log keeps chained entries.
LEMMA ChainedKept ==
  ASSUME LogInv, \A k \in DOMAIN log : log[k].chained = TRUE, [Next]_vars
  PROVE  \A k \in DOMAIN log' : log'[k].chained = TRUE
<1>0. IsClaims(log) /\ Len(log) \in Nat /\ DOMAIN log = 1 .. Len(log)
  BY SequenceShape DEF LogInv, Linked, IsClaims
<1>1. CASE Append1
  <2>1. PICK r \in Records :
          log' = Append(log, Entry(style, Len(log) + 1, PrevLink(log, Len(log) + 1), r))
    BY <1>1 DEF Append1
  <2> DEFINE e == Entry(style, Len(log) + 1, PrevLink(log, Len(log) + 1), r)
  <2>2. IsClaim(e)
    BY <1>0, EntryShape
  <2>3. e.chained = TRUE
    <3>1. \A c, v : c.chained = TRUE /\ IsClaim(c) => [c EXCEPT !.link = v].chained = TRUE
      BY DEF IsClaim, ClaimMembers
    <3> DEFINE yes == TRUE
               c == [chained |-> yes, seq |-> Len(log) + 1, prev |-> PrevLink(log, Len(log) + 1),
                     link |-> NoLink, core |-> r.core, beside |-> r.beside,
                     install |-> r.install, pack |-> r.pack]
    <3>2. e = [c EXCEPT !.link = ProducerLink(style, c)]
      BY DEF Entry
    <3>3. yes = TRUE
      OBVIOUS
    <3> HIDE DEF yes
    <3>4. IsClaim(c) /\ c.chained = yes
      BY <1>0 DEF IsClaim, ClaimMembers
    <3> HIDE DEF c, e
    <3> QED BY <3>1, <3>2, <3>3, <3>4
  <2> HIDE DEF e
  <2>4. IsClaims(log') /\ Len(log') = Len(log) + 1 /\ log'[Len(log) + 1] = e
        /\ \A i \in DOMAIN log : log'[i] = log[i]
    BY <1>0, <2>1, <2>2, AppendClaim DEF e
  <2>5. \A k \in DOMAIN log' : k = Len(log) + 1 \/ k \in DOMAIN log
    <3>1. DOMAIN log' = 1 .. Len(log')
      BY <2>4, SequenceShape DEF IsClaims
    <3> QED BY <1>0, <2>4, <3>1
  <2> QED BY <2>3, <2>4, <2>5
<1>2. CASE Restore
  <2>1. PICK n \in 0 .. Len(log) - 1 : log' = SubSeq(log, 1, n)
    BY <1>2 DEF Restore
  <2>2. n \in 0 .. Len(log)
    BY <1>0
  <2>3. \A i \in DOMAIN log' : i \in 1 .. n /\ log'[i] = log[i]
    BY <1>0, <2>1, <2>2, WindowOfClaims
  <2> QED BY <1>0, <2>2, <2>3
<1>3. CASE AnchorHead \/ Export \/ Deliver \/ Discard
  BY <1>3 DEF AnchorHead, Export, Deliver, Discard, producerVars
<1>4. CASE Edit
  BY <1>4, EditFrame
<1>5. CASE Run
  BY <1>5, RunFrame
<1>6. CASE UNCHANGED vars
  BY <1>6 DEF vars
<1> QED BY <1>1, <1>2, <1>3, <1>4, <1>5, <1>6 DEF Next

\* What Export calls genuine is a cut of the log.
LEMMA ExportCuts ==
  ASSUME LogInv, Export, genuine'
  PROVE  \E from, top \in DOMAIN log' : IsCut(from, top)'
<1>0. IsClaims(log) /\ Len(log) \in Nat /\ DOMAIN log = 1 .. Len(log)
  BY SequenceShape DEF LogInv, Linked, IsClaims
<1> DEFINE Says(from, to, top, anchors) ==
             \A a \in anchors : \E k \in (from .. to) \union {top} : a = Coords(log[k])
<1>a. \E from, to, top \in DOMAIN log : \E anchors :
        /\ from <= to /\ to <= top
        /\ bundle' = CutOf(from, to, top, anchors)
        /\ genuine' = Says(from, to, top, anchors)
  BY ExportIs, Zenon
<1> HIDE DEF Says
<1>1. PICK from, to, top \in DOMAIN log : \E anchors :
        /\ from <= to /\ to <= top
        /\ bundle' = CutOf(from, to, top, anchors)
        /\ genuine' = Says(from, to, top, anchors)
  BY <1>a, Zenon
<1>b. PICK anchors : /\ from <= to /\ to <= top
                     /\ bundle' = CutOf(from, to, top, anchors)
                     /\ genuine' = Says(from, to, top, anchors)
  BY <1>1, Zenon
<1>c. Says(from, to, top, anchors)
  BY <1>b, Zenon
<1>2. /\ from <= to /\ to <= top
      /\ bundle' = CutOf(from, to, top, anchors)
      /\ \A a \in anchors : \E k \in (from .. to) \union {top} : a = Coords(log[k])
  BY <1>b, <1>c DEF Says
<1>3. log' = log /\ style' = style
  BY DEF Export, producerVars
<1> DEFINE w == SubSeq(log, from, to)
<1>4. /\ bundle'.claims = w /\ bundle'.head = Coords(log[top]) /\ bundle'.anchors = anchors
      /\ bundle'.profile = style.profile /\ bundle'.keyed = style.keyed
      /\ bundle'.producer = Owner /\ bundle'.param = Owner
  BY <1>2 DEF CutOf
<1>5. from \in Nat \ {0} /\ to \in 0 .. Len(log) /\ to \in Nat
  BY <1>0
<1>6. /\ IsClaims(w) /\ Len(w) = to - from + 1
      /\ \A i \in DOMAIN w : i \in 1 .. to - from + 1 /\ w[i] = log[from + i - 1]
  BY <1>0, <1>2, <1>5, WindowOfClaims
<1>7. DOMAIN w = 1 .. to - from + 1
  BY <1>6, SequenceShape DEF IsClaims
<1> HIDE DEF w
<1>8. from + Len(w) - 1 <= top
  BY <1>0, <1>2, <1>5, <1>6
<1>9. ASSUME NEW a \in anchors
      PROVE  a = bundle'.head \/ \E i \in DOMAIN w : a = Coords(w[i])
  <2>1. PICK k \in (from .. to) \union {top} : a = Coords(log[k])
    BY <1>2
  <2>2. CASE k = top
    BY <1>4, <2>1, <2>2
  <2>3. CASE k \in from .. to
    <3> DEFINE i == k - from + 1
    <3>1. i \in 1 .. to - from + 1 /\ from + i - 1 = k
      BY <1>5, <2>3
    <3> HIDE DEF i
    <3>2. i \in DOMAIN w /\ w[i] = log[k]
      BY <1>6, <1>7, <3>1
    <3> QED BY <2>1, <3>2
  <2> QED BY <2>2, <2>3
<1>10. \A i \in DOMAIN w : w[i] = log[from + i - 1]
  BY <1>6
<1>11. IsCut(from, top)'
  BY <1>3, <1>4, <1>8, <1>9, <1>10 DEF IsCut
<1> QED BY <1>3, <1>11

\* Packaging is not part of the cut.
LEMMA RepackageCuts ==
  ASSUME IsFile(bundle), Repackage, NEW from, NEW top, IsCut(from, top)
  PROVE  IsCut(from, top)'
<1> DEFINE s == bundle.claims
<1>1. PICK i \in DOMAIN s, pack \in Pack : bundle' = [bundle EXCEPT !.claims[i].pack = pack]
  BY DEF Repackage
<1> DEFINE c == [s[i] EXCEPT !.pack = pack]
           v == [s EXCEPT ![i] = c]
<1>2. bundle' = [bundle EXCEPT !.claims = v]
  BY <1>1
<1>3. /\ bundle'.claims = v /\ bundle'.head = bundle.head /\ bundle'.producer = bundle.producer
      /\ bundle'.param = bundle.param /\ bundle'.profile = bundle.profile
      /\ bundle'.keyed = bundle.keyed /\ bundle'.anchors = bundle.anchors
  BY <1>2, ClaimsOnly
<1>4. IsClaims(s) /\ \A j \in DOMAIN s : IsClaim(s[j])
  BY DEF IsFile, IsClaims
<1>5. IsClaim(c)
  BY <1>4, ClaimChange
<1>6. Len(v) = Len(s) /\ DOMAIN v = DOMAIN s
  BY <1>4, <1>5, ReplaceClaim
<1>7. \A j \in DOMAIN s :
        /\ v[j].chained = s[j].chained /\ v[j].seq = s[j].seq /\ v[j].prev = s[j].prev
        /\ v[j].link = s[j].link /\ v[j].core = s[j].core /\ v[j].beside = s[j].beside
        /\ v[j].install = s[j].install
  <2>1. /\ c.chained = s[i].chained /\ c.seq = s[i].seq /\ c.prev = s[i].prev
        /\ c.link = s[i].link /\ c.core = s[i].core /\ c.beside = s[i].beside
        /\ c.install = s[i].install
    BY <1>4 DEF IsClaim, ClaimMembers
  <2>2. \A j \in DOMAIN s : v[j] = IF j = i THEN c ELSE s[j]
    OBVIOUS
  <2> HIDE DEF c, v
  <2> QED BY <2>1, <2>2
<1>8. \A j \in DOMAIN s : Coords(v[j]) = Coords(s[j])
  BY <1>7 DEF Coords
<1>9. log' = log /\ style' = style
  BY DEF Repackage, Edited, producerVars
<1> HIDE DEF v
<1> QED BY <1>3, <1>6, <1>7, <1>8, <1>9 DEF IsCut

LEMMA GenuineKept == IInv /\ GenuineInv /\ [Next]_vars => GenuineInv'
<1> SUFFICES ASSUME IInv, GenuineInv, [Next]_vars PROVE GenuineInv'
  OBVIOUS
<1>1. \A k \in DOMAIN log' : log'[k].chained = TRUE
  BY ChainedKept DEF IInv, GenuineInv
<1> SUFFICES ASSUME phase' # "idle", genuine'
             PROVE  \E from, top \in DOMAIN log' : IsCut(from, top)'
  BY <1>1 DEF GenuineInv
<1>2. CASE Append1 \/ Restore \/ AnchorHead \/ Discard
  BY <1>2 DEF Append1, Restore, AnchorHead, Discard, runVars
<1>3. CASE Export
  BY <1>3, ExportCuts DEF IInv
<1>4. ASSUME phase # "idle", genuine PROVE \E from, top \in DOMAIN log : IsCut(from, top)
  BY <1>4 DEF GenuineInv
<1>5. CASE Edit
  <2>1. phase = "transit" /\ log' = log /\ genuine
    <3>1. phase = "transit" /\ log' = log
      BY <1>5, EditFrame
    <3>2. genuine
      BY <1>5 DEF Edit, Repackage, AlterClaim, MoveClaim, SpliceClaim, DropClaim,
                  StripCoordinates, SetHead, Relabel, Edited
    <3> QED BY <3>1, <3>2
  <2>2. Repackage
    BY <1>5 DEF Edit, AlterClaim, MoveClaim, SpliceClaim, DropClaim, StripCoordinates,
                SetHead, Relabel, Edited
  <2>3. PICK from, top \in DOMAIN log : IsCut(from, top)
    BY <1>4, <2>1
  <2>4. IsFile(bundle)
    BY <2>1 DEF IInv, BundleInv
  <2>5. IsCut(from, top)'
    BY <2>2, <2>3, <2>4, RepackageCuts
  <2> QED BY <2>1, <2>5
<1>6. CASE Deliver \/ Run \/ UNCHANGED vars
  <2>1. UNCHANGED <<log, style, bundle, genuine>>
    BY <1>6, RunFrame DEF Deliver, producerVars, fileVars, vars
  <2>2. phase # "idle"
    <3>1. CASE Run
      BY <3>1 DEF Run, Verify, CheckCoordinates, CheckContinuity, CheckHead, CheckProfile,
                  CheckLinks, CheckAnchors
    <3>2. CASE Deliver \/ UNCHANGED vars
      BY <3>2 DEF Deliver, vars
    <3> QED BY <1>6, <3>1, <3>2
  <2>3. PICK from, top \in DOMAIN log : IsCut(from, top)
    BY <1>4, <2>1, <2>2
  <2>4. IsCut(from, top)'
    BY <2>1, <2>3, CutFrame
  <2> QED BY <2>1, <2>4
<1> QED BY <1>2, <1>3, <1>5, <1>6 DEF Next

LEMMA GenuineInvHolds == Spec => []GenuineInv
<1>1. Init => GenuineInv
  BY NoClaims DEF Init, GenuineInv
<1> QED BY <1>1, GenuineKept, Invariance, PTL DEF Spec

\* A cut of a linked log has every position, predecessor and link in place.
LEMMA CutIsSound ==
  ASSUME LogInv, IsFile(bundle), HasHead(bundle), \A k \in DOMAIN log : log[k].chained = TRUE,
         NEW from \in DOMAIN log, NEW top \in DOMAIN log, IsCut(from, top)
  PROVE  /\ Judged!SoundMode(bundle) = IF style.keyed THEN ModeStructural ELSE ModeFull
         /\ bundle.anchors \subseteq Judged!ClaimCoords(bundle) \union {bundle.head}
<1> DEFINE s == bundle.claims
           N == Len(s)
           at(i) == from + i - 1
<1>1. N \in Nat /\ DOMAIN s = 1 .. N /\ Len(log) \in Nat /\ DOMAIN log = 1 .. Len(log)
  BY FileIndexes, SequenceShape DEF LogInv, Linked, IsClaims
<1>2. from + N - 1 <= top /\ from \in Nat /\ top \in Nat /\ from >= 1 /\ top <= Len(log)
  BY <1>1 DEF IsCut
<1>3. \A i \in DOMAIN s : at(i) \in DOMAIN log /\ at(i) <= top /\ i \in Nat
  BY <1>1, <1>2
<1>4. \A i \in DOMAIN s :
        /\ s[i].chained = log[at(i)].chained /\ s[i].seq = log[at(i)].seq
        /\ s[i].prev = log[at(i)].prev /\ s[i].link = log[at(i)].link
        /\ s[i].core = log[at(i)].core /\ s[i].beside = log[at(i)].beside
        /\ s[i].install = log[at(i)].install
  BY DEF IsCut
<1>5. \A k \in DOMAIN log :
        /\ log[k].seq = k /\ log[k].prev = PrevLink(log, k)
        /\ log[k].link = ProducerLink(style, log[k]) /\ log[k].install \in {NoInstall, Owner}
        /\ log[k].chained
  BY DEF LogInv, Linked
<1>6. \A st, c : ProducerLink(st, c) # NoLink
  BY DEF ProducerLink, LinkV1, LinkSwitchTender, NoLink
<1>7. /\ bundle.head = Coords(log[top]) /\ bundle.producer = Owner /\ bundle.param = Owner
      /\ bundle.profile = style.profile /\ (bundle.keyed <=> style.keyed)
      /\ \A a \in bundle.anchors : a = bundle.head \/ \E i \in DOMAIN s : a = Coords(s[i])
  BY DEF IsCut
<1>8. Judged!OneWindow(bundle)
  <2>1. ASSUME NEW i \in DOMAIN s
        PROVE  /\ s[i].chained /\ s[i].seq = s[1].seq + i - 1
               /\ i = 1 => (s[i].prev = NoLink <=> s[i].seq = 1)
               /\ i > 1 => s[i].prev = s[i - 1].link
    <3> HIDE DEF s, N
    <3>1. s[i].chained /\ s[i].seq = at(i) /\ s[i].prev = PrevLink(log, at(i))
      BY <1>3, <1>4, <1>5
    <3>2. 1 \in DOMAIN s /\ s[1].seq = from
      <4>1. 1 \in DOMAIN s
        BY <1>1
      <4>2. at(1) = from
        BY <1>2
      <4> QED BY <1>3, <1>4, <1>5, <4>1, <4>2
    <3>3. s[i].seq = s[1].seq + i - 1
      BY <3>1, <3>2
    <3>4. ASSUME i = 1 PROVE s[i].prev = NoLink <=> s[i].seq = 1
      <4>1. at(i) = from /\ s[i].seq = from
        BY <1>2, <3>1, <3>4
      <4>2. from # 1 => from - 1 \in DOMAIN log
        BY <1>1, <1>2
      <4> QED BY <1>5, <1>6, <3>1, <4>1, <4>2 DEF PrevLink
    <3>5. ASSUME i > 1 PROVE s[i].prev = s[i - 1].link
      <4> DEFINE m == i - 1
      <4>1. i \in 1 .. N /\ N \in Nat
        BY <1>1
      <4>a. m \in 1 .. N /\ at(m) = at(i) - 1 /\ at(i) # 1
        BY <1>2, <3>5, <4>1
      <4>2. s[m].link = log[at(i) - 1].link
        BY <1>1, <1>4, <4>a
      <4> QED BY <3>1, <4>a, <4>2 DEF PrevLink
    <3> QED BY <3>1, <3>3, <3>4, <3>5
  <2> QED BY <2>1, SameLinks DEF Judged!OneWindow
<1>9. Judged!HeadAgrees(bundle)
  <2>1. ASSUME NEW i \in DOMAIN s, s[i].seq >= bundle.head.seq PROVE Coords(s[i]) = bundle.head
    <3>1. bundle.head.seq = top
      BY <1>5, <1>7 DEF Coords
    <3>2. s[i].seq = at(i)
      BY <1>3, <1>4, <1>5
    <3>3. at(i) = top
      BY <1>2, <1>3, <2>1, <3>1, <3>2
    <3>4. s[i].seq = log[top].seq /\ s[i].link = log[top].link
      BY <1>4, <3>3
    <3> QED BY <1>7, <3>4 DEF Coords
  <2> QED BY <2>1, SameLinks DEF Judged!HeadAgrees
<1>10. ASSUME ~style.keyed PROVE Judged!Rehashed(bundle)
  <2>1. ASSUME NEW i \in DOMAIN s
        PROVE  s[i].install \in {NoInstall, bundle.producer} /\ LinkRecomputes(bundle, i)
    <3>1. s[i].install \in {NoInstall, bundle.producer}
      BY <1>3, <1>4, <1>5, <1>7
    <3>2. s[i].link = ProducerLink(style, log[at(i)])
      BY <1>3, <1>4, <1>5
    <3>3. ProducerLink(style, log[at(i)]) = Recomputed(bundle, i)
      BY <1>4, <1>7, <1>10 DEF ProducerLink, Recomputed, LinkV1, LinkSwitchTender, ClaimContent
    <3> QED BY <3>1, <3>2, <3>3 DEF LinkRecomputes
  <2>2. bundle.param = bundle.producer
    BY <1>7
  <2> QED BY <2>1, <2>2, SameLinks DEF Judged!Rehashed
<1>11. style.keyed => bundle.profile = ProfileV1
  BY <1>7 DEF LogInv, Styles
<1>12. Judged!SoundMode(bundle) = IF style.keyed THEN ModeStructural ELSE ModeFull
  <2>1. CASE style.keyed
    BY <1>7, <1>8, <1>9, <1>11, <2>1, SoundModeIs
  <2>2. CASE ~style.keyed
    BY <1>7, <1>8, <1>9, <1>10, <2>2, SoundModeIs
  <2> QED BY <2>1, <2>2
<1>13. bundle.anchors \subseteq Judged!ClaimCoords(bundle) \union {bundle.head}
  BY <1>7, SameLinks DEF Judged!ClaimCoords
<1> QED BY <1>12, <1>13

\* What a cut of the log is reported to be.
LEMMA CutPasses ==
  ASSUME IInv, JudgeInv, GenuineInv
  PROVE  HonestWindowVerifies
<1> SUFFICES ASSUME phase = "done", genuine
             PROVE  /\ report.ok
                    /\ mode = IF style.keyed THEN ModeStructural ELSE ModeFull
                    /\ report.level = "signed, chained, anchored" <=>
                         ~style.keyed /\ \E i \in DOMAIN bundle.claims :
                                            Coords(bundle.claims[i]) \in bundle.anchors
  BY DEF HonestWindowVerifies
<1> DEFINE C == Judged!ClaimCoords(bundle)
           M == MatchedAnchors(bundle, headMatched)
<1>1. IsFile(bundle) /\ HasHead(bundle) /\ LogInv /\ WalkInv
  BY DEF IInv, BundleInv, JudgeInv
<1>2. PICK from, top \in DOMAIN log : IsCut(from, top)
  BY DEF GenuineInv
<1>3. /\ Judged!SoundMode(bundle) = IF style.keyed THEN ModeStructural ELSE ModeFull
      /\ bundle.anchors \subseteq C \union {bundle.head}
  BY <1>1, <1>2, CutIsSound DEF GenuineInv
<1>4. mode = Judged!SoundMode(bundle) /\ (mode # "" => err = "")
  BY DEF JudgeInv, Ended
<1>5. mode # "" /\ err = "" /\ (mode = ModeFull <=> ~style.keyed)
  BY <1>3, <1>4, ModesDiffer
<1>6. (headMatched => HeadTied(bundle)) /\ (HeadTied(bundle) => headMatched)
  BY <1>1, <1>5 DEF WalkInv, JudgeInv, Ended
<1>7. Judged!OneWindow(bundle)
  BY <1>1, <1>4, <1>5, SoundModeIs
<1>8. M = bundle.anchors \intersect C /\ UnmatchedAnchors(bundle, headMatched) = {}
  BY <1>1, <1>3, <1>6, <1>7, UnmatchedIs
<1>9. report.ok = (err = "" /\ UnmatchedAnchors(bundle, headMatched) = {})
      /\ report.level = Level(report.ok, mode, M)
  BY DEF IInv, ReportInv
<1>10. report.ok
  BY <1>5, <1>8, <1>9
<1>11. report.level = "signed, chained, anchored" <=> mode = ModeFull /\ M # {}
  BY <1>9, <1>10 DEF Level
<1>12. M # {} <=> \E i \in DOMAIN bundle.claims : Coords(bundle.claims[i]) \in bundle.anchors
  BY <1>8, SameLinks DEF Judged!ClaimCoords
<1> QED BY <1>3, <1>4, <1>5, <1>10, <1>11, <1>12

\* Whatever the log recorded, and wherever it was restored, a window cut from it
\* and repackaged verifies in the mode its keying allows, and earns the anchored
\* word exactly when its links recompute and an anchor names one of its claims.
THEOREM HonestWindowsPass == Spec => []HonestWindowVerifies
BY Invariance, JudgeInvHolds, GenuineInvHolds, CutPasses, PTL
-----------------------------------------------------------------------------
(* Two windows. *)

\* What holds of 0 and goes from each number to the next holds of all.
LEMMA FromZero ==
  ASSUME NEW S, 0 \in S, \A n \in Nat : n \in S => n + 1 \in S
  PROVE  Nat \subseteq S
<1>1. ASSUME NEW T \in SUBSET Nat, NEW n \in T PROVE \E m \in T : \A y \in T : m <= y
  <2>1. IsWellFoundedOn(OpToRel(<, Nat), Nat)
    BY NatLessThanWellFounded
  <2>2. PICK m \in T : \A y \in T : ~(<<y, m>> \in OpToRel(<, Nat))
    BY <1>1, <2>1, WFMin, Zenon
  <2>3. \A y \in T : ~(y < m)
    BY <2>2 DEF OpToRel
  <2> QED BY <2>3
<1> SUFFICES ASSUME NEW n \in Nat, n \notin S PROVE FALSE
  OBVIOUS
<1>2. PICK m \in Nat \ S : \A y \in Nat \ S : m <= y
  <2>1. n \in Nat \ S /\ Nat \ S \in SUBSET Nat
    OBVIOUS
  <2> QED BY <1>1, <2>1
<1>3. m # 0 /\ m - 1 \in Nat /\ m - 1 \in S
  BY <1>2
<1> QED BY <1>2, <1>3

\* Links recomputed from two files are equal only over the same profile, install,
\* position, predecessor and content.
LEMMA LinksBind ==
  ASSUME NEW a, NEW b, a.profile \in Profiles, b.profile \in Profiles,
         NEW i, NEW j, Recomputed(a, i) = Recomputed(b, j)
  PROVE  /\ a.profile = b.profile
         /\ a.profile = ProfileV1 => a.param = b.param
         /\ a.claims[i].seq = b.claims[j].seq
         /\ a.claims[i].prev = b.claims[j].prev
         /\ Committed(a.profile, a.claims[i]) = Committed(a.profile, b.claims[j])
<1> USE DEF Recomputed, Committed, Profiles, ProfileV1, ProfileSwitchTender
<1>1. CASE a.profile = ProfileV1 /\ b.profile = ProfileV1
  BY <1>1 DEF LinkV1
<1>2. CASE a.profile = ProfileSwitchTender /\ b.profile = ProfileSwitchTender
  BY <1>2 DEF LinkSwitchTender
<1>3. CASE a.profile = ProfileV1 /\ b.profile = ProfileSwitchTender
  BY <1>3 DEF LinkV1, LinkSwitchTender
<1>4. CASE a.profile = ProfileSwitchTender /\ b.profile = ProfileV1
  BY <1>4 DEF LinkV1, LinkSwitchTender
<1> QED BY <1>1, <1>2, <1>3, <1>4

\* The claims of a and b, back from i and from j for as long as both go, say the same.
SameBack(a, i, b, j) ==
  \A d \in Nat : d < i /\ d < j =>
    LET c == a.claims[i - d]
        e == b.claims[j - d]
    IN  /\ c.seq = e.seq /\ c.prev = e.prev /\ c.link = e.link
        /\ Committed(a.profile, c) = Committed(a.profile, e)

\* Two files that pass with every link recomputed, whoever sealed them and however
\* they came about, say the same of every position they share up to a link they
\* share: a log shown differently to two verifiers has no link in common after the
\* place where it differs, so none that both could have found anchored
\* (internal/chain/chain.go checkContinuity, checkLinks, LinkV1, checkSwitchTender).
THEOREM OneLinkOneHistory ==
  ASSUME NEW a, NEW b, IsFile(a), IsFile(b),
         Judged!SoundMode(a) = ModeFull, Judged!SoundMode(b) = ModeFull,
         NEW i \in DOMAIN a.claims, NEW j \in DOMAIN b.claims,
         a.claims[i].link = b.claims[j].link
  PROVE  /\ a.profile = b.profile
         /\ a.profile = ProfileV1 => a.producer = b.producer
         /\ SameBack(a, i, b, j)
<1> DEFINE Fine(f) == /\ f.profile \in Profiles /\ Len(f.claims) \in Nat
                      /\ DOMAIN f.claims = 1 .. Len(f.claims)
                      /\ f.profile = ProfileV1 => f.param = f.producer
                      /\ \A k \in DOMAIN f.claims : f.claims[k].link = Recomputed(f, k)
                      /\ \A k \in DOMAIN f.claims : k > 1 => f.claims[k].prev = f.claims[k - 1].link
<1>1. ASSUME NEW f, IsFile(f), Judged!SoundMode(f) = ModeFull PROVE Fine(f)
  <2>1. f.profile \in Profiles /\ Len(f.claims) \in Nat /\ DOMAIN f.claims = 1 .. Len(f.claims)
    BY <1>1, SequenceShape DEF IsFile, IsClaims
  <2>2. Judged!OneWindow(f) /\ Judged!Rehashed(f)
    BY <1>1, ModesDiffer, SameLinks DEF Judged!SoundMode
  <2>3. \A k \in DOMAIN f.claims : f.claims[k].link = Recomputed(f, k)
    BY <2>2, SameLinks DEF Judged!Rehashed, LinkRecomputes
  <2>4. f.profile = ProfileV1 => f.param = f.producer
    BY <2>2, SameLinks DEF Judged!Rehashed
  <2>5. \A k \in DOMAIN f.claims : k > 1 => f.claims[k].prev = f.claims[k - 1].link
    BY <2>2 DEF Judged!OneWindow
  <2> QED BY <2>1, <2>3, <2>4, <2>5
<1>2. Fine(a) /\ Fine(b)
  BY <1>1
<1>3. /\ i \in Nat /\ j \in Nat /\ i - 0 = i /\ j - 0 = j
      /\ \A d \in Nat : d < i => i - d \in DOMAIN a.claims
      /\ \A d \in Nat : d < j => j - d \in DOMAIN b.claims
  BY <1>2
<1> DEFINE Same(d) == LET c == a.claims[i - d]
                          e == b.claims[j - d]
                      IN  /\ c.seq = e.seq /\ c.prev = e.prev /\ c.link = e.link
                          /\ Committed(a.profile, c) = Committed(a.profile, e)
           S == {d \in Nat : d < i /\ d < j => Same(d)}
<1>4. ASSUME NEW k \in DOMAIN a.claims, NEW m \in DOMAIN b.claims, a.claims[k].link = b.claims[m].link
      PROVE  /\ a.profile = b.profile
             /\ a.profile = ProfileV1 => a.param = b.param
             /\ a.claims[k].seq = b.claims[m].seq
             /\ a.claims[k].prev = b.claims[m].prev
             /\ Committed(a.profile, a.claims[k]) = Committed(a.profile, b.claims[m])
  <2>1. Recomputed(a, k) = Recomputed(b, m)
    BY <1>2, <1>4
  <2>2. a.profile \in Profiles /\ b.profile \in Profiles
    BY <1>2
  <2> HIDE DEF Fine
  <2> QED BY <2>1, <2>2, LinksBind
<1>5. 0 \in S
  BY <1>3, <1>4
<1>6. ASSUME NEW d \in Nat, d \in S PROVE d + 1 \in S
  <2> SUFFICES ASSUME d + 1 < i, d + 1 < j PROVE Same(d + 1)
    OBVIOUS
  <2> DEFINE k == i - d
             m == j - d
  <2>1. /\ k \in DOMAIN a.claims /\ m \in DOMAIN b.claims /\ k > 1 /\ m > 1
        /\ k - 1 = i - (d + 1) /\ m - 1 = j - (d + 1)
        /\ k - 1 \in DOMAIN a.claims /\ m - 1 \in DOMAIN b.claims
    BY <1>2, <1>3
  <2>2. a.claims[k].prev = b.claims[m].prev
    BY <1>3, <1>6
  <2> HIDE DEF k, m
  <2>3. a.claims[k - 1].link = b.claims[m - 1].link
    BY <1>2, <2>1, <2>2
  <2>4. /\ a.claims[k - 1].seq = b.claims[m - 1].seq
        /\ a.claims[k - 1].prev = b.claims[m - 1].prev
        /\ Committed(a.profile, a.claims[k - 1]) = Committed(a.profile, b.claims[m - 1])
    BY <1>4, <2>1, <2>3
  <2> QED BY <2>1, <2>3, <2>4
<1>7. Nat \subseteq S
  <2> HIDE DEF S
  <2> QED BY <1>5, <1>6, FromZero
<1>8. SameBack(a, i, b, j)
  BY <1>7 DEF SameBack
<1> QED BY <1>2, <1>4, <1>8
-----------------------------------------------------------------------------
(* The walk ends. *)

\* Steps a file still takes at most: each loop once over the claims, and the tests
\* between them.
StepsLeft ==
  LET n == Len(bundle.claims) IN
  IF phase = "coords" THEN 2 * n + 6
  ELSE IF phase = "continuity" THEN 2 * n + 6 - pos
  ELSE IF phase = "head" THEN n + 4
  ELSE IF phase = "profile" THEN n + 3
  ELSE IF phase = "links" THEN n + 3 - pos
  ELSE IF phase = "anchors" THEN 1
  ELSE 0

\* In the walk, a step leaves fewer of them, and ends nowhere but at a verdict.
Nearer ==
  phase \in Walking => /\ phase' \in Walking \union {"done"}
                       /\ StepsLeft' \in Nat /\ StepsLeft' < StepsLeft

\* No loop is past the end of the claims by more than the step that leaves it.
PlaceInv == phase \in {"continuity", "links"} => pos <= Len(bundle.claims) + 1

\* Files come in and go out outside the walk, and nothing else moves in it.
LEMMA WalkAlone ==
  ASSUME [Next]_vars, phase \in Walking
  PROVE  Verify \/ UNCHANGED vars
BY DEF Next, Run, Append1, Restore, AnchorHead, Export, Edit, Repackage, AlterClaim, MoveClaim,
       SpliceClaim, DropClaim, StripCoordinates, SetHead, Relabel, Edited, Deliver, Discard, Walking

\* A step of the walk takes one off what is left.
LEMMA WalkCounts ==
  ASSUME IInv, PlaceInv, Verify
  PROVE  /\ PlaceInv'
         /\ StepsLeft \in Nat /\ StepsLeft' \in Nat /\ StepsLeft' < StepsLeft
         /\ phase \in Walking /\ phase' \in Walking \union {"done"}
<1> DEFINE n == Len(bundle.claims)
           w == {"coords", "continuity", "head", "profile", "links", "anchors"}
<1>1. phase \in w => bundle' = bundle /\ n \in Nat /\ n # 0 /\ DOMAIN bundle.claims = 1 .. n
  <2> HAVE phase \in w
  <2>1. IsFile(bundle)
    BY DEF IInv, BundleInv
  <2>2. bundle' = bundle
    BY DEF Verify, CheckCoordinates, CheckContinuity, CheckHead, CheckProfile, CheckLinks, CheckAnchors,
           Goto, Fail
  <2> QED BY <2>1, <2>2, FileIndexes
<1>2. pos \in Nat /\ (phase \in {"continuity", "links"} => pos # 0)
  BY DEF IInv, WalkInv
<1>3. CASE CheckCoordinates
  <2>1. phase = "coords" /\ (phase' = "anchors" \/ (phase' = "continuity" /\ pos' = 1))
    BY <1>3 DEF CheckCoordinates, Fail, Goto
  <2> HIDE DEF n
  <2> QED BY <1>1, <2>1 DEF StepsLeft, PlaceInv, Walking, n
<1>4. CASE CheckContinuity
  <2>1. /\ phase = "continuity"
        /\ \/ phase' = "anchors"
           \/ phase' = "continuity" /\ pos \in DOMAIN bundle.claims /\ pos' = pos + 1
           \/ phase' = "head"
    BY <1>4 DEF CheckContinuity, Fail, Goto
  <2>2. pos <= n + 1
    BY <2>1 DEF PlaceInv
  <2> QED BY <1>1, <1>2, <2>1, <2>2 DEF StepsLeft, PlaceInv, Walking
<1>5. CASE CheckHead
  <2>1. phase = "head" /\ (phase' = "anchors" \/ phase' = "profile")
    BY <1>5 DEF CheckHead, Fail, Goto
  <2> QED BY <1>1, <2>1 DEF StepsLeft, PlaceInv, Walking
<1>6. CASE CheckProfile
  <2>1. phase = "profile" /\ (phase' = "anchors" \/ (phase' = "links" /\ pos' = 1))
    BY <1>6 DEF CheckProfile, Fail, Goto
  <2> QED BY <1>1, <2>1 DEF StepsLeft, PlaceInv, Walking
<1>7. CASE CheckLinks
  <2>1. /\ phase = "links"
        /\ \/ phase' = "anchors"
           \/ phase' = "links" /\ pos \in DOMAIN bundle.claims /\ pos' = pos + 1
    BY <1>7 DEF CheckLinks, Fail, Goto
  <2>2. pos <= n + 1
    BY <2>1 DEF PlaceInv
  <2> QED BY <1>1, <1>2, <2>1, <2>2 DEF StepsLeft, PlaceInv, Walking
<1>8. CASE CheckAnchors
  <2>1. phase = "anchors" /\ phase' = "done"
    BY <1>8 DEF CheckAnchors
  <2> QED BY <1>1, <2>1 DEF StepsLeft, PlaceInv, Walking
<1> QED BY <1>3, <1>4, <1>5, <1>6, <1>7, <1>8 DEF Verify

\* And outside of it there is none.
LEMMA PlaceKept == IInv /\ PlaceInv /\ [Next]_vars => PlaceInv'
<1> SUFFICES ASSUME IInv, PlaceInv, [Next]_vars PROVE PlaceInv'
  OBVIOUS
<1>1. CASE Verify
  BY <1>1, WalkCounts
<1>2. CASE UNCHANGED vars
  BY <1>2 DEF vars, PlaceInv
<1>3. CASE phase \notin Walking /\ ~Verify
  <2>1. phase' \notin {"continuity", "links"} \/ phase' = phase
    BY <1>3 DEF Next, Run, Append1, Restore, AnchorHead, Export, Edit, Repackage, AlterClaim, MoveClaim,
       SpliceClaim, DropClaim, StripCoordinates, SetHead, Relabel, Edited, Deliver, Discard,
       runVars, vars
  <2> QED BY <1>3, <2>1 DEF PlaceInv, Walking
<1> QED BY <1>1, <1>2, <1>3, WalkAlone

\* So it holds throughout.
LEMMA PlaceHolds == Spec => []PlaceInv
<1>1. Init => PlaceInv
  BY DEF Init, PlaceInv
<1> QED BY <1>1, Invariance, PlaceKept, PTL DEF Spec

\* While a file is walked every step of the system is one of the walk, and takes
\* it nearer its verdict: a file of n claims has it within 2n + 6 steps, whatever
\* the claims, the head and the anchors (chain.Verify, verify.Run; no early return
\* leads back into a loop).
THEOREM WalkEnds ==
  Spec => /\ [](phase \in Walking => StepsLeft \in 1 .. 2 * Len(bundle.claims) + 6)
          /\ [][Nearer]_vars
<1>1. IInv /\ PlaceInv /\ [Next]_vars =>
        [Nearer]_vars
  BY WalkAlone, WalkCounts DEF Nearer
<1>2. IInv /\ PlaceInv => (phase \in Walking => StepsLeft \in 1 .. 2 * Len(bundle.claims) + 6)
  <2> SUFFICES ASSUME IInv, PlaceInv, phase \in Walking
               PROVE  StepsLeft \in 1 .. 2 * Len(bundle.claims) + 6
    OBVIOUS
  <2>1. IsFile(bundle)
    BY DEF IInv, BundleInv, Walking
  <2>2. Len(bundle.claims) \in Nat \ {0}
    BY <2>1, FileIndexes
  <2>3. pos \in Nat
    BY DEF IInv, WalkInv
  <2> QED BY <2>2, <2>3 DEF StepsLeft, PlaceInv, Walking
<1> QED BY <1>1, <1>2, Invariance, PlaceHolds, PTL DEF Spec
=============================================================================
