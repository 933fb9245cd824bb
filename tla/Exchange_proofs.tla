--------------------------- MODULE Exchange_proofs ---------------------------
(***************************************************************************)
(* What a passing run says, for every number of producers, holders,        *)
(* verifiers and challenges, and however long the exchange goes on.        *)
(*                                                                         *)
(* The invariants follow what no rearrangement reaches.  EInv: a signature *)
(* in the mail is one a holder made, a counter-signature one an attestor   *)
(* made.  BorneInv: an entry that verifies for a producer is one that      *)
(* producer made.  HonestInv: while nobody has edited, all that circulates *)
(* is as producers, attestors and holders left it.  What was signed        *)
(* determines the rest of an accepted document.                            *)
(***************************************************************************)
EXTENDS Exchange, FiniteSetTheorems, NaturalsInduction, TLAPS

\* The members of a presentation and of a bundle.
PMembers == {"version", "audience", "nonce", "at", "key", "keyId", "alg", "fault", "bundle", "sig"}
BMembers == {"version", "fault", "content", "sigs", "shown", "claimAtts", "headAtts"}

\* A bundle with all its members, an installation's id, and no counter-signature
\* but those in m.
Sound(b, m) ==
  /\ BMembers \subseteq DOMAIN b
  /\ "install" \in DOMAIN b.content /\ b.content.install \in Installs
  /\ \A a \in b.claimAtts \union b.headAtts : "sig" \in DOMAIN a /\ a.sig \in m

\* It has a presentation's members and no others.
Form(p) == p = [f \in PMembers |-> p[f]]

\* The members a holder's signature covers and those its program fixes.
Genuine(p) ==
  /\ Form(p) /\ p.sig = Signed(p.key, PresentationInput(p))
  /\ p.version = Version /\ p.fault = "none" /\ p.alg = "ed25519" /\ p.keyId = KeyID(p.key)

\* An answer is its holder's, to a challenge it had heard.
Answered(a) ==
  /\ Genuine(a.p) /\ a.known \subseteq issued
  /\ a.p.nonce = Empty \/ \E c \in a.known : c[2] = a.p.nonce

\* What is under way bears the signature of some answer.
Carried(p) == Form(p) /\ Sound(p.bundle, made) /\ \E a \in answers : p.sig = a.p.sig

\* A run judges what is in circulation, for a nonce its verifier issued.
Expected ==
  last # Idle =>
    /\ last.code = RunVerify(last.file, last.opts) /\ last.file \in Files
    /\ last.opts.nonce \in {None, Empty} \/ <<last.verifier, last.opts.nonce>> \in issued
    /\ last.opts.audience \in {None, Empty, last.verifier}

\* The invariant: besides, a nonce is issued once, by one verifier.
EInv ==
  /\ Sound(held, made)
  /\ \A c \in issued : c = <<c[1], c[2]>>
  /\ \A c, d \in issued : c[2] = d[2] => c = d
  /\ \A a \in answers : Answered(a)
  /\ \A p \in mail : Carried(p)
  /\ Expected

\* Signatures made later take nothing away.
LEMMA SoundMore ==
  ASSUME NEW b, NEW m, NEW n, Sound(b, m), m \subseteq n
  PROVE  Sound(b, n)
BY DEF Sound

\* Members other than these change nothing of it.
LEMMA SoundBeside ==
  ASSUME NEW b, NEW m, Sound(b, m), NEW v
  PROVE  /\ Sound([b EXCEPT !.sigs = v], m)
         /\ Sound([b EXCEPT !.shown = v], m)
         /\ Sound([b EXCEPT !.version = v], m)
         /\ Sound([b EXCEPT !.fault = v], m)
BY DEF Sound, BMembers

\* Neither does withholding disclosed fields.
LEMMA SoundReduced ==
  ASSUME NEW b, NEW m, Sound(b, m), NEW keep
  PROVE  Sound(ReduceDisclosures(b, keep), m)
BY SoundBeside DEF ReduceDisclosures

\* Nor another installation's id, profile, link or key in the content.
LEMMA SoundContent ==
  ASSUME NEW b, NEW m, Sound(b, m), NEW v
  PROVE  /\ v \in Installs => Sound([b EXCEPT !.content.install = v], m)
         /\ Sound([b EXCEPT !.content.profile = v], m)
         /\ Sound([b EXCEPT !.content.link = v], m)
         /\ Sound([b EXCEPT !.content.keyId = v], m)
         /\ Sound([b EXCEPT !.content = [@ EXCEPT !.key = v, !.keyId = KeyID(v)]], m)
BY DEF Sound, BMembers

\* A counter-signature that is varied or moved keeps its signature.
LEMMA SoundMoved ==
  ASSUME NEW b, NEW m, Sound(b, m), NEW a \in b.claimAtts \union b.headAtts, NEW x \in Moved(b, a)
  PROVE  Sound(x, m)
<1>1. ASSUME NEW v \in Varied(a) PROVE "sig" \in DOMAIN v /\ v.sig \in m
  BY <1>1 DEF Varied, Sound
<1>2. ASSUME NEW v \in Varied(a)
      PROVE  Sound([b EXCEPT !.claimAtts = (@ \ {a}) \union {v}, !.headAtts = @ \ {a}], m)
  BY <1>1 DEF Sound, BMembers
<1>3. ASSUME NEW v \in Varied(a)
      PROVE  Sound([b EXCEPT !.headAtts = (@ \ {a}) \union {v}, !.claimAtts = @ \ {a}], m)
  BY <1>1 DEF Sound, BMembers
<1> QED BY <1>2, <1>3 DEF Moved

\* So no rearrangement brings in a counter-signature nobody made.
LEMMA SoundRearranged ==
  ASSUME NEW b, NEW m, Sound(b, m), NEW x \in Rearranged(b)
  PROVE  Sound(x, m)
<1> DEFINE Inserted == {[b EXCEPT !.sigs = InsertAt(@, i, e)] :
                        i \in 1 .. Len(b.sigs) + 1, e \in ForeignEntries(b)}
           Shown == {[b EXCEPT !.shown = Append(@, d)] :
                       d \in {[name |-> "f1", value |-> "other"]}
                               \union {b.shown[i] : i \in DOMAIN b.shown}}
           Versions == {[b EXCEPT !.version = v] : v \in {"0.2", None}}
           Faults == {[b EXCEPT !.fault = f] : f \in {"number", "member", "producer", "claim"}}
           Others == {[b EXCEPT !.content.install = i] : i \in Installs}
           Profiles == {[b EXCEPT !.content.profile = p] :
                          p \in {"v1", "switchtender", "none", "unknown"}}
           Linked == {[b EXCEPT !.content.link = "l2"],
                      [b EXCEPT !.content.keyId = KeyID(Stranger)]}
           Unsigned == {[b EXCEPT !.sigs = << >>]}
           Countersigned == UNION {Moved(b, a) : a \in b.claimAtts \union b.headAtts}
<1>1. CASE x \in Inserted
  <2>1. PICK i \in 1 .. Len(b.sigs) + 1, e \in ForeignEntries(b) :
          x = [b EXCEPT !.sigs = InsertAt(@, i, e)]
    BY <1>1
  <2>2. Sound([b EXCEPT !.sigs = InsertAt(@, i, e)], m)
    BY SoundBeside
  <2> QED BY <2>1, <2>2, Zenon
<1>2. CASE x \in Shown
  <2>1. PICK d : x = [b EXCEPT !.shown = Append(@, d)]
    BY <1>2, Zenon
  <2>2. Sound([b EXCEPT !.shown = Append(@, d)], m)
    BY SoundBeside
  <2> QED BY <2>1, <2>2, Zenon
<1>3. CASE x \in Versions
  <2>1. PICK v : x = [b EXCEPT !.version = v]
    BY <1>3, Zenon
  <2>2. Sound([b EXCEPT !.version = v], m)
    BY SoundBeside
  <2> QED BY <2>1, <2>2, Zenon
<1>4. CASE x \in Faults
  <2>1. PICK f : x = [b EXCEPT !.fault = f]
    BY <1>4, Zenon
  <2>2. Sound([b EXCEPT !.fault = f], m)
    BY SoundBeside
  <2> QED BY <2>1, <2>2, Zenon
<1>5. CASE x \in Others
  <2>1. PICK i \in Installs : x = [b EXCEPT !.content.install = i]
    BY <1>5, Zenon
  <2>2. Sound([b EXCEPT !.content.install = i], m)
    BY SoundContent
  <2> QED BY <2>1, <2>2, Zenon
<1>6. CASE x \in Profiles
  <2>1. PICK p : x = [b EXCEPT !.content.profile = p]
    BY <1>6, Zenon
  <2>2. Sound([b EXCEPT !.content.profile = p], m)
    BY SoundContent
  <2> QED BY <2>1, <2>2, Zenon
<1>7. CASE x \in Linked
  <2>1. /\ Sound([b EXCEPT !.content.link = "l2"], m)
        /\ Sound([b EXCEPT !.content.keyId = KeyID(Stranger)], m)
    BY SoundContent
  <2> QED BY <1>7, <2>1, Zenon
<1>8. CASE x \in Unsigned
  <2>1. Sound([b EXCEPT !.sigs = << >>], m)
    BY SoundBeside
  <2> QED BY <1>8, <2>1, Zenon
<1>9. CASE x \in Countersigned
  BY <1>9, SoundMoved
<1>10. Rearranged(b) = Inserted \union Unsigned \union Countersigned \union Shown \union Others
                         \union Profiles \union Linked \union Versions \union Faults
  BY DEF Rearranged
<1> HIDE DEF Inserted, Unsigned, Countersigned, Shown, Others, Profiles, Linked, Versions, Faults
<1> QED BY <1>1, <1>2, <1>3, <1>4, <1>5, <1>6, <1>7, <1>8, <1>9, <1>10

\* A presentation on its way keeps its signature, and its bundle or another that
\* was in circulation.
Kept(p, x) ==
  /\ Form(x) /\ x.sig = p.sig
  /\ x.bundle \in {p.bundle, held, ReduceDisclosures(p.bundle, {})}

\* A redirected presentation keeps the holder's signature.
LEMMA RedirectedForm ==
  ASSUME NEW p, Form(p), NEW q \in Redirected(p)
  PROVE  Kept(p, q)
<1>1. ASSUME NEW v
      PROVE  /\ Kept(p, [p EXCEPT !.audience = v]) /\ Kept(p, [p EXCEPT !.nonce = v])
             /\ Kept(p, [p EXCEPT !.at = v]) /\ Kept(p, [p EXCEPT !.version = v])
             /\ Kept(p, [p EXCEPT !.alg = v]) /\ Kept(p, [p EXCEPT !.fault = v])
  BY DEF Kept, Form, PMembers
<1>2. ASSUME NEW h, NEW k PROVE Kept(p, Renamed(p, h, k))
  BY DEF Kept, Renamed, Form, PMembers
<1>3. ASSUME NEW b \in {held, ReduceDisclosures(p.bundle, {})}
      PROVE  Kept(p, [p EXCEPT !.bundle = b])
  BY DEF Kept, Form, PMembers
<1> DEFINE Audiences == {[p EXCEPT !.audience = v] : v \in Verifiers}
           Challenges == {[p EXCEPT !.nonce = c[2]] : c \in issued}
           Keys == {Renamed(p, h, KeyID(g)) : h, g \in Holders}
           Bundles == {[p EXCEPT !.bundle = b] : b \in {held} \union {ReduceDisclosures(p.bundle, {})}}
           Times == {[p EXCEPT !.at = a] : a \in {"earlier", None}}
           Versions == {[p EXCEPT !.version = v] : v \in {"0.2", None}}
           Torn == {[p EXCEPT !.alg = "other"], [p EXCEPT !.fault = "member"]}
<1>4. ASSUME NEW x \in Audiences PROVE Kept(p, x)
  BY <1>1, Zenon
<1>5. ASSUME NEW x \in Challenges PROVE Kept(p, x)
  BY <1>1, Zenon
<1>6. ASSUME NEW x \in Keys PROVE Kept(p, x)
  <2>1. PICK h \in Holders, g \in Holders : x = Renamed(p, h, KeyID(g))
    BY <1>6
  <2>2. Kept(p, Renamed(p, h, KeyID(g)))
    BY <1>2
  <2> QED BY <2>1, <2>2
<1>7. ASSUME NEW x \in Bundles PROVE Kept(p, x)
  BY <1>3, Zenon
<1>8. ASSUME NEW x \in Times PROVE Kept(p, x)
  BY <1>1, Zenon
<1>9. ASSUME NEW x \in Versions PROVE Kept(p, x)
  BY <1>1, Zenon
<1>10. ASSUME NEW x \in Torn PROVE Kept(p, x)
  BY <1>1, Zenon
<1>11. Redirected(p) = Audiences \union Challenges \union Keys \union Bundles \union Times
                         \union Versions \union Torn
  BY DEF Redirected
<1>12. q \in Audiences \union Challenges \union Keys \union Bundles \union Times \union Versions \union Torn
  BY <1>11
<1> HIDE DEF Audiences, Challenges, Keys, Bundles, Times, Versions, Torn
<1> QED BY <1>4, <1>5, <1>6, <1>7, <1>8, <1>9, <1>10, <1>12

\* What a holder makes.
LEMMA PresentMakes ==
  ASSUME NEW b, NEW h, NEW v, NEW n
  PROVE  LET p == Present(b, h, v, n, "now")
         IN  /\ Genuine(p) /\ p.bundle = b /\ p.nonce = n
<1> DEFINE r == [version |-> Version, audience |-> v, nonce |-> n, at |-> "now",
                 key |-> h, keyId |-> KeyID(h), alg |-> "ed25519", fault |-> "none",
                 bundle |-> b, sig |-> None]
           i == [tag |-> "presentation/1", audience |-> v, nonce |-> n, at |-> "now", bundle |-> b]
           p == Present(b, h, v, n, "now")
<1>1. PresentationInput(r) = i
  BY DEF PresentationInput
<1>2. p = [r EXCEPT !.sig = Signed(h, i)]
  BY <1>1 DEF Present
<1>3. /\ p.version = Version /\ p.audience = v /\ p.nonce = n /\ p.at = "now" /\ p.key = h
      /\ p.keyId = KeyID(h) /\ p.alg = "ed25519" /\ p.fault = "none" /\ p.bundle = b
      /\ p.sig = Signed(h, i)
  <2> HIDE DEF i, p
  <2> QED BY <1>2
<1>4. PresentationInput(p) = i
  BY <1>3 DEF PresentationInput
<1>5. Form(p)
  BY <1>2 DEF Form, PMembers
<1> QED BY <1>3, <1>4, <1>5 DEF Genuine

\* A bundle just sealed, and no challenge, answer or run.
LEMMA EInit == Init => EInv
<1> SUFFICES ASSUME Init PROVE EInv
  OBVIOUS
<1>1. PICK s \in Starts : held = Sealed(s)
  BY DEF Init
<1>2. Sound(held, made)
  BY <1>1, StartsAssumption DEF Sealed, Sound, BMembers
<1> QED BY <1>2 DEF Init, EInv, Expected

\* What others did before stays as it was.
LEMMA CarriedOn ==
  ASSUME NEW p, Carried(p), made \subseteq made', answers \subseteq answers'
  PROVE  Carried(p)'
BY SoundMore DEF Carried

\* And an answer stays an answer while more challenges are issued.
LEMMA AnsweredOn ==
  ASSUME NEW a, Answered(a), issued \subseteq issued'
  PROVE  Answered(a)'
BY DEF Answered

\* While no run is in progress there is nothing to expect of one.
LEMMA NothingExpected ==
  ASSUME Open
  PROVE  Expected'
BY DEF Open, Expected

\* Sealing again signs the same records.
LEMMA ResealStep ==
  ASSUME EInv, NEW k, Reseal(k)
  PROVE  EInv'
<1> DEFINE content == [held.content EXCEPT !.key = k, !.keyId = KeyID(k)]
           b == [held EXCEPT !.content = content]
<1>1. Sound(b, made)
  BY SoundContent DEF EInv
<1>2. Sound(held', made)
  BY <1>1, SoundBeside DEF Reseal, SignBundle
<1>3. made \subseteq made' /\ UNCHANGED <<issued, answers, mail>> /\ Open
  BY DEF Reseal, Acts
<1>4. Sound(held', made')
  BY <1>2, <1>3, SoundMore
<1> QED BY <1>3, <1>4, CarriedOn, AnsweredOn, NothingExpected DEF EInv

\* An attestor's signature is made as it is put on.
LEMMA CounterSignStep ==
  ASSUME EInv, NEW k, NEW head, NEW role, NEW at, CounterSign(k, head, role, at)
  PROVE  EInv'
<1> DEFINE a == [key |-> k, keyId |-> KeyID(k), role |-> role, at |-> at, sig |-> None]
           input == IF head THEN HeadInput(held, a) ELSE ClaimInput(held, a)
           done == [a EXCEPT !.sig = Signed(k, input)]
<1>1. /\ held' = IF head THEN [held EXCEPT !.headAtts = @ \union {done}]
                 ELSE [held EXCEPT !.claimAtts = @ \union {done}]
      /\ made' = made \union {done.sig}
      /\ UNCHANGED <<issued, answers, mail>> /\ Open
  BY DEF CounterSign, Acts
<1>2. "sig" \in DOMAIN done
  OBVIOUS
<1> HIDE DEF done
<1>3. Sound(held, made')
  BY <1>1, SoundMore DEF EInv
<1>4. Sound([held EXCEPT !.headAtts = @ \union {done}], made')
  BY <1>1, <1>2, <1>3 DEF Sound, BMembers
<1>5. Sound([held EXCEPT !.claimAtts = @ \union {done}], made')
  BY <1>1, <1>2, <1>3 DEF Sound, BMembers
<1>6. Sound(held', made')
  BY <1>1, <1>4, <1>5, Zenon
<1>7. made \subseteq made'
  BY <1>1
<1> QED BY <1>1, <1>6, <1>7, CarriedOn, AnsweredOn, NothingExpected DEF EInv

\* A nonce issued is one nobody issued before.
LEMMA ChallengeStep ==
  ASSUME EInv, NEW v, NEW n, Challenge(v, n)
  PROVE  EInv'
<1>1. /\ issued' = issued \union {<<v, n>>} /\ \A c \in issued : c[2] # n
      /\ UNCHANGED <<held, made, answers, mail>> /\ Open
  BY DEF Challenge
<1>2. /\ \A c \in issued' : c = <<c[1], c[2]>>
      /\ \A c, d \in issued' : c[2] = d[2] => c = d
  BY <1>1 DEF EInv
<1>3. Sound(held', made')
  BY <1>1 DEF EInv
<1>4. issued \subseteq issued' /\ made \subseteq made' /\ answers \subseteq answers'
  BY <1>1
<1> QED BY <1>1, <1>2, <1>3, <1>4, CarriedOn, AnsweredOn, NothingExpected DEF EInv

\* A holder answers what it has heard.
LEMMA AnswerStep ==
  ASSUME EInv, NEW h, NEW v, NEW n, NEW keep, Answer(h, v, n, keep)
  PROVE  EInv'
<1>1. PICK p : p = Present(ReduceDisclosures(held, keep), h, v, n, "now")
  OBVIOUS
<1>2. PICK a : a = [p |-> p, known |-> issued]
  OBVIOUS
<1>3. /\ n \in {Empty} \union {c[2] : c \in issued}
      /\ answers' = answers \union {a} /\ mail' = mail \union {p} /\ made' = made \union {p.sig}
      /\ UNCHANGED <<held, issued>> /\ Open
  BY <1>1, <1>2 DEF Answer, Acts
<1>4. Genuine(p) /\ p.bundle = ReduceDisclosures(held, keep) /\ p.nonce = n
  BY <1>1, PresentMakes
<1>5. made \subseteq made' /\ answers \subseteq answers' /\ issued \subseteq issued'
  BY <1>3
<1>6. Sound(held', made')
  BY <1>3, <1>5, SoundMore DEF EInv
<1>7. Sound(p.bundle, made')
  BY <1>3, <1>4, <1>6, SoundReduced
<1>8. Answered(a)'
  <2>1. a.p = p /\ a.known = issued
    BY <1>2
  <2>2. n = Empty \/ \E c \in issued : c[2] = n
    BY <1>3
  <2> QED BY <1>3, <1>4, <2>1, <2>2 DEF Answered
<1>9. Carried(p)'
  <2>1. a \in answers' /\ p.sig = a.p.sig
    BY <1>2, <1>3
  <2>2. Form(p)
    BY <1>4 DEF Genuine
  <2> QED BY <1>7, <2>1, <2>2 DEF Carried
<1>10. \A x \in answers' : Answered(x)'
  BY <1>3, <1>5, <1>8, AnsweredOn DEF EInv
<1>11. \A q \in mail' : Carried(q)'
  BY <1>3, <1>5, <1>9, CarriedOn DEF EInv
<1>12. /\ \A c \in issued' : c = <<c[1], c[2]>>
       /\ \A c, d \in issued' : c[2] = d[2] => c = d
  BY <1>3 DEF EInv
<1> QED BY <1>3, <1>6, <1>10, <1>11, <1>12, NothingExpected DEF EInv

\* A third party changes the bundle and signs nothing.
LEMMA RearrangeStep ==
  ASSUME EInv, Rearrange
  PROVE  EInv'
<1>1. held' \in Rearranged(held) /\ UNCHANGED <<made, issued, answers, mail>> /\ Open
  BY DEF Rearrange, Acts
<1>2. Sound(held', made')
  BY <1>1, SoundRearranged DEF EInv
<1>3. made \subseteq made' /\ answers \subseteq answers' /\ issued \subseteq issued'
  BY <1>1
<1> QED BY <1>1, <1>2, <1>3, CarriedOn, AnsweredOn, NothingExpected DEF EInv

\* A third party sends a changed presentation beside the original.
LEMMA RedirectStep ==
  ASSUME EInv, NEW p \in mail, Redirect(p)
  PROVE  EInv'
<1>1. PICK q \in Redirected(p) : mail' = mail \union {q}
  BY DEF Redirect
<1>2. UNCHANGED <<held, made, issued, answers>> /\ Open
  BY DEF Redirect, Acts
<1>3. Form(p) /\ Sound(p.bundle, made) /\ Sound(held, made) /\ \E a \in answers : p.sig = a.p.sig
  BY DEF EInv, Carried
<1>4. Form(q) /\ q.sig = p.sig /\ q.bundle \in {p.bundle, held, ReduceDisclosures(p.bundle, {})}
  BY <1>3, RedirectedForm DEF Kept
<1>5. Sound(q.bundle, made)
  BY <1>3, <1>4, SoundReduced
<1>6. Carried(q)
  BY <1>3, <1>4, <1>5 DEF Carried
<1>7. made \subseteq made' /\ answers \subseteq answers' /\ issued \subseteq issued'
  BY <1>2
<1>8. \A r \in mail' : Carried(r)'
  BY <1>1, <1>6, <1>7, CarriedOn DEF EInv
<1> QED BY <1>2, <1>7, <1>8, AnsweredOn, NothingExpected DEF EInv

\* A run starts from what is in circulation.
LEMMA VerifyStep ==
  ASSUME EInv, NEW v, NEW f \in Files, NEW o \in Options, Verify(v, f, o)
  PROVE  EInv'
<1>1. PICK n \in IF o.nonce # "own" THEN {o.nonce} ELSE {c[2] : c \in {c \in issued : c[1] = v}} :
        last' = [code |-> RunVerify(f, [o EXCEPT !.audience = IF @ = "own" THEN v ELSE @, !.nonce = n]),
                 verifier |-> v, file |-> f,
                 opts |-> [o EXCEPT !.audience = IF @ = "own" THEN v ELSE @, !.nonce = n]]
  BY DEF Verify
<1>2. PICK opts : opts = [o EXCEPT !.audience = IF @ = "own" THEN v ELSE @, !.nonce = n]
  OBVIOUS
<1>3. UNCHANGED <<held, made, issued, answers, mail>>
  BY DEF Verify
<1>4. last' = [code |-> RunVerify(f, opts), verifier |-> v, file |-> f, opts |-> opts]
  BY <1>1, <1>2
<1>5. last'.code = RunVerify(f, opts) /\ last'.file = f /\ last'.opts = opts /\ last'.verifier = v
  BY <1>4
<1>6. opts.nonce = n
  BY <1>2, OptionsAssumption
<1>7. opts.nonce \in {None, Empty} \/ <<v, opts.nonce>> \in issued
  <2>1. CASE o.nonce # "own"
    BY <1>1, <1>6, <2>1, OptionsAssumption
  <2>2. CASE o.nonce = "own"
    <3>1. PICK c \in issued : c[1] = v /\ c[2] = n
      BY <1>1, <2>2
    <3>2. c = <<v, n>>
      BY <3>1 DEF EInv
    <3> QED BY <1>6, <3>1, <3>2
  <2> QED BY <2>1, <2>2
<1>8. Files' = Files
  BY <1>3 DEF Files
<1>81. opts.audience \in {None, Empty, v}
  <2>1. opts.audience = IF o.audience = "own" THEN v ELSE o.audience
    BY <1>2, OptionsAssumption
  <2> QED BY <2>1, OptionsAssumption
<1>9. Expected'
  BY <1>3, <1>5, <1>7, <1>8, <1>81 DEF Expected
<1>10. made \subseteq made' /\ answers \subseteq answers' /\ issued \subseteq issued'
  BY <1>3
<1> QED BY <1>3, <1>9, <1>10, CarriedOn, AnsweredOn DEF EInv

\* Every step keeps the invariant.
LEMMA ENext == EInv /\ [Next]_vars => EInv'
<1> SUFFICES ASSUME EInv, [Next]_vars PROVE EInv'
  OBVIOUS
<1>1. CASE \E k \in Producers : Reseal(k)
  BY <1>1, ResealStep
<1>2. CASE \E k \in Attestors, head \in BOOLEAN, at \in {"t1", None} : CounterSign(k, head, "approver", at)
  BY <1>2, CounterSignStep
<1>3. CASE \E v \in Verifiers, n \in Nonces : Challenge(v, n)
  BY <1>3, ChallengeStep
<1>4. CASE \E h \in Holders, v \in Verifiers, n \in Nonces \union {Empty},
             keep \in {{"f1"}, {"f1", "f2"}} : Answer(h, v, n, keep)
  BY <1>4, AnswerStep
<1>5. CASE Rearrange
  BY <1>5, RearrangeStep
<1>6. CASE \E p \in mail : Redirect(p)
  BY <1>6, RedirectStep
<1>7. CASE \E v \in Verifiers, f \in Files, o \in Options : Verify(v, f, o)
  BY <1>7, VerifyStep
<1>8. CASE Return \/ UNCHANGED vars
  <2>1. UNCHANGED <<held, made, issued, answers, mail>> /\ (last' = last \/ last' = Idle)
    BY <1>8 DEF Return, vars
  <2>2. made \subseteq made' /\ answers \subseteq answers' /\ issued \subseteq issued'
    BY <2>1
  <2>3. Expected'
    BY <2>1 DEF EInv, Expected, Files
  <2> QED BY <2>1, <2>2, <2>3, CarriedOn, AnsweredOn DEF EInv
<1> QED BY <1>1, <1>2, <1>3, <1>4, <1>5, <1>6, <1>7, <1>8 DEF Next

-----------------------------------------------------------------------------
\* What exit code 0 says of a run.
LEMMA PassedMeans ==
  ASSUME NEW f \in Files, NEW o, RunVerify(f, o) = 0
  PROVE  /\ Usage(o)
         /\ f.kind = "presentation" => /\ ReadPresentation(f.doc) = "read" /\ HolderSigned(f.doc)
                                       /\ ExpectationsHold(f.doc, o) /\ Holds(f.doc.bundle, o)
         /\ f.kind # "presentation" => Holds(f.doc, o)
<1>1. Usage(o)
  BY DEF RunVerify
<1>2. CASE LooksLikePresentation(f)
  <2>1. RunPresentation(f.doc, o).ok
    BY <1>1, <1>2 DEF RunVerify, Code
  <2>2. f.kind = "presentation"
    BY <1>2 DEF LooksLikePresentation
  <2>3. /\ ReadPresentation(f.doc) = "read" /\ HolderSigned(f.doc)
        /\ ExpectationsHold(f.doc, o) /\ Holds(f.doc.bundle, o)
    BY <2>1, Zenon DEF RunPresentation, Run
  <2> QED BY <1>1, <2>2, <2>3
<1>3. CASE ~LooksLikePresentation(f)
  <2>1. f.kind = "bundle" /\ Code(Run(f.doc, o)) = 0
    BY <1>1, <1>3 DEF RunVerify
  <2>2. Run(f.doc, o).ok
    BY <2>1 DEF Code
  <2>3. Holds(f.doc, o)
    BY <2>2, Zenon DEF Run
  <2> QED BY <1>1, <2>1, <2>3
<1> QED BY <1>2, <1>3

\* The bundle judged is one in circulation.
LEMMA JudgedSound ==
  ASSUME EInv, last # Idle
  PROVE  Sound(Judged, made)
<1>1. last.file \in Files
  BY DEF EInv, Expected
<1>2. CASE last.file.kind = "presentation"
  BY <1>1, <1>2 DEF Files, EInv, Carried, Judged, Presented
<1>3. CASE last.file.kind # "presentation"
  BY <1>1, <1>3 DEF Files, EInv, Judged, Presented
<1> QED BY <1>2, <1>3

\* And where the run passed, Run found nothing against it.
LEMMA JudgedHolds ==
  ASSUME EInv, Passed
  PROVE  Usage(last.opts) /\ Holds(Judged, last.opts)
<1>1. last.file \in Files /\ RunVerify(last.file, last.opts) = 0
  BY DEF EInv, Expected, Passed
<1> QED BY <1>1, PassedMeans DEF Judged, Presented, Passed

\* A signature tells who made it, and over what.
LEMMA OneSigner ==
  ASSUME NEW k, NEW m, NEW j, NEW n, Signed(k, m) = Signed(j, n)
  PROVE  k = j /\ m = n
<1>1. /\ Signed(k, m).by = k /\ Signed(k, m).over = m
      /\ Signed(j, n).by = j /\ Signed(j, n).over = n
  BY DEF Signed
<1> QED BY <1>1

\* A presentation that a holder's signature covers is the one the holder made.
LEMMA SignedIsMade ==
  ASSUME NEW p, NEW q, Form(p), Genuine(q), p.sig = q.sig,
         ReadPresentation(p) = "read", HolderSigned(p)
  PROVE  p = q
<1>1. p.version = Version /\ p.fault = "none"
  BY DEF ReadPresentation
<1>2. p.alg = "ed25519" /\ p.keyId = KeyID(p.key) /\ p.sig = Signed(p.key, PresentationInput(p))
  BY DEF HolderSigned, Verifies
<1>3. /\ q.version = Version /\ q.fault = "none" /\ q.alg = "ed25519" /\ q.keyId = KeyID(q.key)
      /\ q.sig = Signed(q.key, PresentationInput(q))
  BY DEF Genuine
<1>4. p.key = q.key /\ PresentationInput(p) = PresentationInput(q)
  <2>1. Signed(p.key, PresentationInput(p)) = Signed(q.key, PresentationInput(q))
    BY <1>2, <1>3, Zenon
  <2>2. \A k, m, j, n : Signed(k, m) = Signed(j, n) => k = j /\ m = n
    BY OneSigner
  <2> QED BY <2>1, <2>2
<1>5. p.audience = q.audience /\ p.nonce = q.nonce /\ p.at = q.at /\ p.bundle = q.bundle
  BY <1>4 DEF PresentationInput
<1>6. \A f \in PMembers : p[f] = q[f]
  BY <1>1, <1>2, <1>3, <1>4, <1>5 DEF PMembers
<1> QED BY <1>6 DEF Form, Genuine

\* The invariant implies each property.
LEMMA AnswersOK == EInv => AnswersTheChallenge
<1> SUFFICES ASSUME EInv, Passed, Presented, last.opts.audience # None, last.opts.nonce # None
             PROVE  \E a \in answers :
                      /\ a.p = last.file.doc
                      /\ a.p.audience = last.verifier /\ a.p.nonce = last.opts.nonce
                      /\ <<last.verifier, last.opts.nonce>> \in a.known
  BY DEF AnswersTheChallenge
<1> DEFINE p == last.file.doc
           n == last.opts.nonce
<1>1. last.file \in Files /\ RunVerify(last.file, last.opts) = 0 /\ last.file.kind = "presentation"
  BY DEF EInv, Expected, Passed, Presented
<1>2. /\ Usage(last.opts) /\ ReadPresentation(p) = "read" /\ HolderSigned(p)
      /\ ExpectationsHold(p, last.opts)
  BY <1>1, PassedMeans
<1>3. p \in mail
  BY <1>1 DEF Files
<1>4. PICK a \in answers : p.sig = a.p.sig
  BY <1>3 DEF EInv, Carried
<1>5. a.p = p
  BY <1>2, <1>3, <1>4, SignedIsMade DEF EInv, Carried, Answered
<1>6. p.nonce = n /\ n # Empty
  BY <1>2 DEF ExpectationsHold, Usage
<1>7. <<last.verifier, n>> \in issued
  BY <1>6 DEF EInv, Expected, Passed
<1>8. PICK c \in a.known : c[2] = n
  BY <1>5, <1>6 DEF EInv, Answered
<1>9. c \in issued /\ <<last.verifier, n>>[2] = n
  BY <1>8 DEF EInv, Answered
<1>10. c = <<last.verifier, n>>
  <2>1. \A d, e \in issued : d[2] = e[2] => d = e
    BY DEF EInv
  <2> QED BY <1>7, <1>8, <1>9, <2>1, Zenon
<1>11. p.audience = last.verifier
  <2>1. p.audience = last.opts.audience /\ last.opts.audience # Empty
    BY <1>2 DEF ExpectationsHold, Usage
  <2>2. last.opts.audience \in {None, Empty, last.verifier}
    BY DEF EInv, Expected, Passed
  <2> QED BY <2>1, <2>2
<1> QED BY <1>5, <1>6, <1>8, <1>10, <1>11

LEMMA HistoryOK == EInv => HistoryStaysHome
<1> SUFFICES ASSUME EInv, Passed, Informed(last.opts), Judged.content.profile = "switchtender",
                    MintedFrom[Judged.content.install] # None
             PROVE  Judged.content.key \in Rightful[Judged.content.install]
  BY DEF HistoryStaysHome
<1> DEFINE b == Judged
           o == last.opts
<1>1. InstallHolds(b, o) /\ SignatureOK(b)
  BY JudgedHolds DEF Holds
<1>2. b.content.install \in Installs
  BY JudgedSound DEF Sound, Passed
<1>3. CASE Minted(b)
  BY <1>2, <1>3, RightfulAssumption DEF Minted
<1>4. CASE Accepted(b, o)
  <2>1. o.accept = b.content.install /\ o.pin = KeyID(b.content.key)
    BY <1>4 DEF Accepted, PinMatches
  <2>2. o.accept # None
    BY <1>2, <2>1, InstallsAssumption
  <2>3. PICK k \in Rightful[o.accept] : o.pin = KeyID(k)
    BY <2>2 DEF Informed
  <2>4. k = b.content.key
    BY <2>1, <2>3 DEF KeyID
  <2> QED BY <2>1, <2>3, <2>4
<1> QED BY <1>1, <1>3, <1>4 DEF InstallHolds

LEMMA AttestedOK == EInv => AttestedWasSaid
<1> SUFFICES ASSUME EInv, Passed, last.opts.attestors # {} PROVE AttestedWasSaid
  BY DEF AttestedWasSaid
<1> DEFINE b == Judged
           o == last.opts
           said(a, tag) == \E m \in made :
             /\ KeyID(m.by) \in o.attestors /\ a.key = m.by /\ m.over.tag = tag
             /\ m.over.link = b.content.link /\ m.over.role = a.role /\ m.over.at = a.at
<1>1. AttestationsHold(b, o)
  BY JudgedHolds DEF Holds
<1>2. \A a \in b.claimAtts \union b.headAtts : a.sig \in made
  BY JudgedSound DEF Sound, Passed
<1>3. ASSUME NEW a \in b.claimAtts PROVE said(a, "attestation/1")
  <2>1. a.keyId = KeyID(a.key) /\ a.sig = Signed(a.key, ClaimInput(b, a)) /\ a.keyId \in o.attestors
    BY <1>1 DEF AttestationsHold, CounterSigns, Verifies
  <2> QED BY <1>2, <2>1 DEF Signed, ClaimInput
<1>4. ASSUME NEW a \in b.headAtts PROVE said(a, "head-attestation/1")
  <2>1. a.keyId = KeyID(a.key) /\ a.sig = Signed(a.key, HeadInput(b, a)) /\ a.keyId \in o.attestors
    BY <1>1 DEF AttestationsHold, CounterSigns, Verifies
  <2> QED BY <1>2, <2>1 DEF Signed, HeadInput
<1> QED BY <1>3, <1>4 DEF AttestedWasSaid

\* A presentation accepted for a challenge was made by its holder for it and for
\* that verifier: no answer that is older, redirected or altered passes.
THEOREM AnswersAreFresh == Spec => []AnswersTheChallenge
BY EInit, ENext, AnswersOK, PTL DEF Spec

\* No bundle passes under an installation id its key did not come to speak for.
THEOREM HistoryIsHome == Spec => []HistoryStaysHome
BY EInit, ENext, HistoryOK, PTL DEF Spec

\* With the attestors named, what a passing bundle says they signed, they signed.
THEOREM AttestedIsSaid == Spec => []AttestedWasSaid
BY EInit, ENext, AttestedOK, PTL DEF Spec

-----------------------------------------------------------------------------
(***************************************************************************)
(* Who signed a bundle.                                                    *)
(***************************************************************************)
CMembers == {"key", "keyId", "install", "profile", "link", "fields"}

\* An entry a reader of this version weighs bears a signature that was made, or
\* no producer's.
Weighed(e, m) == e.alg = "ed25519" => e.sig \in m \/ e.sig.by \in {Stranger, None}

\* A bundle with all its members, from a producer, with such entries only.
Borne(b, m) ==
  /\ BMembers \subseteq DOMAIN b /\ CMembers \subseteq DOMAIN b.content
  /\ b.content.key \in Producers
  /\ b.sigs \in Seq(ToSet(b.sigs)) /\ \A e \in ToSet(b.sigs) : Weighed(e, m)

BorneInv == Borne(held, made) /\ \A p \in mail : Borne(p.bundle, made)

\* A sequence is one of its own elements.
LEMMA OwnElems ==
  ASSUME NEW T, NEW s \in Seq(T)
  PROVE  s \in Seq(ToSet(s)) /\ ToSet(s) \subseteq T
BY DEF ToSet

\* Signatures made later take nothing away, and these members change nothing.
LEMMA BorneMore ==
  ASSUME NEW b, NEW m, NEW n, Borne(b, m), m \subseteq n
  PROVE  Borne(b, n)
BY DEF Borne, Weighed

LEMMA BorneBeside ==
  ASSUME NEW b, NEW m, Borne(b, m), NEW v
  PROVE  /\ Borne([b EXCEPT !.shown = v], m)
         /\ Borne([b EXCEPT !.version = v], m)
         /\ Borne([b EXCEPT !.fault = v], m)
         /\ Borne([b EXCEPT !.claimAtts = v], m)
         /\ Borne([b EXCEPT !.headAtts = v], m)
BY DEF Borne, BMembers

LEMMA BorneContent ==
  ASSUME NEW b, NEW m, Borne(b, m), NEW v
  PROVE  /\ Borne([b EXCEPT !.content.install = v], m)
         /\ Borne([b EXCEPT !.content.profile = v], m)
         /\ Borne([b EXCEPT !.content.link = v], m)
         /\ Borne([b EXCEPT !.content.keyId = v], m)
BY DEF Borne, BMembers, CMembers

LEMMA BorneMoved ==
  ASSUME NEW b, NEW m, Borne(b, m), NEW a, NEW x \in Moved(b, a)
  PROVE  Borne(x, m)
<1>1. ASSUME NEW v \in Varied(a)
      PROVE  /\ Borne([b EXCEPT !.claimAtts = (@ \ {a}) \union {v}, !.headAtts = @ \ {a}], m)
             /\ Borne([b EXCEPT !.headAtts = (@ \ {a}) \union {v}, !.claimAtts = @ \ {a}], m)
  BY DEF Borne, BMembers
<1> QED BY <1>1 DEF Moved

\* An entry is signed by whoever it names, over the content.
LEMMA EntryIs ==
  ASSUME NEW k, NEW c
  PROVE  /\ Entry(k, c).alg = "ed25519" /\ Entry(k, c).keyId = KeyID(k)
         /\ Entry(k, c).sig = Signed(k, [tag |-> "bundle", content |-> c])
         /\ Entry(k, c).sig.by = k
BY DEF Entry, Signed

\* No entry a third party can add bears a producer's signature and this algorithm.
LEMMA ForeignWeighed ==
  ASSUME NEW b, NEW m, NEW e \in ForeignEntries(b)
  PROVE  Weighed(e, m)
<1>1. Weighed(Entry(Stranger, b.content), m)
  BY EntryIs DEF Weighed
<1>2. Weighed([Entry(b.content.key, b.content) EXCEPT !.sig.by = None], m)
  BY DEF Weighed, Entry, Signed
<1>3. Weighed([Entry(b.content.key, b.content) EXCEPT !.alg = "other"], m)
  BY DEF Weighed, Entry
<1> QED BY <1>1, <1>2, <1>3, Zenon DEF ForeignEntries

\* Inserting an element.
LEMMA InsertedIs ==
  ASSUME NEW T, NEW s \in Seq(T), NEW e \in T, NEW i \in 1 .. Len(s) + 1
  PROVE  InsertAt(s, i, e) \in Seq(T)
<1>1. SubSeq(s, 1, i - 1) \in Seq(T) /\ SubSeq(s, i, Len(s)) \in Seq(T) /\ <<e>> \in Seq(T)
  OBVIOUS
<1> QED BY <1>1 DEF InsertAt

LEMMA BorneSigs ==
  ASSUME NEW b, NEW m, Borne(b, m), NEW T, NEW s \in Seq(T), \A e \in T : Weighed(e, m)
  PROVE  Borne([b EXCEPT !.sigs = s], m)
<1>1. s \in Seq(ToSet(s)) /\ \A e \in ToSet(s) : Weighed(e, m)
  BY OwnElems
<1> HIDE DEF Weighed, ToSet
<1>2. [b EXCEPT !.sigs = s].sigs = s
  BY DEF Borne, BMembers
<1> QED BY <1>1, <1>2 DEF Borne, BMembers

LEMMA BorneInserted ==
  ASSUME NEW b, NEW m, Borne(b, m), NEW i \in 1 .. Len(b.sigs) + 1, NEW e \in ForeignEntries(b)
  PROVE  Borne([b EXCEPT !.sigs = InsertAt(@, i, e)], m)
<1> DEFINE T == ToSet(b.sigs) \union {e}
<1>1. b.sigs \in Seq(T)
  BY DEF Borne
<1>2. \A x \in T : Weighed(x, m)
  BY ForeignWeighed DEF Borne
<1>3. InsertAt(b.sigs, i, e) \in Seq(T)
  BY <1>1, InsertedIs
<1> HIDE DEF T
<1>4. Borne([b EXCEPT !.sigs = InsertAt(b.sigs, i, e)], m)
  BY <1>2, <1>3, BorneSigs
<1> QED BY <1>4

\* The ways to rearrange a bundle, one by one.
LEMMA RearrangedIs ==
  ASSUME NEW b, NEW x \in Rearranged(b)
  PROVE  \/ \E i \in 1 .. Len(b.sigs) + 1 : \E e \in ForeignEntries(b) :
              x = [b EXCEPT !.sigs = InsertAt(@, i, e)]
         \/ x = [b EXCEPT !.sigs = << >>]
         \/ \E a \in b.claimAtts \union b.headAtts : x \in Moved(b, a)
         \/ \E d : x = [b EXCEPT !.shown = Append(@, d)]
         \/ \E i \in Installs : x = [b EXCEPT !.content.install = i]
         \/ \E p : x = [b EXCEPT !.content.profile = p]
         \/ x = [b EXCEPT !.content.link = "l2"] \/ x = [b EXCEPT !.content.keyId = KeyID(Stranger)]
         \/ \E v : x = [b EXCEPT !.version = v]
         \/ \E f : x = [b EXCEPT !.fault = f]
<1> DEFINE Inserted == {[b EXCEPT !.sigs = InsertAt(@, i, e)] :
                        i \in 1 .. Len(b.sigs) + 1, e \in ForeignEntries(b)}
           Shown == {[b EXCEPT !.shown = Append(@, d)] :
                       d \in {[name |-> "f1", value |-> "other"]}
                               \union {b.shown[i] : i \in DOMAIN b.shown}}
           Versions == {[b EXCEPT !.version = v] : v \in {"0.2", None}}
           Faults == {[b EXCEPT !.fault = f] : f \in {"number", "member", "producer", "claim"}}
           Others == {[b EXCEPT !.content.install = i] : i \in Installs}
           Profiles == {[b EXCEPT !.content.profile = p] :
                          p \in {"v1", "switchtender", "none", "unknown"}}
           Linked == {[b EXCEPT !.content.link = "l2"],
                      [b EXCEPT !.content.keyId = KeyID(Stranger)]}
           Unsigned == {[b EXCEPT !.sigs = << >>]}
           Countersigned == UNION {Moved(b, a) : a \in b.claimAtts \union b.headAtts}
<1>1. Rearranged(b) = Inserted \union Unsigned \union Countersigned \union Shown \union Others
                         \union Profiles \union Linked \union Versions \union Faults
  BY DEF Rearranged
<1>2. x \in Inserted => \E i \in 1 .. Len(b.sigs) + 1 : \E e \in ForeignEntries(b) :
                          x = [b EXCEPT !.sigs = InsertAt(@, i, e)]
  OBVIOUS
<1>3. x \in Shown => \E d : x = [b EXCEPT !.shown = Append(@, d)]
  BY Zenon
<1>4. x \in Others => \E i \in Installs : x = [b EXCEPT !.content.install = i]
  BY Zenon
<1>5. x \in Profiles => \E p : x = [b EXCEPT !.content.profile = p]
  BY Zenon
<1>6. x \in Versions => \E v : x = [b EXCEPT !.version = v]
  BY Zenon
<1>7. x \in Faults => \E f : x = [b EXCEPT !.fault = f]
  BY Zenon
<1>8. x \in Linked => x = [b EXCEPT !.content.link = "l2"] \/ x = [b EXCEPT !.content.keyId = KeyID(Stranger)]
  BY Zenon
<1>9. x \in Unsigned => x = [b EXCEPT !.sigs = << >>]
  BY Zenon
<1>10. x \in Countersigned => \E a \in b.claimAtts \union b.headAtts : x \in Moved(b, a)
  BY Zenon
<1>11. \/ x \in Inserted \/ x \in Unsigned \/ x \in Countersigned \/ x \in Shown \/ x \in Others
       \/ x \in Profiles \/ x \in Linked \/ x \in Versions \/ x \in Faults
  <2> HIDE DEF Inserted, Unsigned, Countersigned, Shown, Others, Profiles, Linked, Versions, Faults
  <2> QED BY <1>1
<1> HIDE DEF Inserted, Unsigned, Countersigned, Shown, Others, Profiles, Linked, Versions, Faults
<1> QED BY <1>2, <1>3, <1>4, <1>5, <1>6, <1>7, <1>8, <1>9, <1>10, <1>11, Zenon

\* So no rearrangement adds a producer's signature.
LEMMA BorneRearranged ==
  ASSUME NEW b, NEW m, Borne(b, m), NEW x \in Rearranged(b)
  PROVE  Borne(x, m)
<1>1. ASSUME NEW i \in 1 .. Len(b.sigs) + 1, NEW e \in ForeignEntries(b),
             x = [b EXCEPT !.sigs = InsertAt(@, i, e)]
      PROVE  Borne(x, m)
  <2>1. Borne([b EXCEPT !.sigs = InsertAt(@, i, e)], m)
    BY BorneInserted
  <2> QED BY <1>1, <2>1, Zenon
<1>2. Borne([b EXCEPT !.sigs = << >>], m)
  <2> DEFINE T == {}
  <2>1. << >> \in Seq(T) /\ \A e \in T : Weighed(e, m)
    OBVIOUS
  <2> HIDE DEF T
  <2> QED BY <2>1, BorneSigs
<1>3. ASSUME NEW a, x \in Moved(b, a) PROVE Borne(x, m)
  BY <1>3, BorneMoved
<1>4. ASSUME NEW v
      PROVE  /\ Borne([b EXCEPT !.version = v], m) /\ Borne([b EXCEPT !.fault = v], m)
             /\ Borne([b EXCEPT !.shown = v], m)
  BY BorneBeside
<1>5. ASSUME NEW v
      PROVE  /\ Borne([b EXCEPT !.content.install = v], m) /\ Borne([b EXCEPT !.content.profile = v], m)
             /\ Borne([b EXCEPT !.content.link = v], m) /\ Borne([b EXCEPT !.content.keyId = v], m)
  BY BorneContent
<1>6. ASSUME NEW d PROVE Borne([b EXCEPT !.shown = Append(@, d)], m)
  BY <1>4
<1>7. CASE \E i \in 1 .. Len(b.sigs) + 1 : \E e \in ForeignEntries(b) :
             x = [b EXCEPT !.sigs = InsertAt(@, i, e)]
  BY <1>1, <1>7
<1>8. CASE \E a \in b.claimAtts \union b.headAtts : x \in Moved(b, a)
  BY <1>3, <1>8
<1>9. CASE \/ \E i \in Installs : x = [b EXCEPT !.content.install = i]
           \/ \E p : x = [b EXCEPT !.content.profile = p]
           \/ x = [b EXCEPT !.content.link = "l2"] \/ x = [b EXCEPT !.content.keyId = KeyID(Stranger)]
  BY <1>5, <1>9, Zenon
<1>10. CASE \/ \E v : x = [b EXCEPT !.version = v]
            \/ \E f : x = [b EXCEPT !.fault = f]
            \/ \E d : x = [b EXCEPT !.shown = Append(@, d)]
            \/ x = [b EXCEPT !.sigs = << >>]
  BY <1>2, <1>4, <1>6, <1>10, Zenon
<1> QED BY <1>7, <1>8, <1>9, <1>10, RearrangedIs, Zenon

LEMMA BorneReduced ==
  ASSUME NEW b, NEW m, Borne(b, m), NEW keep
  PROVE  Borne(ReduceDisclosures(b, keep), m)
BY BorneBeside DEF ReduceDisclosures

\* A producer's bundle is signed by it alone.
LEMMA BorneInit == Init => BorneInv
<1> SUFFICES ASSUME Init PROVE BorneInv
  OBVIOUS
<1>1. PICK s \in Starts : held = Sealed(s) /\ made = {Entry(s.content.key, s.content).sig}
  BY DEF Init
<1> DEFINE e == Entry(s.content.key, s.content)
           T == {e}
<1>2. <<e>> \in Seq(T)
  OBVIOUS
<1>3. Weighed(e, made)
  BY <1>1 DEF Weighed
<1>4. /\ BMembers \subseteq DOMAIN held /\ held.content = s.content /\ held.sigs = <<e>>
  BY <1>1 DEF Sealed, BMembers
<1>5. CMembers \subseteq DOMAIN s.content /\ s.content.key \in Producers
  BY StartsAssumption DEF CMembers
<1>6. mail = {}
  BY DEF Init
<1> HIDE DEF e
<1>7. held.sigs \in Seq(ToSet(held.sigs)) /\ ToSet(held.sigs) \subseteq T
  BY <1>2, <1>4, OwnElems
<1> QED BY <1>3, <1>4, <1>5, <1>6, <1>7 DEF BorneInv, Borne

\* What is in the mail stays so.
LEMMA BorneMail ==
  ASSUME BorneInv, made \subseteq made', Borne(held', made'),
         \A p \in mail' : p \in mail \/ Borne(p.bundle, made')
  PROVE  BorneInv'
BY BorneMore DEF BorneInv

\* Producers and attestors make what they put on a bundle.
LEMMA BorneReseal ==
  ASSUME BorneInv, NEW k \in Producers, Reseal(k)
  PROVE  BorneInv'
<1> DEFINE content == [held.content EXCEPT !.key = k, !.keyId = KeyID(k)]
           b == [held EXCEPT !.content = content]
           e == Entry(k, content)
           T == {e}
<1>1. held' = SignBundle(b, k) /\ made' = made \union {e.sig} /\ UNCHANGED mail
  BY DEF Reseal
<1>2. content.key = k /\ CMembers \subseteq DOMAIN content
  BY DEF BorneInv, Borne, CMembers
<1>3. b.content = content /\ BMembers \subseteq DOMAIN b
  BY DEF BorneInv, Borne, BMembers
<1>4. <<e>> \in Seq(T)
  OBVIOUS
<1>5. Weighed(e, made')
  BY <1>1 DEF Weighed
<1> HIDE DEF b, content
<1>6. held' = [b EXCEPT !.sigs = <<e>>]
  BY <1>1, <1>3 DEF SignBundle
<1> HIDE DEF e
<1>7. held'.sigs = <<e>> /\ held'.content = content /\ BMembers \subseteq DOMAIN held'
  BY <1>3, <1>6 DEF BMembers
<1>8. held'.sigs \in Seq(ToSet(held'.sigs)) /\ ToSet(held'.sigs) \subseteq T
  BY <1>4, <1>7, OwnElems
<1>9. Borne(held', made')
  BY <1>2, <1>5, <1>7, <1>8 DEF Borne
<1> QED BY <1>1, <1>9, BorneMail

LEMMA BorneCounterSign ==
  ASSUME BorneInv, NEW k, NEW head, NEW role, NEW at, CounterSign(k, head, role, at)
  PROVE  BorneInv'
<1> DEFINE a == [key |-> k, keyId |-> KeyID(k), role |-> role, at |-> at, sig |-> None]
           input == IF head THEN HeadInput(held, a) ELSE ClaimInput(held, a)
           done == [a EXCEPT !.sig = Signed(k, input)]
<1>1. /\ held' = IF head THEN [held EXCEPT !.headAtts = @ \union {done}]
                 ELSE [held EXCEPT !.claimAtts = @ \union {done}]
      /\ made' = made \union {done.sig} /\ UNCHANGED mail
  BY DEF CounterSign
<1> HIDE DEF done
<1>2. Borne(held, made')
  BY <1>1, BorneMore DEF BorneInv
<1>3. /\ Borne([held EXCEPT !.headAtts = @ \union {done}], made')
      /\ Borne([held EXCEPT !.claimAtts = @ \union {done}], made')
  BY <1>2, BorneBeside
<1>4. Borne(held', made')
  BY <1>1, <1>3, Zenon
<1> QED BY <1>1, <1>4, BorneMail

LEMMA BorneAnswer ==
  ASSUME BorneInv, NEW h, NEW v, NEW n, NEW keep, Answer(h, v, n, keep)
  PROVE  BorneInv'
<1>1. PICK p : p = Present(ReduceDisclosures(held, keep), h, v, n, "now")
  OBVIOUS
<1>2. mail' = mail \union {p} /\ made' = made \union {p.sig} /\ UNCHANGED held
  BY <1>1 DEF Answer
<1>3. p.bundle = ReduceDisclosures(held, keep)
  BY <1>1, PresentMakes
<1>4. Borne(held', made')
  BY <1>2, BorneMore DEF BorneInv
<1>5. Borne(p.bundle, made')
  BY <1>2, <1>3, <1>4, BorneReduced
<1> QED BY <1>2, <1>4, <1>5, BorneMail

LEMMA BorneRedirect ==
  ASSUME EInv, BorneInv, NEW p \in mail, Redirect(p)
  PROVE  BorneInv'
<1>1. PICK q \in Redirected(p) : mail' = mail \union {q}
  BY DEF Redirect
<1>2. UNCHANGED <<held, made>>
  BY DEF Redirect
<1>3. q.bundle \in {p.bundle, held, ReduceDisclosures(p.bundle, {})}
  BY RedirectedForm DEF EInv, Carried, Kept
<1>4. Borne(q.bundle, made)
  BY <1>3, BorneReduced DEF BorneInv
<1> QED BY <1>1, <1>2, <1>4, BorneMail DEF BorneInv

LEMMA BorneNext == EInv /\ BorneInv /\ [Next]_vars => BorneInv'
<1> SUFFICES ASSUME EInv, BorneInv, [Next]_vars PROVE BorneInv'
  OBVIOUS
<1>1. CASE \E k \in Producers : Reseal(k)
  BY <1>1, BorneReseal
<1>2. CASE \E k \in Attestors, head \in BOOLEAN, at \in {"t1", None} : CounterSign(k, head, "approver", at)
  BY <1>2, BorneCounterSign
<1>3. CASE \E h \in Holders, v \in Verifiers, n \in Nonces \union {Empty},
             keep \in {{"f1"}, {"f1", "f2"}} : Answer(h, v, n, keep)
  BY <1>3, BorneAnswer
<1>4. CASE Rearrange
  <2>1. held' \in Rearranged(held) /\ UNCHANGED <<made, mail>>
    BY <1>4 DEF Rearrange
  <2>2. Borne(held', made')
    BY <2>1, BorneRearranged DEF BorneInv
  <2> QED BY <2>1, <2>2, BorneMail
<1>5. CASE \E p \in mail : Redirect(p)
  BY <1>5, BorneRedirect
<1>6. CASE \/ \E v \in Verifiers, n \in Nonces : Challenge(v, n)
           \/ \E v \in Verifiers, f \in Files, o \in Options : Verify(v, f, o)
           \/ Return \/ UNCHANGED vars
  <2>1. UNCHANGED <<held, made, mail>>
    BY <1>6 DEF Challenge, Verify, Return, vars
  <2> QED BY <2>1 DEF BorneInv
<1> QED BY <1>1, <1>2, <1>3, <1>4, <1>5, <1>6 DEF Next

(***************************************************************************)
(* What the reader asks, and what a reversal leaves.                       *)
(***************************************************************************)
LEMMA SevenRules ==
  ASSUME NEW r1, NEW r2, NEW r3, NEW r4, NEW r5, NEW r6, NEW r7
  PROVE  /\ DOMAIN <<r1, r2, r3, r4, r5, r6, r7>> = 1 .. 7
         /\ <<r1, r2, r3, r4, r5, r6, r7>>[1] = r1 /\ <<r1, r2, r3, r4, r5, r6, r7>>[2] = r2
         /\ <<r1, r2, r3, r4, r5, r6, r7>>[3] = r3 /\ <<r1, r2, r3, r4, r5, r6, r7>>[4] = r4
         /\ <<r1, r2, r3, r4, r5, r6, r7>>[5] = r5 /\ <<r1, r2, r3, r4, r5, r6, r7>>[6] = r6
         /\ <<r1, r2, r3, r4, r5, r6, r7>>[7] = r7
OBVIOUS

\* The rules as conditions.
Readable(b) ==
  /\ b.version # None /\ b.version = Version
  /\ b.fault \notin {"number", "member", "producer"} /\ b.content.profile # "unknown"
  /\ b.fault # "claim" /\ Len(b.sigs) > 0
  /\ \A i \in DOMAIN b.sigs : b.sigs[i].alg = "ed25519"

\* The rules of Parse are its conditions, in this order.
LEMMA RuleOne ==
  ASSUME NEW b
  PROVE  /\ DOMAIN ParseRules(b) = 1 .. 7
         /\ ParseRules(b)[1] = <<b.version # None, "parse">>
         /\ ParseRules(b)[2] = <<b.version = Version, "unsupported">>
         /\ ParseRules(b)[3] = <<b.fault \notin {"number", "member", "producer"}, "parse">>
         /\ ParseRules(b)[4] = <<b.content.profile # "unknown", "unsupported">>
         /\ ParseRules(b)[5] = <<b.fault # "claim", "parse">>
         /\ ParseRules(b)[6] = <<Len(b.sigs) > 0, "parse">>
         /\ ParseRules(b)[7] = <<\A i \in DOMAIN b.sigs : b.sigs[i].alg = "ed25519", "unsupported">>
<1> DEFINE r1 == <<b.version # None, "parse">>
           r2 == <<b.version = Version, "unsupported">>
           r3 == <<b.fault \notin {"number", "member", "producer"}, "parse">>
           r4 == <<b.content.profile # "unknown", "unsupported">>
           r5 == <<b.fault # "claim", "parse">>
           r6 == <<Len(b.sigs) > 0, "parse">>
           r7 == <<\A i \in DOMAIN b.sigs : b.sigs[i].alg = "ed25519", "unsupported">>
<1>1. ParseRules(b) = <<r1, r2, r3, r4, r5, r6, r7>>
  BY Zenon DEF ParseRules
<1> HIDE DEF r1, r2, r3, r4, r5, r6, r7
<1>2. /\ DOMAIN ParseRules(b) = 1 .. 7
      /\ ParseRules(b)[1] = r1 /\ ParseRules(b)[2] = r2 /\ ParseRules(b)[3] = r3
      /\ ParseRules(b)[4] = r4 /\ ParseRules(b)[5] = r5 /\ ParseRules(b)[6] = r6
      /\ ParseRules(b)[7] = r7
  BY <1>1, SevenRules
<1> QED BY <1>2, Zenon DEF r1, r2, r3, r4, r5, r6, r7

\* A set of numbers has a least one.
LEMMA LeastOf ==
  ASSUME NEW S \in SUBSET Nat, S # {}
  PROVE  Min(S) \in S /\ \A y \in S : Min(S) <= y
<1>1. PICK x \in S : TRUE
  OBVIOUS
<1>2. IsWellFoundedOn(OpToRel(<, Nat), Nat)
  BY NatLessThanWellFounded
<1>3. PICK m \in S : \A y \in S : ~ (<<y, m>> \in OpToRel(<, Nat))
  BY <1>1, <1>2, WFMin, Zenon
<1>4. \A y \in S : ~(y < m)
  BY <1>3 DEF OpToRel
<1>5. \A y \in S : m <= y
  BY <1>4
<1> QED BY <1>5, Zenon DEF Min

\* A bundle is read when no rule stands against it.
LEMMA ReadMeans ==
  ASSUME NEW b
  PROVE  Parse(b) = "read" <=> Readable(b)
<1> DEFINE R == ParseRules(b)
           broken == {i \in DOMAIN R : ~R[i][1]}
           c1 == b.version # None
           c2 == b.version = Version
           c3 == b.fault \notin {"number", "member", "producer"}
           c4 == b.content.profile # "unknown"
           c5 == b.fault # "claim"
           c6 == Len(b.sigs) > 0
           c7 == \A i \in DOMAIN b.sigs : b.sigs[i].alg = "ed25519"
<1>1. /\ R[1] = <<c1, "parse">> /\ R[2] = <<c2, "unsupported">> /\ R[3] = <<c3, "parse">>
      /\ R[4] = <<c4, "unsupported">> /\ R[5] = <<c5, "parse">> /\ R[6] = <<c6, "parse">>
      /\ R[7] = <<c7, "unsupported">>
  BY RuleOne, Zenon
<1>2. /\ R[1][1] = c1 /\ R[2][1] = c2 /\ R[3][1] = c3 /\ R[4][1] = c4
      /\ R[5][1] = c5 /\ R[6][1] = c6 /\ R[7][1] = c7
      /\ R[1][2] = "parse" /\ R[2][2] = "unsupported" /\ R[3][2] = "parse"
      /\ R[4][2] = "unsupported" /\ R[5][2] = "parse" /\ R[6][2] = "parse"
      /\ R[7][2] = "unsupported"
  <2> HIDE DEF c1, c2, c3, c4, c5, c6, c7, R
  <2> QED BY <1>1
<1>3. DOMAIN R = 1 .. 7
  BY RuleOne
<1>4. Readable(b) <=> c1 /\ c2 /\ c3 /\ c4 /\ c5 /\ c6 /\ c7
  BY Zenon DEF Readable
<1>5. Parse(b) = IF broken = {} THEN "read" ELSE R[Min(broken)][2]
  BY Zenon DEF Parse, First
<1> HIDE DEF c1, c2, c3, c4, c5, c6, c7, R
<1>6. broken = {} <=> Readable(b)
  <2>1. \A i \in DOMAIN R : i \in {1, 2, 3, 4, 5, 6, 7}
    BY <1>3
  <2>2. DOMAIN R = {1, 2, 3, 4, 5, 6, 7}
    BY <1>3
  <2> QED BY <1>2, <1>4, <2>2, Zenon
<1>7. ASSUME broken # {} PROVE R[Min(broken)][2] # "read"
  <2>1. broken \in SUBSET Nat
    BY <1>3
  <2>2. Min(broken) \in 1 .. 7
    BY <1>3, <1>7, <2>1, LeastOf
  <2> HIDE DEF broken
  <2>3. Min(broken) \in {1, 2, 3, 4, 5, 6, 7}
    BY <2>2
  <2> QED BY <1>2, <2>3
<1> HIDE DEF broken
<1> QED BY <1>5, <1>6, <1>7

\* A reversed sequence has the same elements.
LEMMA ReversedIs ==
  ASSUME NEW T, NEW s \in Seq(T)
  PROVE  /\ Reverse(s) \in Seq(T) /\ Len(Reverse(s)) = Len(s) /\ DOMAIN Reverse(s) = 1 .. Len(s)
         /\ \A i \in 1 .. Len(s) : \E j \in 1 .. Len(s) : Reverse(s)[j] = s[i]
         /\ \A i \in 1 .. Len(s) : \E j \in 1 .. Len(s) : Reverse(s)[i] = s[j]
<1> DEFINE n == Len(s)
<1>1. n \in Nat /\ DOMAIN s = 1 .. n
  OBVIOUS
<1>2. Reverse(s) = [i \in 1 .. n |-> s[(n - i) + 1]]
  BY DEF Reverse
<1> HIDE DEF n
<1>3. \A i \in 1 .. n : (n - i) + 1 \in 1 .. n /\ (n - ((n - i) + 1)) + 1 = i
  BY <1>1
<1>4. \A i \in 1 .. n : Reverse(s)[i] = s[(n - i) + 1]
  BY <1>2
<1>5. \A i \in 1 .. n : Reverse(s)[(n - i) + 1] = s[i]
  BY <1>3, <1>4
<1>6. \A i \in 1 .. n : s[i] \in T
  BY <1>1
<1>7. Reverse(s) \in Seq(T) /\ Len(Reverse(s)) = n /\ DOMAIN Reverse(s) = 1 .. n
  BY <1>1, <1>2, <1>3, <1>6
<1>8. n = Len(s)
  BY DEF n
<1> QED BY <1>3, <1>4, <1>5, <1>7, <1>8

\* The order of the entries decides nothing.
LEMMA ReversedRuns ==
  ASSUME NEW b, NEW m, Borne(b, m), NEW o, Readable(b), Holds(b, o)
  PROVE  Run([b EXCEPT !.sigs = Reverse(b.sigs)], o).ok
<1> DEFINE r == [b EXCEPT !.sigs = Reverse(b.sigs)]
           s == b.sigs
<1>1. s \in Seq(ToSet(s)) /\ DOMAIN s = 1 .. Len(s)
  BY DEF Borne
<1>2. /\ r.sigs = Reverse(s) /\ r.content = b.content /\ r.version = b.version
      /\ r.fault = b.fault /\ r.shown = b.shown
      /\ r.claimAtts = b.claimAtts /\ r.headAtts = b.headAtts
  BY DEF Borne, BMembers
<1> HIDE DEF r, s
<1>3. /\ Len(Reverse(s)) = Len(s) /\ DOMAIN Reverse(s) = 1 .. Len(s)
      /\ \A i \in 1 .. Len(s) : \E j \in 1 .. Len(s) : Reverse(s)[j] = s[i]
      /\ \A i \in 1 .. Len(s) : \E j \in 1 .. Len(s) : Reverse(s)[i] = s[j]
  BY <1>1, ReversedIs
<1>4. Readable(r)
  <2>1. \A i \in 1 .. Len(s) : s[i].alg = "ed25519"
    BY <1>1 DEF Readable, s
  <2>2. \A i \in 1 .. Len(s) : Reverse(s)[i].alg = "ed25519"
    BY <1>3, <2>1
  <2>3. Len(s) > 0
    BY DEF Readable, s
  <2>4. /\ b.version # None /\ b.version = Version
        /\ b.fault \notin {"number", "member", "producer"} /\ b.content.profile # "unknown"
        /\ b.fault # "claim"
    BY DEF Readable
  <2> QED BY <1>2, <1>3, <2>2, <2>3, <2>4 DEF Readable
<1>5. SignatureOK(r)
  <2>1. SignatureOK(b)
    BY DEF Holds
  <2>2. CanonicalUnsigned(r) = CanonicalUnsigned(b)
    BY <1>2 DEF CanonicalUnsigned
  <2>3. NoRider(r)
    <3>1. \A i \in 1 .. Len(s) : s[i].keyId = b.content.keyId
      BY <1>1, <2>1 DEF SignatureOK, NoRider, s
    <3>2. ASSUME NEW i \in 1 .. Len(s) PROVE Reverse(s)[i].keyId = b.content.keyId
      <4>1. PICK j \in 1 .. Len(s) : Reverse(s)[i] = s[j]
        BY <1>3
      <4> QED BY <3>1, <4>1
    <3> QED BY <1>2, <1>3, <3>2 DEF NoRider
  <2>4. PICK i \in 1 .. Len(s) : Verifies(b.content.key, CanonicalUnsigned(b), s[i].sig)
    BY <1>1, <2>1 DEF SignatureOK, s
  <2>5. PICK j \in 1 .. Len(s) : Reverse(s)[j] = s[i]
    BY <1>3
  <2> QED BY <1>2, <1>3, <2>1, <2>2, <2>3, <2>4, <2>5 DEF SignatureOK
<1>6. o.pin = None \/ PinMatches(r, o)
  BY <1>2 DEF Holds, PinMatches
<1>7. InstallHolds(r, o)
  BY <1>2, <1>5 DEF Holds, InstallHolds, Minted, Accepted, PinMatches
<1>8. DisclosuresHold(r)
  BY <1>2 DEF Holds, DisclosuresHold, Tree
<1>9. AttestationsHold(r, o)
  <2>1. Chained(r) <=> Chained(b)
    BY <1>2 DEF Chained, Tree
  <2>2. \A a : ClaimInput(r, a) = ClaimInput(b, a) /\ HeadInput(r, a) = HeadInput(b, a)
    BY <1>2 DEF ClaimInput, HeadInput
  <2>3. AttestationsHold(b, o)
    BY DEF Holds
  <2>4. \A a, input : CounterSigns(r, a, input, o) <=> CounterSigns(b, a, input, o)
    BY DEF CounterSigns
  <2>5. \A a \in r.claimAtts : Chained(r) /\ CounterSigns(r, a, ClaimInput(r, a), o)
    BY <1>2, <2>1, <2>2, <2>3, <2>4 DEF AttestationsHold
  <2>6. \A a \in r.headAtts : Chained(r) /\ CounterSigns(r, a, HeadInput(r, a), o)
    BY <1>2, <2>1, <2>2, <2>3, <2>4 DEF AttestationsHold
  <2> QED BY <2>5, <2>6 DEF AttestationsHold
<1>10. Parse(r) = "read" /\ Holds(r, o)
  BY <1>4, <1>5, <1>6, <1>7, <1>8, <1>9, ReadMeans DEF Holds
<1>11. Run(r, o).ok
  BY <1>10, Zenon DEF Run
<1> QED BY <1>11 DEF r

\* A bundle that passes is readable and one in circulation.
LEMMA JudgedReads ==
  ASSUME EInv, Passed
  PROVE  Parse(Judged) = "read"
<1>1. last.file \in Files /\ RunVerify(last.file, last.opts) = 0
  BY DEF EInv, Expected, Passed
<1>2. CASE LooksLikePresentation(last.file)
  <2>1. RunPresentation(last.file.doc, last.opts).ok
    BY <1>1, <1>2 DEF RunVerify, Code
  <2>2. last.file.kind = "presentation"
    BY <1>2 DEF LooksLikePresentation
  <2>3. Parse(last.file.doc.bundle) = "read"
    BY <2>1, Zenon DEF RunPresentation, Run
  <2> QED BY <2>2, <2>3 DEF Judged, Presented, Passed
<1>3. CASE ~LooksLikePresentation(last.file)
  <2>1. last.file.kind = "bundle" /\ Code(Run(last.file.doc, last.opts)) = 0
    BY <1>1, <1>3 DEF RunVerify
  <2>2. Run(last.file.doc, last.opts).ok
    BY <2>1 DEF Code
  <2>3. Parse(last.file.doc) = "read"
    BY <2>2, Zenon DEF Run
  <2> QED BY <2>1, <2>3 DEF Judged, Presented
<1> QED BY <1>2, <1>3

LEMMA JudgedBorne ==
  ASSUME EInv, BorneInv, last # Idle
  PROVE  Borne(Judged, made)
<1>1. last.file \in Files
  BY DEF EInv, Expected
<1>2. CASE last.file.kind = "presentation"
  BY <1>1, <1>2 DEF Files, BorneInv, Judged, Presented
<1>3. CASE last.file.kind # "presentation"
  BY <1>1, <1>3 DEF Files, BorneInv, Judged, Presented
<1> QED BY <1>2, <1>3

LEMMA SealedOK == EInv /\ BorneInv => SealedWhole
<1> SUFFICES ASSUME EInv, BorneInv, Passed PROVE SealedWhole
  BY DEF SealedWhole
<1> DEFINE b == Judged
           o == last.opts
<1>1. Holds(b, o) /\ Readable(b) /\ Borne(b, made)
  BY JudgedHolds, JudgedReads, JudgedBorne, ReadMeans DEF Passed
<1>2. Run([b EXCEPT !.sigs = Reverse(b.sigs)], o).ok
  BY <1>1, ReversedRuns
<1> HIDE DEF b, o
<1>3. /\ b.content.keyId = KeyID(b.content.key) /\ NoRider(b)
      /\ \E i \in DOMAIN b.sigs : Verifies(b.content.key, CanonicalUnsigned(b), b.sigs[i].sig)
  BY <1>1 DEF Holds, SignatureOK
<1>4. Signed(b.content.key, CanonicalUnsigned(b)) \in made
  <2>1. PICK i \in DOMAIN b.sigs : b.sigs[i].sig = Signed(b.content.key, CanonicalUnsigned(b))
    BY <1>3 DEF Verifies
  <2>2. b.sigs[i].sig \in made \/ b.sigs[i].sig.by \in {Stranger, None}
    BY <1>1 DEF Readable, Borne, ToSet, Weighed
  <2>3. b.sigs[i].sig.by = b.content.key
    BY <2>1 DEF Signed
  <2>4. b.content.key \in Producers
    BY <1>1 DEF Borne
  <2> QED BY <2>1, <2>2, <2>3, <2>4, KeysAssumption
<1>5. \A i \in DOMAIN b.sigs : b.sigs[i].keyId = KeyID(b.content.key)
  BY <1>3 DEF NoRider
<1> QED BY <1>2, <1>4, <1>5 DEF SealedWhole, b, o

\* What passes was sealed as it stands by its producer, carries no other key's
\* entry, and would pass with its entries in another order.
THEOREM PassingIsSealed == Spec => []SealedWhole
<1>1. EInv /\ BorneInv /\ [Next]_vars => (EInv /\ BorneInv)'
  BY ENext, BorneNext
<1> QED BY <1>1, EInit, BorneInit, SealedOK, PTL DEF Spec

-----------------------------------------------------------------------------
(***************************************************************************)
(* While nobody has interfered.                                            *)
(***************************************************************************)

\* A set of numbers up to n can be gone through in order.
Ordered(K, f) == f \in [1 .. Cardinality(K) -> K] /\ \A i, j \in DOMAIN f : i < j => f[i] < f[j]

LEMMA NoneOrdered == Ordered({}, << >>)
<1>1. Cardinality({}) = 0
  BY FS_EmptySet
<1>2. << >> \in [1 .. 0 -> {}] /\ DOMAIN << >> = {}
  OBVIOUS
<1> QED BY <1>1, <1>2 DEF Ordered

LEMMA GreatestOf ==
  ASSUME NEW n \in Nat, NEW K, K \subseteq 1 .. n, K # {}
  PROVE  \E m \in K : \A x \in K : x <= m
<1> DEFINE D == {n - x : x \in K}
<1>1. D \in SUBSET Nat /\ D # {}
  <2>1. ASSUME NEW x \in K PROVE n - x \in Nat
    <3>1. x \in 1 .. n
      OBVIOUS
    <3> QED BY <3>1
  <2>2. \E x \in K : TRUE
    OBVIOUS
  <2> QED BY <2>1, <2>2
<1>2. Min(D) \in D /\ \A y \in D : Min(D) <= y
  <2> HIDE DEF D
  <2> QED BY <1>1, LeastOf
<1>3. PICK m \in K : Min(D) = n - m
  BY <1>2
<1>4. ASSUME NEW x \in K PROVE x <= m
  <2>1. n - x \in D
    OBVIOUS
  <2>2. n - m <= n - x
    BY <1>2, <1>3, <2>1
  <2>3. x \in Nat /\ m \in Nat
    OBVIOUS
  <2> QED BY <2>2, <2>3
<1> QED BY <1>4

\* An order of all but the greatest extends to it, so every such set has an order.
LEMMA OneMore ==
  ASSUME NEW n \in Nat, NEW K, K \subseteq 1 .. n, NEW m \in K, \A x \in K : x <= m,
         NEW f, Ordered(K \ {m}, f)
  PROVE  \E g : Ordered(K, g)
<1>1. IsFiniteSet(K)
  <2>1. IsFiniteSet(1 .. n)
    BY FS_Interval
  <2> QED BY <2>1, FS_Subset
<1> DEFINE c == Cardinality(K \ {m})
           g == [i \in 1 .. c + 1 |-> IF i = c + 1 THEN m ELSE f[i]]
<1>2. c \in Nat /\ Cardinality(K) = c + 1
  <2>1. Cardinality(K) \in Nat /\ Cardinality(K \ {m}) = Cardinality(K) - 1
    BY <1>1, FS_CardinalityType, FS_RemoveElement
  <2>2. IsFiniteSet(K \ {m})
    BY <1>1, FS_Subset
  <2>3. c \in Nat
    BY <2>2, FS_CardinalityType
  <2> QED BY <2>1, <2>3
<1>3. f \in [1 .. c -> K \ {m}] /\ \A i, j \in 1 .. c : i < j => f[i] < f[j]
  BY DEF Ordered
<1> HIDE DEF c
<1>4. g \in [1 .. c + 1 -> K]
  BY <1>2, <1>3
<1>5. ASSUME NEW i \in 1 .. c + 1, NEW j \in 1 .. c + 1, i < j PROVE g[i] < g[j]
  <2>1. i \in 1 .. c /\ g[i] = f[i] /\ f[i] \in K /\ f[i] # m
    BY <1>2, <1>3, <1>5
  <2>2. CASE j = c + 1
    <3>1. g[j] = m
      BY <2>2
    <3>2. f[i] <= m /\ f[i] \in 1 .. n /\ m \in 1 .. n
      BY <2>1
    <3>3. f[i] < m
      BY <2>1, <3>2
    <3> QED BY <2>1, <3>1, <3>3
  <2>3. CASE j # c + 1
    BY <1>2, <1>3, <1>5, <2>1, <2>3
  <2> QED BY <2>2, <2>3
<1>6. DOMAIN g = 1 .. c + 1
  OBVIOUS
<1> HIDE DEF g
<1> QED BY <1>2, <1>4, <1>5, <1>6 DEF Ordered

LEMMA CanBeOrdered ==
  ASSUME NEW n \in Nat, NEW K, K \subseteq 1 .. n
  PROVE  \E f : Ordered(K, f)
<1> DEFINE Bad == {c \in Nat : \E L \in SUBSET (1 .. n) : Cardinality(L) = c /\ ~ \E f : Ordered(L, f)}
<1>1. ASSUME NEW L \in SUBSET (1 .. n) PROVE IsFiniteSet(L) /\ Cardinality(L) \in Nat
  <2>1. IsFiniteSet(1 .. n)
    BY FS_Interval
  <2> QED BY <2>1, FS_Subset, FS_CardinalityType
<1>2. ASSUME Bad # {} PROVE FALSE
  <2>1. Bad \in SUBSET Nat
    OBVIOUS
  <2>2. Min(Bad) \in Bad /\ \A y \in Bad : Min(Bad) <= y
    <3> HIDE DEF Bad
    <3> QED BY <1>2, <2>1, LeastOf
  <2>3. PICK L \in SUBSET (1 .. n) : Cardinality(L) = Min(Bad) /\ ~ \E f : Ordered(L, f)
    BY <2>2
  <2>4. L # {}
    BY <2>3, NoneOrdered
  <2>5. PICK m \in L : \A x \in L : x <= m
    BY <2>4, GreatestOf
  <2>6. Cardinality(L \ {m}) = Cardinality(L) - 1 /\ Cardinality(L) \in Nat
    BY <1>1, FS_RemoveElement
  <2>7. L \ {m} \in SUBSET (1 .. n) /\ Cardinality(L \ {m}) \in Nat
    BY <1>1
  <2>8. Cardinality(L \ {m}) \notin Bad
    <3> HIDE DEF Bad
    <3> QED BY <2>2, <2>3, <2>6, <2>7
  <2>9. PICK f : Ordered(L \ {m}, f)
    BY <2>7, <2>8
  <2> QED BY <2>3, <2>5, <2>9, OneMore
<1>3. K \in SUBSET (1 .. n) /\ Cardinality(K) \in Nat
  BY <1>1
<1> QED BY <1>2, <1>3

LEMMA InOrderIs ==
  ASSUME NEW n \in Nat, NEW K, K \subseteq 1 .. n
  PROVE  Ordered(K, InOrder(K))
<1>1. PICK f : Ordered(K, f)
  BY CanBeOrdered
<1>2. \E g \in [1 .. Cardinality(K) -> K] : \A i, j \in DOMAIN g : i < j => g[i] < g[j]
  BY <1>1 DEF Ordered
<1> QED BY <1>2, Zenon DEF InOrder, Ordered

\* The elements chosen are the sequence's, none of them chosen twice.
LEMMA ChosenIs ==
  ASSUME NEW T, NEW s \in Seq(T), NEW keep
  PROVE  /\ Chosen(s, keep) \in Seq(T)
         /\ s = << >> => Chosen(s, keep) = << >>
         /\ \A i \in DOMAIN Chosen(s, keep) : \E j \in DOMAIN s : Chosen(s, keep)[i] = s[j]
         /\ IsInjective(s) => IsInjective(Chosen(s, keep))
<1> DEFINE K == {i \in DOMAIN s : s[i].name \in keep}
           c == Cardinality(K)
           at == InOrder(K)
           t == Chosen(s, keep)
<1>1. K \subseteq 1 .. Len(s) /\ DOMAIN s = 1 .. Len(s) /\ Len(s) \in Nat
  OBVIOUS
<1>2. at \in [1 .. c -> K] /\ \A i, j \in 1 .. c : i < j => at[i] < at[j]
  BY <1>1, InOrderIs DEF Ordered
<1>3. c \in Nat
  <2>1. IsFiniteSet(1 .. Len(s))
    BY <1>1, FS_Interval
  <2> QED BY <1>1, <2>1, FS_Subset, FS_CardinalityType
<1>4. t = [i \in DOMAIN at |-> s[at[i]]]
  BY DEF Chosen
<1>5. \A i \in K : i \in DOMAIN s /\ i \in Nat
  BY <1>1
<1>6. s = << >> => c = 0
  <2>1. Cardinality({}) = 0
    BY FS_EmptySet
  <2>2. s = << >> => K = {}
    OBVIOUS
  <2> QED BY <2>1, <2>2
<1> HIDE DEF K, c, at, t
<1>7. t = [i \in 1 .. c |-> s[at[i]]]
  BY <1>2, <1>4
<1>8. \A i \in 1 .. c : at[i] \in DOMAIN s /\ s[at[i]] \in T /\ at[i] \in Nat
  BY <1>2, <1>5
<1>9. t \in Seq(T) /\ DOMAIN t = 1 .. c /\ Len(t) = c
  BY <1>3, <1>7, <1>8
<1>10. s = << >> => t = << >>
  BY <1>6, <1>9
<1>11. \A i \in DOMAIN t : \E j \in DOMAIN s : t[i] = s[j]
  BY <1>7, <1>8
<1>12. ASSUME IsInjective(s) PROVE IsInjective(t)
  <2>1. ASSUME NEW i \in 1 .. c, NEW j \in 1 .. c, t[i] = t[j] PROVE i = j
    <3>1. s[at[i]] = s[at[j]]
      BY <1>7, <2>1
    <3>2. at[i] = at[j]
      BY <1>8, <1>12, <3>1 DEF IsInjective
    <3>3. ~(i < j) /\ ~(j < i)
      BY <1>2, <1>8, <3>2
    <3> QED BY <1>3, <3>3
  <2> QED BY <1>9, <2>1 DEF IsInjective
<1> QED BY <1>9, <1>10, <1>11, <1>12 DEF t

\* A counter-signature by the key it names.
Said(a, input) == a.keyId = KeyID(a.key) /\ a.role = "approver" /\ a.sig = Signed(a.key, input)

\* A bundle as its producer sealed it, with fields left out or counter-signatures added.
Upright(b) ==
  /\ b.version = Version /\ b.fault = "none" /\ b.content.profile # "unknown"
  /\ b.content.keyId = KeyID(b.content.key) /\ b.sigs = <<Entry(b.content.key, b.content)>>
  /\ b.shown \in Seq(ToSet(b.shown)) /\ DisclosuresHold(b)
  /\ \A a \in b.claimAtts : Chained(b) /\ Said(a, ClaimInput(b, a))
  /\ \A a \in b.headAtts : Chained(b) /\ Said(a, HeadInput(b, a))

\* And a presentation as its holder made it.
Delivered(p) == Genuine(p) /\ p.at = "now" /\ Upright(p.bundle)

HonestInv == edits = 0 => Upright(held) /\ \A p \in mail : Delivered(p)

\* What is uninteresting about the variables, but for the challenges an answer knew.
CountInv ==
  /\ issued \subseteq Verifiers \X Nonces
  /\ \A a \in answers : a.p.key \in Holders
  /\ {a.p : a \in answers} \subseteq mail
  /\ acts \in 0 .. MaxActs /\ edits \in 0 .. acts

\* Counter-signatures are over the link of the content.
LEMMA InputsAre ==
  ASSUME NEW b, NEW c, b.content.link = c.content.link
  PROVE  \A a : ClaimInput(b, a) = ClaimInput(c, a) /\ HeadInput(b, a) = HeadInput(c, a)
BY DEF ClaimInput, HeadInput

LEMMA ChainedIs ==
  ASSUME NEW b, NEW c, b.content.profile = c.content.profile
  PROVE  (Chained(b) <=> Chained(c)) /\ (Tree(b) <=> Tree(c))
BY DEF Chained, Tree

\* Leaving fields out leaves the rest right.
LEMMA UprightReduced ==
  ASSUME NEW b, BMembers \subseteq DOMAIN b, Upright(b), NEW keep
  PROVE  Upright(ReduceDisclosures(b, keep))
<1> DEFINE t == Chosen(b.shown, keep)
           r == ReduceDisclosures(b, keep)
<1>1. /\ t \in Seq(ToSet(b.shown))
      /\ b.shown = << >> => t = << >>
      /\ \A i \in DOMAIN t : \E j \in DOMAIN b.shown : t[i] = b.shown[j]
      /\ IsInjective(b.shown) => IsInjective(t)
  <2>1. b.shown \in Seq(ToSet(b.shown))
    BY DEF Upright
  <2> QED BY <2>1, ChosenIs
<1>2. /\ r.version = b.version /\ r.fault = b.fault /\ r.content = b.content /\ r.sigs = b.sigs
      /\ r.claimAtts = b.claimAtts /\ r.headAtts = b.headAtts /\ r.shown = t
  BY DEF ReduceDisclosures, BMembers
<1> HIDE DEF t, r
<1>3. t \in Seq(ToSet(t))
  BY <1>1, OwnElems
<1>4. (Chained(r) <=> Chained(b)) /\ (Tree(r) <=> Tree(b))
  BY <1>2, ChainedIs
<1>5. \A a : ClaimInput(r, a) = ClaimInput(b, a) /\ HeadInput(r, a) = HeadInput(b, a)
  BY <1>2, InputsAre
<1>6. DisclosuresHold(r)
  <2> SUFFICES ASSUME r.content.fields # {} \/ r.shown # << >>
               PROVE  /\ Tree(r) /\ \A i \in DOMAIN r.shown : Digest(r.shown[i]) \in r.content.fields
                      /\ IsInjective(r.shown)
    BY DEF DisclosuresHold
  <2>1. b.content.fields # {} \/ b.shown # << >>
    BY <1>1, <1>2
  <2>2. /\ Tree(b) /\ \A i \in DOMAIN b.shown : Digest(b.shown[i]) \in b.content.fields
        /\ IsInjective(b.shown)
    BY <2>1 DEF Upright, DisclosuresHold
  <2>3. ASSUME NEW i \in DOMAIN t PROVE Digest(t[i]) \in b.content.fields
    <3>1. PICK j \in DOMAIN b.shown : t[i] = b.shown[j]
      BY <1>1
    <3> QED BY <2>2, <3>1
  <2> QED BY <1>1, <1>2, <1>4, <2>2, <2>3
<1>7. /\ \A a \in r.claimAtts : Chained(r) /\ Said(a, ClaimInput(r, a))
      /\ \A a \in r.headAtts : Chained(r) /\ Said(a, HeadInput(r, a))
  BY <1>2, <1>4, <1>5 DEF Upright
<1>8. /\ r.version = Version /\ r.fault = "none" /\ r.content.profile # "unknown"
      /\ r.content.keyId = KeyID(r.content.key) /\ r.sigs = <<Entry(r.content.key, r.content)>>
  BY <1>2 DEF Upright
<1>9. Upright(r)
  BY <1>2, <1>3, <1>6, <1>7, <1>8 DEF Upright
<1> QED BY <1>9 DEF r

\* So does another producer's seal.
LEMMA UprightSealed ==
  ASSUME NEW b, BMembers \subseteq DOMAIN b, CMembers \subseteq DOMAIN b.content, Upright(b), NEW k,
         NEW c, c = [b.content EXCEPT !.key = k, !.keyId = KeyID(k)],
         NEW r, r = [[b EXCEPT !.content = c] EXCEPT !.sigs = <<Entry(k, c)>>]
  PROVE  Upright(r)
<1>1. /\ c.key = k /\ c.keyId = KeyID(k) /\ c.link = b.content.link
      /\ c.profile = b.content.profile /\ c.fields = b.content.fields
  BY DEF CMembers
<1>2. /\ r.version = b.version /\ r.fault = b.fault /\ r.content = c /\ r.sigs = <<Entry(k, c)>>
      /\ r.claimAtts = b.claimAtts /\ r.headAtts = b.headAtts /\ r.shown = b.shown
  BY DEF BMembers
<1>3. (Chained(r) <=> Chained(b)) /\ (Tree(r) <=> Tree(b))
  <2>1. r.content.profile = b.content.profile
    BY <1>1, <1>2
  <2> QED BY <2>1, Zenon DEF Chained, Tree
<1>4. \A a : ClaimInput(r, a) = ClaimInput(b, a) /\ HeadInput(r, a) = HeadInput(b, a)
  <2>1. r.content.link = b.content.link
    BY <1>1, <1>2
  <2> QED BY <2>1, Zenon DEF ClaimInput, HeadInput
<1>5. DisclosuresHold(r)
  BY <1>1, <1>2, <1>3 DEF Upright, DisclosuresHold
<1>6. /\ \A a \in r.claimAtts : Chained(r) /\ Said(a, ClaimInput(r, a))
      /\ \A a \in r.headAtts : Chained(r) /\ Said(a, HeadInput(r, a))
  BY <1>2, <1>3, <1>4 DEF Upright
<1>7. /\ r.version = Version /\ r.fault = "none" /\ r.content.profile # "unknown"
      /\ r.shown \in Seq(ToSet(r.shown))
  BY <1>1, <1>2 DEF Upright
<1>8. r.content.keyId = KeyID(r.content.key) /\ r.sigs = <<Entry(r.content.key, r.content)>>
  BY <1>1, <1>2
<1> QED BY <1>5, <1>6, <1>7, <1>8 DEF Upright

\* And one more counter-signature.
LEMMA UprightSigned ==
  ASSUME NEW b, BMembers \subseteq DOMAIN b, Upright(b), Chained(b), NEW a
  PROVE  /\ Said(a, ClaimInput(b, a)) => Upright([b EXCEPT !.claimAtts = @ \union {a}])
         /\ Said(a, HeadInput(b, a)) => Upright([b EXCEPT !.headAtts = @ \union {a}])
<1> DEFINE c == [b EXCEPT !.claimAtts = @ \union {a}]
           h == [b EXCEPT !.headAtts = @ \union {a}]
<1>1. /\ c.version = b.version /\ c.fault = b.fault /\ c.content = b.content /\ c.sigs = b.sigs
      /\ c.claimAtts = b.claimAtts \union {a} /\ c.headAtts = b.headAtts /\ c.shown = b.shown
  BY DEF BMembers
<1>2. /\ h.version = b.version /\ h.fault = b.fault /\ h.content = b.content /\ h.sigs = b.sigs
      /\ h.claimAtts = b.claimAtts /\ h.headAtts = b.headAtts \union {a} /\ h.shown = b.shown
  BY DEF BMembers
<1> HIDE DEF c, h
<1>3. Chained(c) /\ Chained(h) /\ (Tree(c) <=> Tree(b)) /\ (Tree(h) <=> Tree(b))
  BY <1>1, <1>2, ChainedIs
<1>4. \A x : /\ ClaimInput(c, x) = ClaimInput(b, x) /\ HeadInput(c, x) = HeadInput(b, x)
             /\ ClaimInput(h, x) = ClaimInput(b, x) /\ HeadInput(h, x) = HeadInput(b, x)
  BY <1>1, <1>2, InputsAre
<1>5. DisclosuresHold(c) /\ DisclosuresHold(h)
  BY <1>1, <1>2, <1>3 DEF Upright, DisclosuresHold
<1>6. ASSUME Said(a, ClaimInput(b, a)) PROVE Upright(c)
  <2>1. \A x \in c.claimAtts : Chained(c) /\ Said(x, ClaimInput(c, x))
    BY <1>1, <1>3, <1>4, <1>6 DEF Upright
  <2>2. \A x \in c.headAtts : Chained(c) /\ Said(x, HeadInput(c, x))
    BY <1>1, <1>3, <1>4 DEF Upright
  <2>3. /\ c.version = Version /\ c.fault = "none" /\ c.content.profile # "unknown"
        /\ c.content.keyId = KeyID(c.content.key) /\ c.sigs = <<Entry(c.content.key, c.content)>>
        /\ c.shown \in Seq(ToSet(c.shown))
    BY <1>1 DEF Upright
  <2> QED BY <1>5, <2>1, <2>2, <2>3 DEF Upright
<1>7. ASSUME Said(a, HeadInput(b, a)) PROVE Upright(h)
  <2>1. \A x \in h.headAtts : Chained(h) /\ Said(x, HeadInput(h, x))
    BY <1>2, <1>3, <1>4, <1>7 DEF Upright
  <2>2. \A x \in h.claimAtts : Chained(h) /\ Said(x, ClaimInput(h, x))
    BY <1>2, <1>3, <1>4 DEF Upright
  <2>3. /\ h.version = Version /\ h.fault = "none" /\ h.content.profile # "unknown"
        /\ h.content.keyId = KeyID(h.content.key) /\ h.sigs = <<Entry(h.content.key, h.content)>>
        /\ h.shown \in Seq(ToSet(h.shown))
    BY <1>2 DEF Upright
  <2> QED BY <1>5, <2>1, <2>2, <2>3 DEF Upright
<1> QED BY <1>6, <1>7 DEF c, h

\* The first bundle is as its producer sealed it.
LEMMA HonestInit == Init => HonestInv /\ CountInv
<1> SUFFICES ASSUME Init PROVE HonestInv /\ CountInv
  OBVIOUS
<1>1. PICK s \in Starts : held = Sealed(s)
  BY DEF Init
<1>2. /\ held.version = Version /\ held.fault = "none" /\ held.content = s.content
      /\ held.sigs = <<Entry(s.content.key, s.content)>> /\ held.shown = s.shown
      /\ held.claimAtts = {} /\ held.headAtts = {}
  BY <1>1 DEF Sealed
<1>3. /\ s.content.keyId = KeyID(s.content.key) /\ s.content.profile # "unknown"
      /\ s.shown \in Seq(ToSet(s.shown)) /\ DisclosuresHold(held)
  BY <1>1, StartsAssumption
<1>4. Upright(held)
  BY <1>2, <1>3 DEF Upright
<1>5. CountInv
  <2>1. issued = {} /\ answers = {} /\ acts = 0 /\ edits = 0 /\ mail = {}
    BY DEF Init
  <2> QED BY <2>1, BoundAssumption DEF CountInv
<1> QED BY <1>4, <1>5 DEF Init, HonestInv

\* Those who sign keep it so.
LEMMA HonestReseal ==
  ASSUME BorneInv, HonestInv, NEW k, Reseal(k)
  PROVE  HonestInv'
<1> SUFFICES ASSUME edits' = 0 PROVE Upright(held') /\ \A p \in mail' : Delivered(p)
  BY DEF HonestInv, Delivered, Genuine
<1> DEFINE c == [held.content EXCEPT !.key = k, !.keyId = KeyID(k)]
           b == [held EXCEPT !.content = c]
<1>1. held' = SignBundle(b, k) /\ UNCHANGED <<edits, mail>>
  BY DEF Reseal
<1>2. BMembers \subseteq DOMAIN held /\ CMembers \subseteq DOMAIN held.content /\ Upright(held)
  BY <1>1 DEF BorneInv, Borne, HonestInv
<1>3. b.content = c
  BY <1>2 DEF BMembers
<1> HIDE DEF c
<1>4. held' = [b EXCEPT !.sigs = <<Entry(k, c)>>]
  BY <1>1, <1>3 DEF SignBundle
<1>5. Upright(held')
  BY <1>2, <1>4, UprightSealed DEF c
<1> QED BY <1>1, <1>5 DEF HonestInv

LEMMA HonestCounterSign ==
  ASSUME BorneInv, HonestInv, NEW k, NEW head, NEW at, CounterSign(k, head, "approver", at)
  PROVE  HonestInv'
<1> SUFFICES ASSUME edits' = 0 PROVE Upright(held') /\ \A p \in mail' : Delivered(p)
  BY DEF HonestInv, Delivered, Genuine
<1> DEFINE a == [key |-> k, keyId |-> KeyID(k), role |-> "approver", at |-> at, sig |-> None]
           input == IF head THEN HeadInput(held, a) ELSE ClaimInput(held, a)
           done == [a EXCEPT !.sig = Signed(k, input)]
<1>1. /\ held' = IF head THEN [held EXCEPT !.headAtts = @ \union {done}]
                 ELSE [held EXCEPT !.claimAtts = @ \union {done}]
      /\ Chained(held) /\ UNCHANGED <<edits, mail>>
  BY DEF CounterSign
<1>2. BMembers \subseteq DOMAIN held /\ Upright(held)
  BY <1>1 DEF BorneInv, Borne, HonestInv
<1>3. a.role = "approver" /\ a.at = at
  OBVIOUS
<1>4. /\ done.key = k /\ done.keyId = KeyID(k) /\ done.role = "approver" /\ done.at = at
      /\ done.sig = Signed(k, input)
  <2> HIDE DEF input
  <2> QED OBVIOUS
<1> HIDE DEF a
<1>5. ClaimInput(held, done) = ClaimInput(held, a) /\ HeadInput(held, done) = HeadInput(held, a)
  <2> HIDE DEF done
  <2> QED BY <1>3, <1>4 DEF ClaimInput, HeadInput
<1>6. IF head THEN input = HeadInput(held, a) ELSE input = ClaimInput(held, a)
  OBVIOUS
<1> HIDE DEF input, done
<1>7. CASE head
  <2>1. Said(done, HeadInput(held, done))
    BY <1>4, <1>5, <1>6, <1>7 DEF Said
  <2>2. Upright([held EXCEPT !.headAtts = @ \union {done}])
    BY <1>1, <1>2, <2>1, UprightSigned
  <2> QED BY <1>1, <1>7, <2>2 DEF HonestInv
<1>8. CASE ~head
  <2>1. Said(done, ClaimInput(held, done))
    BY <1>4, <1>5, <1>6, <1>8 DEF Said
  <2>2. Upright([held EXCEPT !.claimAtts = @ \union {done}])
    BY <1>1, <1>2, <2>1, UprightSigned
  <2> QED BY <1>1, <1>8, <2>2 DEF HonestInv
<1> QED BY <1>7, <1>8

LEMMA HonestAnswer ==
  ASSUME BorneInv, HonestInv, NEW h, NEW v, NEW n, NEW keep, Answer(h, v, n, keep)
  PROVE  HonestInv'
<1> SUFFICES ASSUME edits' = 0 PROVE Upright(held') /\ \A p \in mail' : Delivered(p)
  BY DEF HonestInv, Delivered, Genuine
<1>1. PICK p : p = Present(ReduceDisclosures(held, keep), h, v, n, "now")
  OBVIOUS
<1>2. mail' = mail \union {p} /\ UNCHANGED <<edits, held>>
  BY <1>1 DEF Answer
<1>3. Genuine(p) /\ p.bundle = ReduceDisclosures(held, keep)
  BY <1>1, PresentMakes
<1>4. p.at = "now"
  BY <1>1 DEF Present
<1>5. BMembers \subseteq DOMAIN held /\ Upright(held)
  BY <1>2 DEF BorneInv, Borne, HonestInv
<1>6. Delivered(p)
  BY <1>3, <1>4, <1>5, UprightReduced DEF Delivered
<1> QED BY <1>2, <1>5, <1>6 DEF HonestInv

\* The counting of acts, and what the others leave alone.
LEMMA CountReseal ==
  ASSUME CountInv, NEW k, Reseal(k)
  PROVE  CountInv'
<1>1. /\ acts < MaxActs /\ acts' = acts + 1
      /\ UNCHANGED <<issued, answers, mail, edits>>
  BY DEF Reseal, Acts
<1>2. acts' \in 0 .. MaxActs /\ edits' \in 0 .. acts'
  BY <1>1, BoundAssumption DEF CountInv
<1> QED BY <1>1, <1>2 DEF CountInv

LEMMA CountCounterSign ==
  ASSUME CountInv, NEW k, NEW head, NEW role, NEW at, CounterSign(k, head, role, at)
  PROVE  CountInv'
<1>1. /\ acts < MaxActs /\ acts' = acts + 1
      /\ UNCHANGED <<issued, answers, mail, edits>>
  BY DEF CounterSign, Acts
<1>2. acts' \in 0 .. MaxActs /\ edits' \in 0 .. acts'
  BY <1>1, BoundAssumption DEF CountInv
<1> QED BY <1>1, <1>2 DEF CountInv

LEMMA CountAnswer ==
  ASSUME CountInv, NEW h \in Holders, NEW v, NEW n, NEW keep, Answer(h, v, n, keep)
  PROVE  CountInv'
<1>1. PICK p : p = Present(ReduceDisclosures(held, keep), h, v, n, "now")
  OBVIOUS
<1>2. PICK a : a = [p |-> p, known |-> issued]
  OBVIOUS
<1>3. /\ acts < MaxActs /\ acts' = acts + 1
      /\ answers' = answers \union {a} /\ mail' = mail \union {p} /\ UNCHANGED <<issued, edits>>
  BY <1>1, <1>2 DEF Answer, Acts
<1>4. acts' \in 0 .. MaxActs /\ edits' \in 0 .. acts'
  BY <1>3, BoundAssumption DEF CountInv
<1>5. p.key = h
  BY <1>1 DEF Present
<1>6. a.p = p
  BY <1>2
<1>7. /\ \A x \in answers' : x.p.key \in Holders
      /\ {x.p : x \in answers'} \subseteq mail'
  BY <1>3, <1>5, <1>6 DEF CountInv
<1> QED BY <1>3, <1>4, <1>7 DEF CountInv

LEMMA CountEdit ==
  ASSUME CountInv, Rearrange \/ \E p \in mail : Redirect(p)
  PROVE  CountInv' /\ edits' # 0
<1>1. /\ acts < MaxActs /\ acts' = acts + 1 /\ edits' = edits + 1
      /\ UNCHANGED <<issued, answers>> /\ mail \subseteq mail'
  BY DEF Rearrange, Redirect, Acts
<1>2. acts' \in 0 .. MaxActs /\ edits' \in 0 .. acts' /\ edits' # 0
  BY <1>1, BoundAssumption DEF CountInv
<1> QED BY <1>1, <1>2 DEF CountInv

\* Those who sign nothing are counted among the edits.
LEMMA HonestNext == BorneInv /\ HonestInv /\ CountInv /\ [Next]_vars => HonestInv' /\ CountInv'
<1> SUFFICES ASSUME BorneInv, HonestInv, CountInv, [Next]_vars PROVE HonestInv' /\ CountInv'
  OBVIOUS
<1>1. CASE \E k \in Producers : Reseal(k)
  BY <1>1, HonestReseal, CountReseal
<1>2. CASE \E k \in Attestors, head \in BOOLEAN, at \in {"t1", None} : CounterSign(k, head, "approver", at)
  BY <1>2, HonestCounterSign, CountCounterSign
<1>3. CASE \E h \in Holders, v \in Verifiers, n \in Nonces \union {Empty},
             keep \in {{"f1"}, {"f1", "f2"}} : Answer(h, v, n, keep)
  BY <1>3, HonestAnswer, CountAnswer
<1>4. CASE Rearrange \/ \E p \in mail : Redirect(p)
  BY <1>4, CountEdit DEF HonestInv
<1>5. CASE \/ \E v \in Verifiers, n \in Nonces : Challenge(v, n)
           \/ \E v \in Verifiers, f \in Files, o \in Options : Verify(v, f, o)
           \/ Return \/ UNCHANGED vars
  <2>1. UNCHANGED <<held, mail, answers, acts, edits>>
    BY <1>5 DEF Challenge, Verify, Return, vars
  <2>2. issued' \subseteq Verifiers \X Nonces
    <3>1. ASSUME NEW v \in Verifiers, NEW n \in Nonces, issued' = issued \union {<<v, n>>}
          PROVE  issued' \subseteq Verifiers \X Nonces
      <4>1. <<v, n>> \in Verifiers \X Nonces
        OBVIOUS
      <4> QED BY <3>1, <4>1, Zenon DEF CountInv
    <3>2. issued' = issued \/ \E v \in Verifiers : \E n \in Nonces : issued' = issued \union {<<v, n>>}
      BY <1>5 DEF Challenge, Verify, Return, vars
    <3> QED BY <3>1, <3>2 DEF CountInv
  <2> QED BY <2>1, <2>2 DEF HonestInv, CountInv, Delivered, Genuine
<1> QED BY <1>1, <1>2, <1>3, <1>4, <1>5 DEF Next

\* An upright bundle is read and holds for a caller with the right pins.
Fitting(b, o) ==
  /\ o.pin = KeyID(b.content.key)
  /\ o.accept = IF b.content.profile # "switchtender" \/ Minted(b) THEN None ELSE b.content.install
  /\ {a.keyId : a \in b.claimAtts \union b.headAtts} \subseteq o.attestors \/ o.attestors = {}

LEMMA UprightRuns ==
  ASSUME NEW b, Upright(b), b.content.key \in Producers, NEW o, Fitting(b, o)
  PROVE  Run(b, o).ok
<1> DEFINE e == Entry(b.content.key, b.content)
<1>1. b.sigs = <<e>> /\ Len(b.sigs) = 1 /\ DOMAIN b.sigs = {1} /\ b.sigs[1] = e
  <2>1. b.sigs = <<e>>
    BY DEF Upright
  <2> HIDE DEF e
  <2>2. Len(<<e>>) = 1 /\ DOMAIN <<e>> = {1} /\ <<e>>[1] = e
    OBVIOUS
  <2> QED BY <2>1, <2>2, Zenon
<1>2. /\ e.alg = "ed25519" /\ e.keyId = KeyID(b.content.key)
      /\ e.sig = Signed(b.content.key, CanonicalUnsigned(b))
  BY EntryIs DEF CanonicalUnsigned
<1> HIDE DEF e
<1>3. Readable(b)
  BY <1>1, <1>2, WrittenAssumption DEF Upright, Readable
<1>4. SignatureOK(b)
  BY <1>1, <1>2 DEF Upright, SignatureOK, NoRider, Verifies
<1>5. PinMatches(b, o) /\ o.pin # None
  BY KeysAssumption DEF Fitting, PinMatches
<1>6. InstallHolds(b, o)
  BY <1>5 DEF Fitting, InstallHolds, Accepted
<1>7. AttestationsHold(b, o)
  <2>1. ASSUME NEW a \in b.claimAtts \union b.headAtts, NEW input, Said(a, input)
        PROVE  CounterSigns(b, a, input, o)
    BY <2>1, WrittenAssumption DEF Said, CounterSigns, Verifies, Fitting
  <2> QED BY <2>1 DEF Upright, AttestationsHold
<1>8. Parse(b) = "read" /\ Holds(b, o)
  BY <1>3, <1>4, <1>5, <1>6, <1>7, ReadMeans DEF Holds, Upright
<1> QED BY <1>8, Zenon DEF Run

LEMMA HonestOK == EInv /\ BorneInv /\ HonestInv => HonestAnswerPasses
<1> SUFFICES ASSUME EInv, BorneInv, HonestInv PROVE HonestAnswerPasses
  OBVIOUS
<1> DEFINE o == last.opts
           b == Judged
           p == last.file.doc
           e == IF Presented THEN [audience |-> p.audience, nonce |-> p.nonce]
                ELSE [audience |-> o.audience, nonce |-> o.nonce]
<1>1. SUFFICES ASSUME last # Idle, edits = 0, Fitting(b, o),
                      o.audience \in {None, e.audience} \ {Empty},
                      o.nonce \in {None, e.nonce} \ {Empty}
               PROVE  last.code = 0
  BY Zenon DEF HonestAnswerPasses, Fitting
<1>2. /\ last.code = RunVerify(last.file, o) /\ last.file \in Files
      /\ Upright(held) /\ \A q \in mail : Delivered(q)
  BY <1>1 DEF EInv, Expected, HonestInv
<1>3. b.content.key \in Producers
  BY <1>1, JudgedBorne DEF Borne
<1>4. Usage(o)
  BY <1>1, <1>3, KeysAssumption DEF Usage, Fitting
<1>5. CASE last.file.kind = "presentation"
  <2>1. p \in mail /\ b = p.bundle /\ Presented
    BY <1>1, <1>2, <1>5 DEF Files, Judged, Presented
  <2>2. Genuine(p) /\ p.at = "now" /\ Upright(b)
    BY <1>2, <2>1 DEF Delivered
  <2>3. Run(p.bundle, o).ok
    BY <1>1, <1>3, <2>1, <2>2, UprightRuns
  <2>4. ReadPresentation(p) = "read" /\ HolderSigned(p) /\ p.version # None
    BY <2>2, WrittenAssumption DEF Genuine, ReadPresentation, HolderSigned, Verifies
  <2>5. e.audience = p.audience /\ e.nonce = p.nonce
    BY <2>1
  <2>6. ExpectationsHold(p, o)
    BY <1>1, <2>5 DEF ExpectationsHold
  <2>7. RunPresentation(p, o).ok
    BY <2>3, <2>4, <2>6, Zenon DEF RunPresentation
  <2>8. LooksLikePresentation(last.file)
    BY <1>5, <2>4 DEF LooksLikePresentation
  <2> QED BY <1>2, <1>4, <2>7, <2>8 DEF RunVerify, Code
<1>6. CASE last.file.kind # "presentation"
  <2>1. last.file.doc = held /\ last.file.kind = "bundle" /\ b = held
    BY <1>1, <1>2, <1>6 DEF Files, Judged, Presented
  <2>2. Run(last.file.doc, o).ok
    BY <1>1, <1>2, <1>3, <2>1, UprightRuns
  <2> QED BY <1>2, <1>4, <1>6, <2>1, <2>2 DEF RunVerify, Code, LooksLikePresentation
<1> QED BY <1>5, <1>6

LEMMA TypesOK == EInv /\ BorneInv /\ HonestInv /\ CountInv => TypeOK
<1> SUFFICES ASSUME EInv, BorneInv, HonestInv, CountInv PROVE TypeOK
  OBVIOUS
<1>1. held.content.key \in Producers /\ held.content.install \in Installs
  BY DEF EInv, Sound, BorneInv, Borne
<1>2. edits = 0 => held.sigs = <<Entry(held.content.key, held.content)>>
  BY DEF HonestInv, Upright
<1>3. \A a \in answers : a.p.key \in Holders /\ a.known \subseteq issued
  BY DEF EInv, Answered, CountInv
<1>4. last.code \in {None, 0, 1, 2, 3}
  <2>1. CASE last = Idle
    BY <2>1 DEF Idle
  <2>2. CASE last # Idle
    <3>1. \A r : Code(r) \in {0, 1, 3}
      BY DEF Code
    <3> QED BY <2>2, <3>1 DEF EInv, Expected, RunVerify
  <2> QED BY <2>1, <2>2
<1> QED BY <1>1, <1>2, <1>3, <1>4 DEF TypeOK, CountInv

\* The four invariants go together.
LEMMA AllHold == Spec => [](EInv /\ BorneInv /\ HonestInv /\ CountInv)
<1> DEFINE I == EInv /\ BorneInv /\ HonestInv /\ CountInv
<1>1. Init => I
  BY EInit, BorneInit, HonestInit
<1>2. I /\ [Next]_vars => I'
  BY ENext, BorneNext, HonestNext
<1> QED BY <1>1, <1>2, PTL DEF Spec

\* Counter-signatures, withheld fields and delay cost no honest bundle and no
\* honest answer its verdict.
THEOREM HonestPasses == Spec => []HonestAnswerPasses
BY AllHold, HonestOK, PTL

\* Every variable keeps its type, and a bundle nobody rearranged bears its
\* producer's signature and no other.
THEOREM ExchangeTypes == Spec => []TypeOK
BY AllHold, TypesOK, PTL
=============================================================================
