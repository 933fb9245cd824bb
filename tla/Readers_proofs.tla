--------------------------- MODULE Readers_proofs ----------------------------
(***************************************************************************)
(* The readers, for every input: the three readings of an object that is   *)
(* accepted are one; a token is accepted for what its signer stamped and   *)
(* for nothing else; a fold is decided by the log it is about; and octets  *)
(* are accepted when they are the one encoding of what they stand for.     *)
(***************************************************************************)
EXTENDS Readers, MerkleTree_proofs, FiniteSetTheorems

-----------------------------------------------------------------------------
(* The object. *)

\* What Judge asks of the tree, as far as the struct's reading of it goes.
Plain(p, t) ==
  /\ \A n \in Object!Names : t[n].is # Object!Holed
  /\ p \in Object!Structs => t["Seq"] = Object!Zero /\ t["seq"].is # Object!Null
  /\ p = "params" => \A n \in Object!Names : t[n].is # Object!Null

\* The members read so far, written out again and taken into the struct.
ObjInv ==
  /\ DOMAIN tree = Object!Names /\ DOMAIN field = Object!Names /\ DOMAIN copy = Object!Names
  /\ \A n \in Object!Names : copy[n] = Object!Double(tree[n])
  /\ place = "none" => outcome = "reading" /\ \A n \in Object!Names : field[n] = tree[n]
  /\ ~repeated /\ ~stray /\ Plain(place, tree) => \A n \in Object!Names : field[n] = tree[n]
  /\ outcome = "accepted" =>
       /\ ~repeated /\ ~stray /\ Plain(place, tree)
       /\ \A n \in Object!Names : tree[n] = Object!Zero \/ Object!CheckNumbers(tree[n])

\* Nothing read, nothing to differ.
LEMMA ObjStart == Object!ObjInit => ObjInv
<1> SUFFICES ASSUME Object!ObjInit PROVE ObjInv
  OBVIOUS
<1>1. /\ DOMAIN tree = Object!Names /\ DOMAIN field = Object!Names /\ DOMAIN copy = Object!Names
      /\ \A n \in Object!Names : /\ tree[n] = Object!Zero /\ field[n] = Object!Zero
                                 /\ copy[n] = Object!Zero
      /\ outcome = "reading"
  BY DEF Object!ObjInit
<1>2. Object!Double(Object!Zero) = Object!Zero
  BY DEF Object!Double, Object!Zero, Object!Value
<1> QED BY <1>1, <1>2 DEF ObjInv

\* A value the menu offers is no absent one.
LEMMA MenuIs ==
  ASSUME NEW p, NEW v \in Object!Menu(p)
  PROVE  v # Object!Zero
<1>1. v.is \in {Object!Null, "number", "text", Object!Fraction, Object!Holed, "list"}
  <2> DEFINE Numbers == {Object!Value("number", n) : n \in Object!Literals}
             Texts == {Object!Value("text", t) : t \in {1, 2}}
             Lists == {Object!Value(Object!Holed, 0), Object!Value("list", 1)}
  <2>1. \/ v = Object!Value(Object!Null, 0) \/ v \in Numbers \/ v \in Texts
        \/ v = Object!Value(Object!Fraction, 0) \/ v \in Lists
    BY DEF Object!Menu
  <2>2. \A is, of : Object!Value(is, of).is = is
    BY DEF Object!Value
  <2> QED BY <2>1, <2>2
<1>2. Object!Zero.is = "zero"
  BY DEF Object!Zero, Object!Value
<1> QED BY <1>1, <1>2 DEF Object!Null, Object!Fraction, Object!Holed

\* The decoder takes one more member the way the tree does, when it is plain.
LEMMA MemberRead ==
  ASSUME ObjInv, Object!Member, ~repeated', ~stray', Plain(place, tree')
  PROVE  \A n \in Object!Names : field'[n] = tree'[n]
<1>1. PICK n \in Object!Names, v \in Object!Menu(place) :
        /\ tree' = [tree EXCEPT ![n] = v]
        /\ field' = [field EXCEPT ![Object!Field(n)] = Object!Decoded(n, v)]
        /\ repeated' = (repeated \/ tree[n] # Object!Zero)
        /\ stray' = (stray \/ (place \in Object!Structs /\ n \notin Object!Folded))
  BY Zenon DEF Object!Member
<1>2. ~repeated /\ tree[n] = Object!Zero
  BY <1>1, Zenon
<1>3. ~stray /\ (place \in Object!Structs => n \in Object!Folded)
  BY <1>1, Zenon
<1>4. v # Object!Zero
  BY MenuIs
<1>5. /\ tree'[n] = v /\ \A m \in Object!Names \ {n} : tree'[m] = tree[m]
      /\ DOMAIN tree = Object!Names /\ DOMAIN field = Object!Names
  BY <1>1 DEF ObjInv
<1>6. Object!Zero.is = "zero" /\ Object!Holed # "zero" /\ Object!Null # "zero"
  BY DEF Object!Zero, Object!Value, Object!Holed, Object!Null
<1>7. Plain(place, tree)
  <2>1. \A m \in Object!Names : tree[m].is # Object!Holed
    BY <1>2, <1>5, <1>6 DEF Plain
  <2>2. place \in Object!Structs => tree["Seq"] = Object!Zero /\ tree["seq"].is # Object!Null
    BY <1>2, <1>5, <1>6 DEF Plain, Object!Names
  <2>3. place = "params" => \A m \in Object!Names : tree[m].is # Object!Null
    BY <1>2, <1>5, <1>6 DEF Plain
  <2> QED BY <2>1, <2>2, <2>3 DEF Plain
<1>8. \A m \in Object!Names : field[m] = tree[m]
  BY <1>2, <1>3, <1>7 DEF ObjInv
<1>9. v.is # Object!Holed /\ (place = "params" => v.is # Object!Null)
  BY <1>5 DEF Plain
<1>10. CASE place \in Object!Structs
  <2>1. n = "seq"
    BY <1>3, <1>4, <1>5, <1>10 DEF Plain, Object!Folded, Object!Names
  <2>2. Object!Field(n) = n /\ v.is # Object!Null
    BY <1>5, <1>10, <2>1 DEF Plain, Object!Field
  <2>3. Object!Decoded(n, v) = v
    <3> DEFINE isHoled == v.is = Object!Holed
               isNull == v.is = Object!Null
    <3>1. ~isHoled /\ ~isNull
      BY <1>9, <2>2
    <3> HIDE DEF isHoled, isNull
    <3>2. Object!Decoded(n, v) =
            CASE isHoled -> Object!Value("list", 0)
              [] isNull /\ place = "params" -> Object!Value("text", 0)
              [] isNull /\ place \in Object!Structs -> field[Object!Field(n)]
              [] OTHER -> v
      BY Zenon DEF Object!Decoded, isHoled, isNull
    <3> QED BY <3>1, <3>2
  <2> QED BY <1>1, <1>5, <1>8, <2>2, <2>3
<1>11. CASE place \notin Object!Structs
  <2>1. Object!Field(n) = n
    BY <1>11 DEF Object!Field
  <2>2. Object!Decoded(n, v) = v
    <3> DEFINE isHoled == v.is = Object!Holed
               isNull == v.is = Object!Null
               open == place \in Object!Structs
               text == place = "params"
    <3>1. ~isHoled /\ ~(isNull /\ text) /\ ~(isNull /\ open)
      BY <1>9, <1>11
    <3> HIDE DEF isHoled, isNull, open, text
    <3>2. Object!Decoded(n, v) =
            CASE isHoled -> Object!Value("list", 0)
              [] isNull /\ text -> Object!Value("text", 0)
              [] isNull /\ open -> field[Object!Field(n)]
              [] OTHER -> v
      BY Zenon DEF Object!Decoded, isHoled, isNull, open, text
    <3> QED BY <3>1, <3>2
  <2> QED BY <1>1, <1>5, <1>8, <2>1, <2>2
<1> QED BY <1>10, <1>11

\* Every step over an object keeps that.
LEMMA ObjKept == ObjInv /\ [Object!ObjNext]_objVars => ObjInv'
<1> SUFFICES ASSUME ObjInv, [Object!ObjNext]_objVars PROVE ObjInv'
  OBVIOUS
<1>1. CASE Object!Open
  <2>1. /\ UNCHANGED <<tree, field, copy, repeated, stray, outcome>>
        /\ place = "none" /\ outcome = "reading"
    BY <1>1 DEF Object!Open, ObjInv
  <2>2. \A n \in Object!Names : field[n] = tree[n]
    BY <2>1 DEF ObjInv
  <2>3. outcome' # "accepted"
    BY <2>1
  <2> QED BY <2>1, <2>2, <2>3 DEF ObjInv
<1>2. CASE Object!Member
  <2>1. PICK n \in Object!Names, v \in Object!Menu(place) :
          /\ tree' = [tree EXCEPT ![n] = v]
          /\ field' = [field EXCEPT ![Object!Field(n)] = Object!Decoded(n, v)]
          /\ copy' = [copy EXCEPT ![n] = Object!Double(v)]
    BY <1>2, Zenon DEF Object!Member
  <2>2. place' = place /\ place # "none" /\ outcome' = "reading"
    BY <1>2 DEF Object!Member
  <2>3. DOMAIN tree' = Object!Names /\ DOMAIN field' = Object!Names /\ DOMAIN copy' = Object!Names
    BY <2>1 DEF ObjInv
  <2>4. \A m \in Object!Names : copy'[m] = Object!Double(tree'[m])
    BY <2>1 DEF ObjInv
  <2>5. ~repeated' /\ ~stray' /\ Plain(place, tree') => \A m \in Object!Names : field'[m] = tree'[m]
    BY <1>2, MemberRead
  <2>6. outcome' # "accepted"
    BY <2>2
  <2> QED BY <2>2, <2>3, <2>4, <2>5, <2>6 DEF ObjInv
<1>3. CASE Object!Judge
  <2>1. /\ UNCHANGED <<place, tree, field, copy, repeated, stray>> /\ place # "none"
    BY <1>3 DEF Object!Judge
  <2>2. ASSUME outcome' = "accepted"
        PROVE  /\ ~repeated /\ ~stray /\ Plain(place, tree)
               /\ \A n \in Object!Names : tree[n] = Object!Zero \/ Object!CheckNumbers(tree[n])
    <3> DEFINE right == /\ ~repeated /\ ~stray
                        /\ \A n \in Object!Held : Object!CheckNumbers(tree[n])
                        /\ Object!ExactMembers /\ Object!NullElements /\ Object!StringParams
    <3>1. outcome' = IF right THEN "accepted" ELSE "refused"
      BY <1>3 DEF Object!Judge
    <3>2. right
      <4> HIDE DEF right
      <4> QED BY <2>2, <3>1
    <3>3. \A n \in Object!Names : tree[n] # Object!Zero <=> n \in Object!Held
      BY DEF Object!Held
    <3>4. /\ Object!Zero.is = "zero" /\ Object!Holed # "zero" /\ Object!Null # "zero"
          /\ Object!Null # "text"
      BY DEF Object!Zero, Object!Value, Object!Holed, Object!Null
    <3>5. Plain(place, tree)
      BY <3>2, <3>3, <3>4 DEF Plain, Object!ExactMembers, Object!NullElements,
                              Object!StringParams, Object!Names
    <3> QED BY <3>2, <3>3, <3>5
  <2> QED BY <2>1, <2>2 DEF ObjInv
<1>4. CASE UNCHANGED objVars
  BY <1>4 DEF objVars, ObjInv
<1> QED BY <1>1, <1>2, <1>3, <1>4 DEF Object!ObjNext

\* A number the check lets through is its own nearest double.
LEMMA DoubleIs ==
  ASSUME NEW v, v = Object!Zero \/ Object!CheckNumbers(v)
  PROVE  Object!Double(v) = v
BY DEF Object!Double, Object!CheckNumbers, Object!Zero, Object!Value

\* A call of another reader leaves the object alone.
LEMMA ObjStep ==
  [ReadersNext]_<<call, vars, textVars, derVars, objVars, tokenVars>> =>
    [Object!ObjNext]_objVars
BY DEF ReadersNext, CallFold, CallText, CallDer, CallObject, CallToken

\* Whatever members an object has, in whatever order and in whatever case, when
\* it is accepted the struct the verdict is computed from, the tree the signature
\* covers and the copy a holder writes out hold the same.
THEOREM ReadingsAgree == ReadersSpec => []OneReading
<1>1. ReadersInit => ObjInv
  BY ObjStart DEF ReadersInit
<1>2. ObjInv => OneReading
  <2> SUFFICES ASSUME ObjInv, outcome = "accepted", NEW n \in Object!Names
               PROVE  field[n] = tree[n] /\ copy[n] = tree[n]
    BY DEF OneReading, Object!OneReading
  <2> QED BY DoubleIs DEF ObjInv
<1> QED BY <1>1, <1>2, ObjKept, ObjStep, PTL DEF ReadersSpec

-----------------------------------------------------------------------------
(* The token. *)

TokenMembers == {"info", "signers", "sid", "digest", "attrs", "alg", "certs", "sig"}

\* A key of the authority.
OwnKey(k) == \E c \in OwnCerts : c.key = k

\* What the authority signs, and with what.
StampedRight(t) ==
  /\ t.info = Token!Info("sha256", t.info.imprint, t.info.time)
  /\ t.attrs = <<Token!Digest(t.digest, t.info)>>
  /\ t.cert \in OwnCerts /\ t.info.time \in t.cert.from .. t.cert.until
  /\ t.digest \in Token!HashFor /\ t.alg \in Token!Known /\ t.alg.key = t.cert.kind
  /\ t.sig = Token!Sign(t.cert.key, Token!Scheme(t.alg, t.digest), t.attrs)

\* The signature on a token is one the authority made, or somebody else's.
Sealed(t, s) ==
  /\ DOMAIN t = TokenMembers
  /\ t.certs \in Seq(Token!Certs)
  /\ OwnKey(t.sig.key) => \E u \in s : t.sig = u.sig

\* What the reader answers.
Answer(t, link) ==
  IF Token!Verify(t, link) THEN [ok |-> TRUE, signer |-> Token!SignerCertificate(t)]
                           ELSE Token!NoResult

TokenInv ==
  /\ \A t \in stamped : StampedRight(t)
  /\ token # Token!NoToken => Sealed(token, stamped)
  /\ token = Token!NoToken => about = "nothing"
  /\ result = IF about = "nothing" THEN Token!NoResult ELSE Answer(token, about)

\* Nothing stamped, nothing read.
LEMMA TokenStart == Token!TokenInit => TokenInv
BY DEF Token!TokenInit, TokenInv

\* Other parts than the certificates and the signature may be anything.
LEMMA SealedParts ==
  ASSUME NEW t, NEW s, Sealed(t, s)
  PROVE  /\ \A v : Sealed([t EXCEPT !.info = v], s) /\ Sealed([t EXCEPT !.sid = v], s)
         /\ \A v : Sealed([t EXCEPT !.signers = v], s)
         /\ \A v, w : Sealed([t EXCEPT !.info = v, !.attrs = w], s)
         /\ \A v \in Seq(Token!Certs) : Sealed([t EXCEPT !.certs = v], s)
         /\ \A u \in s : \A v, w, y :
              Sealed([t EXCEPT !.attrs = v, !.digest = w, !.sig = u.sig, !.alg = y], s)
BY DEF Sealed, TokenMembers

\* A token signed anew by somebody else.
LEMMA SealedAnew ==
  ASSUME NEW t, NEW s, Sealed(t, s), NEW c \in OtherCerts, NEW certs \in Seq(Token!Certs),
         NEW attrs, NEW digest, NEW alg, NEW sid, NEW scheme
  PROVE  Sealed([t EXCEPT !.attrs = attrs, !.digest = digest, !.alg = alg, !.sid = sid,
                          !.certs = certs, !.sig = Token!Sign(c.key, scheme, attrs)], s)
<1> DEFINE sig == Token!Sign(c.key, scheme, attrs)
<1>1. ~OwnKey(sig.key)
  BY KeysAssumption DEF OwnKey, Token!Sign
<1> HIDE DEF sig
<1>2. Sealed([t EXCEPT !.attrs = attrs, !.digest = digest, !.alg = alg, !.sid = sid,
                       !.certs = certs, !.sig = sig], s)
  BY <1>1 DEF Sealed, TokenMembers
<1> QED BY <1>2 DEF sig

\* Certificates turned about, added or taken away are certificates.
LEMMA CertsChanged ==
  ASSUME NEW s \in Seq(Token!Certs), NEW c \in Token!Certs
  PROVE  /\ Token!Reverse(s) \in Seq(Token!Certs) /\ Append(s, c) \in Seq(Token!Certs)
         /\ <<c>> \o s \in Seq(Token!Certs) /\ (s # << >> => Tail(s) \in Seq(Token!Certs))
<1>1. Token!Reverse(s) \in Seq(Token!Certs)
  <2>1. Len(s) \in Nat /\ \A i \in 1 .. Len(s) : s[i] \in Token!Certs
    BY ElementOfSeq
  <2> DEFINE n == Len(s)
  <2> HIDE DEF n
  <2>2. \A i \in 1 .. n : n - i + 1 \in 1 .. n
    BY <2>1 DEF n
  <2>3. Token!Reverse(s) = [i \in 1 .. n |-> s[(n - i) + 1]]
    BY DEF Token!Reverse, n
  <2>4. Token!Reverse(s) \in [1 .. n -> Token!Certs]
    BY <2>1, <2>2, <2>3 DEF n
  <2> QED BY <2>1, <2>4, SeqDef DEF n
<1>2. Append(s, c) \in Seq(Token!Certs) /\ <<c>> \o s \in Seq(Token!Certs)
  BY ConcatProperties
<1>3. s # << >> => Tail(s) \in Seq(Token!Certs)
  BY HeadTailProperties
<1> QED BY <1>1, <1>2, <1>3

\* Any change leaves no signature of the authority's it did not make.
LEMMA SealedChanged ==
  ASSUME TokenInv, Token!Change
  PROVE  Sealed(token', stamped)
<1>1. Sealed(token, stamped)
  BY DEF Token!Change, TokenInv
<1>2. token.certs \in Seq(Token!Certs) /\ OtherCerts \subseteq Token!Certs
  BY <1>1 DEF Sealed, Token!Certs
<1> DEFINE Fine(t) == Sealed(t, stamped)
<1>a. \A v \in Seq(Token!Certs) : Fine([token EXCEPT !.certs = v])
  BY <1>1, SealedParts
<1>b. \A v : Fine([token EXCEPT !.info = v]) /\ Fine([token EXCEPT !.sid = v])
  BY <1>1, SealedParts
<1>c. \A v, w : Fine([token EXCEPT !.info = v, !.attrs = w])
  BY <1>1, SealedParts
<1>d. \A u \in stamped :
        Fine([token EXCEPT !.attrs = u.attrs, !.digest = u.digest, !.sig = u.sig, !.alg = u.alg])
  BY <1>1, SealedParts
<1>e. Fine([token EXCEPT !.signers = 2])
  BY <1>1, SealedParts
<1> SUFFICES Fine(token')
  OBVIOUS
<1> HIDE DEF Right
<1>3. CASE Token!Reorder
  <2>1. token' = [token EXCEPT !.certs = Token!Reverse(token.certs)]
    BY <1>3 DEF Token!Reorder, Token!Edit
  <2>2. Token!Reverse(token.certs) \in Seq(Token!Certs)
    <3>1. CASE token.certs = << >>
      BY <3>1, EmptySeq DEF Token!Reverse
    <3>2. CASE token.certs # << >>
      <4>1. PICK c : c \in Token!Certs
        BY <1>2, <3>2, HeadTailProperties
      <4> QED BY <1>2, <4>1, CertsChanged
    <3> QED BY <3>1, <3>2
  <2> QED BY <1>a, <2>1, <2>2, Zenon
<1>4. CASE Token!AddCertificate
  <2>1. PICK c \in OtherCerts : \/ token' = [token EXCEPT !.certs = Append(token.certs, c)]
                                \/ token' = [token EXCEPT !.certs = <<c>> \o token.certs]
    BY <1>4 DEF Token!AddCertificate, Token!Edit
  <2>2. Append(token.certs, c) \in Seq(Token!Certs) /\ <<c>> \o token.certs \in Seq(Token!Certs)
    BY <1>2, CertsChanged
  <2> QED BY <1>a, <2>1, <2>2, Zenon
<1>5. CASE Token!DropCertificate
  <2>1. token.certs # << >> /\ token' = [token EXCEPT !.certs = Tail(token.certs)]
    BY <1>5 DEF Token!DropCertificate, Token!Edit
  <2>2. Tail(token.certs) \in Seq(Token!Certs)
    BY <1>2, <2>1, HeadTailProperties
  <2> QED BY <1>a, <2>1, <2>2, Zenon
<1>6. CASE Token!Readdress
  <2>1. \E v : token' = [token EXCEPT !.info = v]
    BY <1>6 DEF Token!Readdress, Token!Edit
  <2> QED BY <1>b, <2>1, Zenon
<1>7. CASE Token!Rename
  <2>1. \E v : token' = [token EXCEPT !.sid = v]
    BY <1>7 DEF Token!Rename, Token!Edit
  <2> QED BY <1>b, <2>1, Zenon
<1>8. CASE Token!Transplant
  <2>1. PICK t \in stamped :
          \/ token' = [token EXCEPT !.attrs = t.attrs, !.digest = t.digest, !.sig = t.sig,
                                    !.alg = t.alg]
          \/ token' = [token EXCEPT !.info = t.info, !.attrs = t.attrs]
    BY <1>8 DEF Token!Transplant, Token!Edit
  <2>2. CASE token' = [token EXCEPT !.info = t.info, !.attrs = t.attrs]
    BY <1>c, <2>2, Zenon
  <2>3. CASE token' = [token EXCEPT !.attrs = t.attrs, !.digest = t.digest, !.sig = t.sig,
                                    !.alg = t.alg]
    <3>1. Fine([token EXCEPT !.attrs = t.attrs, !.digest = t.digest, !.sig = t.sig,
                              !.alg = t.alg])
      BY <1>d
    <3> QED BY <2>3, <3>1, Zenon
  <2> QED BY <2>1, <2>2, <2>3
<1>9. CASE Token!AddSigner
  <2>1. token' = [token EXCEPT !.signers = 2]
    BY <1>9 DEF Token!AddSigner, Token!Edit
  <2> QED BY <1>e, <2>1, Zenon
<1>10. CASE Token!SignAnew
  <2> DEFINE Anew(c, attrs, digest, alg, sid) ==
               [token EXCEPT !.attrs = attrs, !.digest = digest, !.alg = alg, !.sid = sid,
                             !.certs = Append(@, c),
                             !.sig = Token!Sign(c.key, Token!Scheme(alg, digest), attrs)]
  <2>1. \E c \in OtherCerts : \E attrs, digest, alg, sid : token' = Anew(c, attrs, digest, alg, sid)
    BY <1>10, ZenonT(60) DEF Token!SignAnew, Token!Edit
  <2>2. \A c \in OtherCerts : \A attrs, digest, alg, sid :
          Fine(Anew(c, attrs, digest, alg, sid))
    <3> SUFFICES ASSUME NEW c \in OtherCerts, NEW attrs, NEW digest, NEW alg, NEW sid
                 PROVE  Fine(Anew(c, attrs, digest, alg, sid))
      OBVIOUS
    <3>1. Append(token.certs, c) \in Seq(Token!Certs)
      BY <1>2, CertsChanged
    <3> QED BY <1>1, <3>1, SealedAnew DEF Right
  <2> HIDE DEF Anew
  <2> QED BY <2>1, <2>2
<1> QED BY <1>3, <1>4, <1>5, <1>6, <1>7, <1>8, <1>9, <1>10 DEF Token!Change

\* One or two members of a set, in a row.
LEMMA Pairs ==
  ASSUME NEW S, NEW c \in S, NEW d \in S
  PROVE  <<c>> \in Seq(S) /\ <<c, d>> \in Seq(S)
OBVIOUS

\* A token as sent bears the signature of a stamp.
LEMMA SealedSent ==
  ASSUME TokenInv, Token!Send
  PROVE  Sealed(token', stamped) /\ token' # Token!NoToken
<1>1. PICK s \in stamped, by \in {"key id", "issuer"} :
        \E carried \in Token!Carried(s.cert) : token' = Token!Sent(s, by, carried)
  BY DEF Token!Send
<1>2. PICK carried \in Token!Carried(s.cert) : token' = Token!Sent(s, by, carried)
  BY <1>1
<1>3. s.cert \in Token!Certs
  BY DEF TokenInv, StampedRight, Token!Certs
<1>4. carried \in Seq(Token!Certs)
  <2>1. carried = <<s.cert>> \/ \E d \in OwnCerts : carried = <<s.cert, d>> \/ carried = <<d, s.cert>>
    BY DEF Token!Carried
  <2>2. \A c, d \in Token!Certs : <<c>> \in Seq(Token!Certs) /\ <<c, d>> \in Seq(Token!Certs)
    BY Pairs
  <2>3. OwnCerts \subseteq Token!Certs
    BY DEF Token!Certs
  <2> QED BY <1>3, <2>1, <2>2, <2>3
<1>5. DOMAIN token' = TokenMembers /\ token'.certs = carried /\ token'.sig = s.sig
  BY <1>2 DEF Token!Sent, TokenMembers
<1>6. DOMAIN Token!NoToken = {"signers"} /\ "sig" \in TokenMembers
  BY DEF Token!NoToken, TokenMembers
<1>7. token' # Token!NoToken
  <2>1. "sig" \notin {"signers"}
    OBVIOUS
  <2> QED BY <1>5, <1>6, <2>1
<1>8. Sealed(token', stamped)
  BY <1>4, <1>5 DEF Sealed
<1> QED BY <1>7, <1>8

\* Stamping, sending, changing and reading keep the invariant.
LEMMA TokenKept == TokenInv /\ [Token!TokenNext]_tokenVars => TokenInv'
<1> SUFFICES ASSUME TokenInv, [Token!TokenNext]_tokenVars PROVE TokenInv'
  OBVIOUS
<1>1. CASE Token!Stamp
  <2>1. token = Token!NoToken /\ UNCHANGED <<token, about, result>>
    BY <1>1 DEF Token!Stamp
  <2> DEFINE New(link, time, c, h) ==
               [info |-> Token!Info("sha256", link, time), digest |-> h.digest,
                attrs |-> <<Token!Digest(h.digest, Token!Info("sha256", link, time))>>,
                alg |-> h.alg, cert |-> c,
                sig |-> Token!Sign(c.key, Token!Scheme(h.alg, h.digest),
                                   <<Token!Digest(h.digest, Token!Info("sha256", link, time))>>)]
  <2>2. PICK link \in Links, time \in 0 .. MaxTime, c \in OwnCerts, h \in Habits :
          /\ time \in c.from .. c.until /\ h.alg.key = c.kind
          /\ stamped' = stamped \union {New(link, time, c, h)}
    BY <1>1, Zenon DEF Token!Stamp
  <2>3. StampedRight(New(link, time, c, h))
    BY <2>2, AuthorityAssumption DEF StampedRight, Token!Info
  <2> HIDE DEF New
  <2>4. \A t \in stamped' : StampedRight(t)
    BY <2>2, <2>3 DEF TokenInv
  <2> QED BY <2>1, <2>4 DEF TokenInv
<1>2. CASE Token!Send
  <2>1. token = Token!NoToken /\ UNCHANGED <<stamped, about, result>>
    BY <1>2 DEF Token!Send
  <2>2. about = "nothing"
    BY <2>1 DEF TokenInv
  <2> QED BY <1>2, <2>1, <2>2, SealedSent DEF TokenInv
<1>3. CASE Token!Change
  <2>1. about = "nothing" /\ UNCHANGED <<stamped, about, result>>
    BY <1>3, ZenonT(40) DEF Token!Change, Token!Reorder, Token!AddCertificate, Token!DropCertificate,
                Token!Readdress, Token!Rename, Token!Transplant, Token!AddSigner,
                Token!SignAnew, Token!Edit
  <2>2. Sealed(token', stamped)
    BY <1>3, SealedChanged
  <2> QED BY <2>1, <2>2 DEF TokenInv
<1>4. CASE Token!Read
  <2>1. /\ UNCHANGED <<stamped, token>> /\ token # Token!NoToken /\ about' # "nothing"
        /\ result' = Answer(token, about')
    BY <1>4, LinksAssumption DEF Token!Read, Answer
  <2>2. result' = Answer(token', about')
    BY <2>1
  <2> QED BY <2>1, <2>2 DEF TokenInv
<1>5. CASE UNCHANGED tokenVars
  BY <1>5 DEF tokenVars, TokenInv
<1> QED BY <1>1, <1>2, <1>3, <1>4, <1>5 DEF Token!TokenNext

\* A call of another reader leaves the token alone.
LEMMA TokenStep ==
  [ReadersNext]_<<call, vars, textVars, derVars, objVars, tokenVars>> =>
    [Token!TokenNext]_tokenVars
BY DEF ReadersNext, CallFold, CallText, CallDer, CallObject, CallToken

\* So it holds whatever is called.
LEMMA TokenInvHolds == ReadersSpec => []TokenInv
<1>1. ReadersInit => TokenInv
  BY TokenStart DEF ReadersInit
<1> QED BY <1>1, TokenKept, TokenStep, PTL DEF ReadersSpec

\* A result is the answer about the token and the link.
LEMMA ResultIs ==
  ASSUME TokenInv, result.ok
  PROVE  about # "nothing" /\ Token!Verify(token, about)
         /\ result.signer = Token!SignerCertificate(token)
<1> DEFINE yes == TRUE
           no == FALSE
<1>1. [ok |-> no].ok = no
  OBVIOUS
<1>2. Token!NoResult.ok = FALSE
  BY DEF Token!NoResult
<1>3. about # "nothing" /\ Token!Verify(token, about)
  BY <1>2, Zenon DEF TokenInv, Answer
<1> QED BY <1>3 DEF TokenInv, Answer

\* Whatever parts of genuine tokens are put together, and whatever certificates
\* and signatures are put beside them, a token reported under a key of the
\* authority is about a link the authority stamped at that time.
THEOREM TokensAreStamped == ReadersSpec => []TokenMeansStamped
<1>1. TokenInv => TokenMeansStamped
  <2> SUFFICES ASSUME TokenInv, result.ok, NEW o \in OwnCerts, o.key = result.signer.key
               PROVE  \E t \in stamped : t.info = Token!Info("sha256", about, token.info.time)
    BY DEF TokenMeansStamped, Token!TokenMeansStamped
  <2> DEFINE c == Token!SignerCertificate(token)
  <2>1. about # "nothing" /\ Token!Verify(token, about) /\ result.signer = c
    BY ResultIs
  <2>2. Sealed(token, stamped)
    BY <2>1 DEF TokenInv
  <2>3. /\ token.info.imprint = about
        /\ Token!CommitsTo(token) /\ \E scheme : token.sig = Token!Sign(c.key, scheme, token.attrs)
    BY <2>1 DEF Token!Verify, Token!VerifySignature, Token!CheckSignature
  <2>4. token.sig.key = o.key /\ token.sig.over = token.attrs
    BY <2>1, <2>3 DEF Token!Sign
  <2>5. PICK t \in stamped : token.sig = t.sig
    BY <2>2, <2>4 DEF Sealed, OwnKey
  <2>6. StampedRight(t)
    BY DEF TokenInv
  <2>7. token.attrs = <<Token!Digest(t.digest, t.info)>>
    BY <2>4, <2>5, <2>6 DEF StampedRight, Token!Sign
  <2>8. Token!Digest(t.digest, t.info) \in Token!ToSet(token.attrs)
    BY <2>7 DEF Token!ToSet
  <2>9. Token!Digest(t.digest, t.info) = Token!Digest(token.digest, token.info)
    BY <2>3, <2>8 DEF Token!CommitsTo
  <2>10. t.info = token.info
    BY <2>9 DEF Token!Digest
  <2> QED BY <2>3, <2>6, <2>10 DEF StampedRight
<1> QED BY <1>1, TokenInvHolds, PTL

-----------------------------------------------------------------------------
(* A token as it was sent. *)

\* The elements of the shortest sequences.
LEMMA OneElement == ASSUME NEW e PROVE <<e>> # << >> /\ \A x \in Token!ToSet(<<e>>) : x = e
BY DEF Token!ToSet

LEMMA NoElement == \A x : x \notin Token!ToSet(<< >>)
<1>1. DOMAIN << >> = {}
  BY EmptySeq
<1> QED BY <1>1 DEF Token!ToSet

\* The members of a signature algorithm.
LEMMA KnownIs == \A a \in Token!Known : DOMAIN a = {"key", "hash"}
BY DEF Token!Known

\* TokenRead counts as this module does.
LEMMA SameCount == \A S : Token!Cardinality(S) = Cardinality(S)
BY Zenon DEF Token!Cardinality, Cardinality

\* The elements of a sequence are finitely many.
LEMMA ElementsFinite ==
  ASSUME NEW S, NEW s \in Seq(S)
  PROVE  IsFiniteSet(Token!ToSet(s))
<1> DEFINE T == Token!ToSet(s)
           n == Len(s)
<1>1. n \in Nat /\ DOMAIN s = 1 .. n /\ s = [i \in 1 .. n |-> s[i]]
  BY LenProperties
<1>2. \A t \in T : \E i \in 1 .. n : s[i] = t
  BY <1>1 DEF Token!ToSet
<1>3. \A i \in 1 .. n : s[i] \in T
  BY <1>1 DEF Token!ToSet
<1> HIDE DEF T, n
<1>4. s \in [1 .. n -> T]
  BY <1>1, <1>3
<1>5. s \in Surjection(1 .. n, T)
  BY <1>2, <1>4 DEF Surjection
<1>6. IsFiniteSet(1 .. n)
  <2>1. 1 \in Int /\ n \in Int
    BY <1>1
  <2> QED BY <2>1, FS_Interval
<1> QED BY <1>5, <1>6, FS_Surjection DEF T

\* The first certificate an identifier names is one it names.
LEMMA NamedBy ==
  ASSUME NEW t, t.certs \in Seq(Token!Certs), NEW c \in Token!ToSet(t.certs), Token!Names(t.sid, c)
  PROVE  /\ Token!CertificateNamedBy(t) # 0
         /\ Token!SignerCertificate(t) \in Token!ToSet(t.certs)
         /\ Token!Names(t.sid, Token!SignerCertificate(t))
<1> DEFINE I == {i \in 1 .. Len(t.certs) : Token!Names(t.sid, t.certs[i])}
<1>1. Len(t.certs) \in Nat /\ DOMAIN t.certs = 1 .. Len(t.certs)
  BY LenProperties
<1>2. Token!CertificateNamedBy(t) = IF I # {} THEN Token!Min(I) ELSE 0
  BY DEF Token!CertificateNamedBy, Token!SelectInSeq
<1>3. PICK j \in DOMAIN t.certs : c = t.certs[j]
  BY DEF Token!ToSet
<1>4. I # {} /\ I \subseteq Nat
  BY <1>1, <1>3
<1> HIDE DEF I
<1>5. \E m \in I : \A y \in I : m <= y
  BY <1>4, Least
<1>6. Token!Min(I) \in I
  BY <1>5 DEF Token!Min
<1>7. Token!CertificateNamedBy(t) \in I
  BY <1>2, <1>4, <1>6
<1>8. \A i \in I : i # 0 /\ t.certs[i] \in Token!ToSet(t.certs) /\ Token!Names(t.sid, t.certs[i])
  BY <1>1 DEF I, Token!ToSet
<1> QED BY <1>7, <1>8 DEF Token!SignerCertificate

\* An identifier made for a certificate names those it would be made the same for.
LEMMA NamesIs ==
  ASSUME NEW c, NEW d, NEW by \in {"key id", "issuer"}
  PROVE  Token!Names(Token!Sid(c, by), d) <=> Token!Sid(d, by) = Token!Sid(c, by)
<1>1. CASE by = "key id"
  BY <1>1 DEF Token!Names, Token!Sid
<1>2. CASE by = "issuer"
  BY <1>2 DEF Token!Names, Token!Sid
<1> QED BY <1>1, <1>2

\* A token as the authority sent it is read under the certificate it was stamped
\* with, however its signer is named and whatever readable certificates stand
\* beside that one, in any order, as long as they are not named as it is.
THEOREM HonestTokensPass == ReadersSpec => []HonestTokenVerifies
<1>1. TokenInv => HonestTokenVerifies
  <2> SUFFICES ASSUME TokenInv, about # "nothing", token.info.imprint = about,
                      \E s \in stamped, by \in {"key id", "issuer"} :
                        /\ token = Token!Sent(s, by, token.certs)
                        /\ s.cert \in Token!ToSet(token.certs),
                      \A c \in Token!ToSet(token.certs) : c.torn # "tbs",
                      Cardinality({c \in Token!ToSet(token.certs) :
                                     Token!Sid(c, token.sid.by) = token.sid}) = 1
               PROVE  result.ok
    BY SameCount, Zenon DEF HonestTokenVerifies, Token!HonestTokenVerifies
  <2> PICK s \in stamped, by \in {"key id", "issuer"} :
        token = Token!Sent(s, by, token.certs) /\ s.cert \in Token!ToSet(token.certs)
    OBVIOUS
  <2> DEFINE Named == {c \in Token!ToSet(token.certs) : Token!Sid(c, token.sid.by) = token.sid}
             d == Token!SignerCertificate(token)
  <2>1. StampedRight(s)
    BY DEF TokenInv
  <2>2. /\ token.info = s.info /\ token.signers = 1 /\ token.sid = Token!Sid(s.cert, by)
        /\ token.digest = s.digest /\ token.attrs = s.attrs /\ token.alg = s.alg
        /\ token.sig = s.sig /\ token.sid.by = by
    <3>1. Token!Sid(s.cert, by).by = by
      BY DEF Token!Sid
    <3> DEFINE certs == token.certs
               u == Token!Sent(s, by, certs)
    <3>2. /\ u.info = s.info /\ u.signers = 1 /\ u.sid = Token!Sid(s.cert, by)
          /\ u.digest = s.digest /\ u.attrs = s.attrs /\ u.alg = s.alg /\ u.sig = s.sig
      <4> HIDE DEF certs
      <4> QED BY DEF Token!Sent
    <3>3. u = token
      OBVIOUS
    <3> HIDE DEF u
    <3> QED BY <3>1, <3>2, <3>3
  <2>3. token.certs \in Seq(Token!Certs)
    <3>1. token # Token!NoToken
      BY DEF TokenInv
    <3> QED BY <3>1 DEF TokenInv, Sealed
  <2>4. \A c : Token!Names(token.sid, c) <=> Token!Sid(c, by) = token.sid
    <3>1. \A c : Token!Names(Token!Sid(s.cert, by), c) <=> Token!Sid(c, by) = Token!Sid(s.cert, by)
      BY NamesIs
    <3> QED BY <2>2, <3>1, Zenon
  <2>5. Token!Names(token.sid, s.cert)
    BY <2>2, <2>4
  <2>6. /\ Token!CertificateNamedBy(token) # 0
        /\ d \in Token!ToSet(token.certs) /\ Token!Names(token.sid, d)
    BY <2>3, <2>5, NamedBy
  <2>7. d = s.cert
    <3>1. d \in Named /\ s.cert \in Named
      BY <2>2, <2>4, <2>5, <2>6
    <3>2. Cardinality(Named) = 1
      OBVIOUS
    <3>3. Named \in SUBSET Token!ToSet(token.certs)
      OBVIOUS
    <3> HIDE DEF Named, d
    <3>4. IsFiniteSet(Named)
      BY <2>3, <3>3, ElementsFinite, FS_Subset
    <3>5. PICK x : Named = {x}
      BY <3>2, <3>4, FS_Singleton
    <3> QED BY <3>1, <3>5
  <2>8. /\ d.version = 3 /\ d.stamps = TRUE /\ d.torn = "no"
        /\ token.info.time \in d.from .. d.until
    BY <2>1, <2>2, <2>7, AuthorityAssumption DEF StampedRight
  <2> HIDE DEF d
  <2>9. Token!VerifySignature(token, d)
    <3>1. Token!CommitsTo(token)
      <4>1. token.attrs = <<Token!Digest(token.digest, token.info)>>
        BY <2>1, <2>2 DEF StampedRight
      <4> DEFINE e == Token!Digest(token.digest, token.info)
      <4>3. <<e>> # << >> /\ \A x \in Token!ToSet(<<e>>) : x = e
        BY OneElement
      <4>2. token.attrs # << >> /\ \A x \in Token!ToSet(token.attrs) : x = e
        <5> HIDE DEF e
        <5> QED BY <4>1, <4>3, Zenon DEF e
      <4> QED BY <4>2 DEF Token!CommitsTo
    <3>2. Token!Scheme(token.alg, token.digest).key = d.kind
      <4>1. token.alg.key = d.kind /\ token.alg \in Token!Known
        BY <2>1, <2>2, <2>7 DEF StampedRight
      <4>2. \A a \in Token!Known : DOMAIN a = {"key", "hash"}
        BY KnownIs
      <4> QED BY <4>1, <4>2 DEF Token!Scheme
    <3>3. token.sig = Token!Sign(d.key, Token!Scheme(token.alg, token.digest), token.attrs)
      BY <2>1, <2>2, <2>7 DEF StampedRight
    <3>4. token.digest \in Token!HashFor /\ token.alg \in Token!Known
      BY <2>1, <2>2 DEF StampedRight
    <3> QED BY <3>1, <3>2, <3>3, <3>4 DEF Token!VerifySignature, Token!CheckSignature
  <2>10. Token!ReadCertificates(token)
    <3>1. token.certs # << >>
      BY NoElement
    <3> QED BY <3>1 DEF Token!ReadCertificates
  <2>11. token.info.alg = "sha256"
    <3>1. \A i, l : Token!Info("sha256", i, l).alg = "sha256"
      BY DEF Token!Info
    <3>2. s.info = Token!Info("sha256", s.info.imprint, s.info.time)
      BY <2>1 DEF StampedRight
    <3>3. s.info.alg = "sha256"
      BY <3>1, <3>2, Zenon
    <3> QED BY <2>2, <3>3, Zenon
  <2>12. Token!Verify(token, about)
    BY <2>2, <2>6, <2>8, <2>9, <2>10, <2>11 DEF Token!Verify, d
  <2>13. result = [ok |-> TRUE, signer |-> d]
    BY <2>12, Zenon DEF TokenInv, Answer, d
  <2> QED BY <2>13, Zenon
<1> QED BY <1>1, TokenInvHolds, PTL

-----------------------------------------------------------------------------
(* The folds of a proof. *)

\* Logs are sequences of leaves, and none is empty.
LEMMA LogsAre ==
  ASSUME NEW l \in Logs \union Others
  PROVE  l \in Seq(Range(l)) /\ Len(l) \in Nat /\ 0 < Len(l) /\ DOMAIN l = 1 .. Len(l)
<1>1. l \in Seq(Range(l)) /\ l # << >>
  BY LogsAssumption
<1> DEFINE S == Range(l)
<1> HIDE DEF S
<1>2. l \in Seq(S) /\ l # << >>
  BY <1>1 DEF S
<1>3. Len(l) \in Nat /\ 0 < Len(l) /\ DOMAIN l = 1 .. Len(l)
  BY <1>2, EmptySeq
<1> QED BY <1>1, <1>3

LEMMA PrefixIs ==
  ASSUME NEW a \in Logs \union Others, NEW b \in Logs \union Others
  PROVE  IsPrefix(a, b) <=> Len(a) <= Len(b) /\ Begins(a, b)
<1> DEFINE S == Range(a)
           T == Range(b)
           k == Len(a)
           x == SubSeq(a, 1, k)
           y == SubSeq(b, 1, k)
<1>1. a \in Seq(S) /\ k \in Nat /\ 0 < k /\ b \in Seq(T) /\ Len(b) \in Nat
  BY LogsAre
<1> HIDE DEF S, T, k
<1> SUFFICES ASSUME k <= Len(b) PROVE x = y <=> \A i \in 1 .. k : a[i] = b[i]
  BY DEF IsPrefix, Begins, k
<1>2. /\ x \in Seq(S) /\ Len(x) = k /\ \A i \in 1 .. k : x[i] = a[i]
  <2>1. \A i \in 1 .. k : a[i] \in S
    BY <1>1 DEF k
  <2>2. /\ x \in Seq(S) /\ Len(x) = (IF 1 <= k THEN k - 1 + 1 ELSE 0)
        /\ \A i \in 1 .. k - 1 + 1 : x[i] = a[1 + i - 1]
    BY <1>1, <2>1, SubSeqProperties
  <2> HIDE DEF x
  <2> QED BY <1>1, <2>2
<1>3. /\ y \in Seq(T) /\ Len(y) = k /\ \A i \in 1 .. k : y[i] = b[i]
  <2>1. \A i \in 1 .. k : b[i] \in T
    BY <1>1
  <2>2. /\ y \in Seq(T) /\ Len(y) = (IF 1 <= k THEN k - 1 + 1 ELSE 0)
        /\ \A i \in 1 .. k - 1 + 1 : y[i] = b[1 + i - 1]
    BY <1>1, <2>1, SubSeqProperties
  <2> HIDE DEF y
  <2> QED BY <1>1, <2>2
<1> HIDE DEF x, y
<1>4. x = [i \in 1 .. k |-> x[i]] /\ y = [i \in 1 .. k |-> y[i]]
  BY <1>2, <1>3
<1> QED BY <1>2, <1>3, <1>4

\* The hashes a path is made of.
Pieces(l) == Hashes(l) \union Nodes(l) \union {Stray}

\* A fold that asks about a leaf.
OfLeaf(l, q, w, p) ==
  /\ q.kind = "inclusion" /\ q.index \in Nat /\ q.size \in Nat /\ q.index < q.size
  /\ LeafOf(w.second, q.data, l)
  /\ q.size = Len(l) => Audited(l, q.index, q.data, w, p)

\* One that asks about growth, of a log that exists and is no longer.
Grows(q) ==
  /\ q.kind = "consistency" /\ q.earlier \in Logs \union Others
  /\ q.first = Len(q.earlier) /\ q.second \in Nat /\ 0 < q.first /\ q.first < q.second
OfGrowth(l, q, w, p) ==
  /\ Grows(q) /\ GrownOf(w.first, w.second, q.earlier, l)
  /\ q.second = Len(l) => Growing(q.earlier, l, w, p)

FoldInv ==
  /\ log \in Logs /\ path \in Seq(Pieces(log))
  /\ stage = "idle" => path = << >>
  /\ stage = "fold" => OfLeaf(log, asked, walk, path) \/ OfGrowth(log, asked, walk, path)
  /\ stage = "seed" =>
       path = << >> /\ Grows(asked) /\ Boundary(asked.first - 1, asked.second - 1).fn # 0
  /\ stage = "compare" =>
       /\ path = << >> /\ asked.kind = "consistency" /\ asked.earlier \in Logs \union Others
       /\ asked.first = asked.second
  /\ InclusionDecided /\ GrowthDecided

\* The first step of a fold.
LEMMA LeafBegins ==
  ASSUME NEW l \in Logs, NEW q, q.kind = "inclusion", q.index \in Nat, q.size \in Nat,
         q.index < q.size
  PROVE  OfLeaf(l, q, InclusionWalk(q.data, q.index, q.size), << >>)
<1> DEFINE m == q.index
           n == q.size
           d == q.data
           w == InclusionWalk(d, m, n)
<1>1. Len(l) \in Nat
  BY LogsAre
<1>2. w.second = LeafHash(d)
  BY DEF InclusionWalk, WalkFrom
<1>3. LeafOf(LeafHash(d), d, l)
  <2> HIDE DEF d
  <2> QED BY <1>1, LeafOfStart
<1>4. ASSUME n = Len(l) PROVE Audited(l, m, d, w, << >>)
  <2>1. m \in Nat /\ m < Len(l)
    BY <1>4
  <2>2. Audited(l, m, d, InclusionWalk(d, m, Len(l)), << >>)
    <3> HIDE DEF m, d
    <3> QED BY <1>1, <2>1, AuditStart
  <2> QED BY <1>4, <2>2
<1> HIDE DEF w
<1> QED BY <1>2, <1>3, <1>4 DEF OfLeaf, w

LEMMA GrowthBegins ==
  ASSUME NEW l \in Logs, NEW q, Grows(q), NEW at, at = Boundary(q.first - 1, q.second - 1)
  PROVE  /\ at.fn = 0 => OfGrowth(l, q, WalkFrom(at, Root(q.earlier)), << >>)
         /\ at.fn # 0 => \A h : OfGrowth(l, q, WalkFrom(at, h), <<h>>)
         /\ q.second = Len(l) => ConsistencyProof(q.first, l) # << >>
<1> DEFINE a == q.earlier
<1>1. a \in Logs \union Others /\ q.first = Len(a) /\ q.first < q.second /\ q.second \in Nat
  BY DEF Grows
<1>2. Len(a) \in Nat /\ 0 < Len(a) /\ Len(l) \in Nat
  BY <1>1, LogsAre
<1> HIDE DEF a
<1>3. ASSUME NEW h PROVE GrownOf(WalkFrom(at, h).first, WalkFrom(at, h).second, a, l)
  <2>1. WalkFrom(at, h).first = h /\ WalkFrom(at, h).second = h
    BY DEF WalkFrom
  <2> QED BY <1>2, <2>1, GrownOfStart
<1>4. ASSUME q.second = Len(l)
      PROVE  /\ at.fn = 0 => Growing(a, l, WalkFrom(at, Root(a)), << >>)
             /\ at.fn # 0 => \A h : Growing(a, l, WalkFrom(at, h), <<h>>)
             /\ SubProofs(Len(a), l)[<<0, Len(l)>>] # << >>
  <2>1. at = Boundary(Len(a) - 1, Len(l) - 1) /\ Len(a) < Len(l)
    BY <1>1, <1>4
  <2> QED BY <1>2, <2>1, GrowStart
<1>5. q.second = Len(l) => ConsistencyProof(q.first, l) # << >>
  BY <1>1, <1>4 DEF ConsistencyProof
<1>6. at.fn = 0 => OfGrowth(l, q, WalkFrom(at, Root(a)), << >>)
  <2> DEFINE w == WalkFrom(at, Root(a))
  <2>1. GrownOf(w.first, w.second, a, l)
    BY <1>3
  <2> HIDE DEF w
  <2> QED BY <1>4, <2>1 DEF OfGrowth, a, w
<1>7. at.fn # 0 => \A h : OfGrowth(l, q, WalkFrom(at, h), <<h>>)
  <2> SUFFICES ASSUME at.fn # 0, NEW h PROVE OfGrowth(l, q, WalkFrom(at, h), <<h>>)
    OBVIOUS
  <2> DEFINE w == WalkFrom(at, h)
  <2>1. GrownOf(w.first, w.second, a, l)
    BY <1>3
  <2>2. q.second = Len(l) => Growing(a, l, w, <<h>>)
    BY <1>4
  <2> HIDE DEF w
  <2> QED BY <2>1, <2>2 DEF OfGrowth, a, w
<1> QED BY <1>5, <1>6, <1>7 DEF a

\* One hash more.
LEMMA LeafFolds ==
  ASSUME NEW l \in Logs, NEW q, NEW w, NEW p \in Seq(Pieces(l)), NEW h \in Pieces(l),
         OfLeaf(l, q, w, p), w.sn # 0, NEW x, x = FoldStep(w, h)
  PROVE  OfLeaf(l, q, x, Append(p, h))
<1> DEFINE d == q.data
           m == q.index
           U == Pieces(l)
<1>1. Len(l) \in Nat /\ Hashes(l) \subseteq U
  BY LogsAre DEF Pieces
<1>2. LeafOf(w.second, d, l) /\ m \in Nat /\ (q.size = Len(l) => Audited(l, m, d, w, p))
  BY DEF OfLeaf
<1> HIDE DEF d, m, U
<1>3. LeafOf(x.second, d, l)
  BY <1>1, <1>2, LeafOfFold
<1>4. ASSUME q.size = Len(l) PROVE Audited(l, m, d, x, Append(p, h))
  <2>1. p \in Seq(U) /\ h \in U
    BY DEF U
  <2>2. Audited(l, m, d, w, p)
    BY <1>2, <1>4
  <2> QED BY <1>1, <1>2, <2>1, <2>2, AuditStep
<1> QED BY <1>3, <1>4 DEF OfLeaf, d, m

LEMMA GrowthFolds ==
  ASSUME NEW l \in Logs, NEW q, NEW w, NEW p \in Seq(Pieces(l)), NEW h \in Pieces(l),
         OfGrowth(l, q, w, p), w.sn # 0, NEW x, x = FoldStep(w, h)
  PROVE  OfGrowth(l, q, x, Append(p, h))
<1> DEFINE a == q.earlier
           U == Pieces(l)
<1>1. Len(l) \in Nat /\ Hashes(l) \subseteq U
  BY LogsAre DEF Pieces
<1>2. /\ GrownOf(w.first, w.second, a, l) /\ a \in Logs \union Others
      /\ q.second = Len(l) => Growing(a, l, w, p)
  BY DEF OfGrowth, Grows
<1> HIDE DEF a, U
<1>5. Len(a) \in Nat /\ 0 < Len(a)
  BY <1>2, LogsAre
<1>3. GrownOf(x.first, x.second, a, l)
  BY <1>1, <1>2, <1>5, GrownOfFold
<1>4. ASSUME q.second = Len(l) PROVE Growing(a, l, x, Append(p, h))
  <2>1. p \in Seq(U) /\ h \in U
    BY DEF U
  <2>2. Growing(a, l, w, p)
    BY <1>2, <1>4
  <2> QED BY <1>1, <1>5, <2>1, <2>2, GrowStep
<1> QED BY <1>3, <1>4 DEF OfGrowth, a

\* What the path has to be.
IsLeaf(l, q, p) ==
  q.index < Len(l) /\ q.data = l[q.index + 1] /\ p = InclusionProof(q.index, l)
IsGrowth(l, q, p) == IsPrefix(q.earlier, l) /\ p = ConsistencyProof(q.first, l)

\* A hash read where the walk has come to the root is one too many.
LEMMA LeafEnds ==
  ASSUME NEW l \in Logs, NEW q, NEW w, NEW p \in Seq(Pieces(l)), OfLeaf(l, q, w, p)
  PROVE  LET yes == w.sn = 0 /\ w.second = Root(l) IN
         /\ yes => q.data \in Range(l)
         /\ q.size = Len(l) => (yes <=> IsLeaf(l, q, p))
         /\ q.size = Len(l) /\ w.sn = 0 => \A h \in Pieces(l) : ~IsLeaf(l, q, Append(p, h))
<1> DEFINE d == q.data
           m == q.index
           proof == InclusionProof(m, l)
<1>1. Len(l) \in Nat /\ 0 < Len(l) /\ DOMAIN l = 1 .. Len(l)
  BY LogsAre
<1>2. LeafOf(w.second, d, l) /\ m \in Nat /\ (q.size = Len(l) => Audited(l, m, d, w, p))
  BY DEF OfLeaf
<1> HIDE DEF d, m
<1>3. ASSUME w.second = Root(l) PROVE d \in Range(l)
  <2>1. LeafOf(Root(l), d, l)
    BY <1>2, <1>3
  <2>2. \E i \in 1 .. Len(l) : l[i] = d
    BY <1>1, <2>1, LeafOfEnd
  <2> QED BY <1>1, <2>2 DEF Range
<1>4. ASSUME q.size = Len(l)
      PROVE  /\ m < Len(l) /\ proof \in Seq(Hashes(l))
             /\ w.sn # 0 => Len(p) < Len(proof)
             /\ w.sn = 0 => Len(p) = Len(proof)
             /\ w.sn = 0 /\ w.second = Root(l) => p = proof /\ d = l[m + 1]
             /\ w.sn = 0 /\ p = proof /\ d = l[m + 1] => w.second = Root(l)
  <2>1. Audited(l, m, d, w, p)
    BY <1>2, <1>4
  <2> QED BY <1>1, <1>2, <2>1, AuditEnd
<1>5. Len(p) \in Nat
  OBVIOUS
<1>6. \A h \in Pieces(l) : Len(Append(p, h)) = Len(p) + 1
  BY AppendProperties
<1> HIDE DEF proof
<1>7. IsLeaf(l, q, p) <=> m < Len(l) /\ d = l[m + 1] /\ p = proof
  BY DEF IsLeaf, m, d, proof
<1>8. \A h \in Pieces(l) : IsLeaf(l, q, Append(p, h)) => Append(p, h) = proof
  BY DEF IsLeaf, m, proof
<1>9. ASSUME q.size = Len(l), w.sn = 0, NEW h \in Pieces(l) PROVE ~IsLeaf(l, q, Append(p, h))
  <2> DEFINE k == Len(p)
  <2>1. Len(proof) = k /\ Len(Append(p, h)) = k + 1
    BY <1>4, <1>6, <1>9
  <2>2. k + 1 # k
    BY <1>5
  <2> HIDE DEF k
  <2> QED BY <1>8, <1>9, <2>1, <2>2
<1>10. ASSUME q.size = Len(l) PROVE w.sn = 0 /\ w.second = Root(l) <=> IsLeaf(l, q, p)
  <2>1. ASSUME p = proof PROVE w.sn = 0
    <3> DEFINE k == Len(p)
    <3>1. w.sn # 0 => k < k
      BY <1>4, <1>10, <2>1
    <3>2. ~(k < k)
      BY <1>5
    <3> QED BY <3>1, <3>2
  <2> QED BY <1>4, <1>7, <1>10, <2>1
<1> QED BY <1>3, <1>9, <1>10 DEF d

LEMMA GrowthEnds ==
  ASSUME NEW l \in Logs, NEW q, NEW w, NEW p \in Seq(Pieces(l)), OfGrowth(l, q, w, p)
  PROVE  LET yes == w.sn = 0 /\ w.first = Root(q.earlier) /\ w.second = Root(l) IN
         /\ yes => IsPrefix(q.earlier, l)
         /\ q.second = Len(l) => (yes <=> IsGrowth(l, q, p))
         /\ q.second = Len(l) /\ w.sn = 0 => \A h \in Pieces(l) : ~IsGrowth(l, q, Append(p, h))
<1> DEFINE a == q.earlier
           proof == ConsistencyProof(Len(a), l)
<1>1. Len(l) \in Nat /\ 0 < Len(l)
  BY LogsAre
<1>2. /\ GrownOf(w.first, w.second, a, l) /\ a \in Logs \union Others
      /\ q.first = Len(a) /\ q.first < q.second
      /\ q.second = Len(l) => Growing(a, l, w, p)
  BY DEF OfGrowth, Grows
<1> HIDE DEF a
<1>5. Len(a) \in Nat /\ 0 < Len(a)
  BY <1>2, LogsAre
<1>6. IsPrefix(a, l) <=> Len(a) <= Len(l) /\ Begins(a, l)
  BY <1>2, PrefixIs
<1>3. ASSUME w.first = Root(a), w.second = Root(l) PROVE IsPrefix(a, l)
  <2>1. GrownOf(Root(a), Root(l), a, l)
    BY <1>2, <1>3
  <2> QED BY <1>1, <1>5, <1>6, <2>1, GrownOfEnd
<1>4. ASSUME q.second = Len(l)
      PROVE  /\ proof \in Seq(Hashes(l)) /\ Len(a) <= Len(l)
             /\ w.sn # 0 => Len(p) < Len(proof)
             /\ w.sn = 0 => Len(p) = Len(proof)
             /\ w.sn = 0 /\ w.first = Root(a) /\ w.second = Root(l) => p = proof /\ Begins(a, l)
             /\ w.sn = 0 /\ p = proof /\ Begins(a, l) => w.first = Root(a) /\ w.second = Root(l)
  <2>1. Growing(a, l, w, p) /\ Len(a) <= Len(l)
    BY <1>1, <1>2, <1>4, <1>5
  <2> QED BY <1>1, <1>5, <2>1, GrowEnd
<1>7. Len(p) \in Nat
  OBVIOUS
<1>8. \A h \in Pieces(l) : Len(Append(p, h)) = Len(p) + 1
  BY AppendProperties
<1> HIDE DEF proof
<1>9. IsGrowth(l, q, p) <=> IsPrefix(a, l) /\ p = proof
  BY <1>2 DEF IsGrowth, a, proof
<1>10. \A h \in Pieces(l) : IsGrowth(l, q, Append(p, h)) => Append(p, h) = proof
  BY <1>2 DEF IsGrowth, proof
<1>11. ASSUME q.second = Len(l), w.sn = 0, NEW h \in Pieces(l) PROVE ~IsGrowth(l, q, Append(p, h))
  <2> DEFINE k == Len(p)
  <2>1. Len(proof) = k /\ Len(Append(p, h)) = k + 1
    BY <1>4, <1>8, <1>11
  <2>2. k + 1 # k
    BY <1>7
  <2> HIDE DEF k
  <2> QED BY <1>10, <1>11, <2>1, <2>2
<1>12. ASSUME q.second = Len(l)
       PROVE  w.sn = 0 /\ w.first = Root(a) /\ w.second = Root(l) <=> IsGrowth(l, q, p)
  <2>1. ASSUME p = proof PROVE w.sn = 0
    <3> DEFINE k == Len(p)
    <3>1. w.sn # 0 => k < k
      BY <1>4, <1>12, <2>1
    <3>2. ~(k < k)
      BY <1>7
    <3> QED BY <3>1, <3>2
  <2> QED BY <1>4, <1>6, <1>9, <1>12, <2>1
<1> QED BY <1>3, <1>11, <1>12 DEF a

\* Equal sizes are decided by the roots alone.
LEMMA EqualsEnd ==
  ASSUME NEW l \in Logs, NEW q, q.earlier \in Logs \union Others, q.first = Len(q.earlier)
  PROVE  LET yes == Root(q.earlier) = Root(l) IN
         /\ yes => IsPrefix(q.earlier, l)
         /\ q.first = Len(l) => (yes <=> IsGrowth(l, q, << >>))
         /\ q.first = Len(l) => \A p : p # << >> => ~IsGrowth(l, q, p)
<1> DEFINE a == q.earlier
<1>1. Len(l) \in Nat /\ 0 < Len(l) /\ Len(a) \in Nat /\ 0 < Len(a)
  BY LogsAre
<1>2. IsPrefix(a, l) <=> Len(a) <= Len(l) /\ Begins(a, l)
  BY PrefixIs
<1>3. q.first = Len(l) => ConsistencyProof(q.first, l) = << >>
  BY <1>1, NoProof
<1>4. q.first = Len(a)
  OBVIOUS
<1> HIDE DEF a
<1>5. /\ Root(a) = Root(l) => Len(a) = Len(l) /\ Begins(a, l)
      /\ Len(a) = Len(l) /\ Begins(a, l) => Root(a) = Root(l)
  BY <1>1, OneSize
<1>6. \A p : IsGrowth(l, q, p) <=> IsPrefix(a, l) /\ p = ConsistencyProof(q.first, l)
  BY DEF IsGrowth, a
<1>7. Root(a) = Root(l) => IsPrefix(a, l)
  BY <1>1, <1>2, <1>5
<1>8. q.first = Len(l) => (Root(a) = Root(l) <=> IsGrowth(l, q, << >>))
  BY <1>1, <1>2, <1>3, <1>4, <1>5, <1>6
<1>9. q.first = Len(l) => \A p : p # << >> => ~IsGrowth(l, q, p)
  BY <1>3, <1>6
<1> QED BY <1>7, <1>8, <1>9 DEF a

\* An answer that says what it should.
LeafDecided(l, q, p, yes) ==
  /\ yes => q.data \in Range(l)
  /\ q.size = Len(l) => (yes <=> IsLeaf(l, q, p))
GrowthAnswered(l, q, p, yes) ==
  q.first = Len(q.earlier) =>
    /\ yes => IsPrefix(q.earlier, l)
    /\ q.second = Len(l) => (yes <=> IsGrowth(l, q, p))

\* A call that goes on, and one that returns.
LEMMA GoesOn ==
  ASSUME FoldInv, log' = log, path' \in Seq(Pieces(log)), stage' # "done", stage' # "idle",
         stage' = "fold" => OfLeaf(log, asked', walk', path') \/ OfGrowth(log, asked', walk', path'),
         stage' = "seed" =>
           path' = << >> /\ Grows(asked') /\ Boundary(asked'.first - 1, asked'.second - 1).fn # 0,
         stage' = "compare" =>
           /\ path' = << >> /\ asked'.kind = "consistency" /\ asked'.earlier \in Logs \union Others
           /\ asked'.first = asked'.second
  PROVE  FoldInv'
BY Zenon DEF FoldInv, InclusionDecided, GrowthDecided

LEMMA Returns ==
  ASSUME FoldInv, log' = log, path' \in Seq(Pieces(log)), stage' = "done",
         asked'.kind = "inclusion" => LeafDecided(log, asked', path', accepted'),
         asked'.kind = "consistency" => GrowthAnswered(log, asked', path', accepted')
  PROVE  FoldInv'
<1>1. stage' # "fold" /\ stage' # "idle" /\ stage' # "seed" /\ stage' # "compare"
  BY Zenon
<1>2. InclusionDecided'
  BY Zenon DEF InclusionDecided, LeafDecided, IsLeaf
<1>3. GrowthDecided'
  BY Zenon DEF GrowthDecided, GrowthAnswered, IsGrowth
<1> QED BY <1>1, <1>2, <1>3, Zenon DEF FoldInv

LEMMA FoldStart == Init => FoldInv
<1> SUFFICES ASSUME Init PROVE FoldInv
  OBVIOUS
<1>1. log \in Logs /\ stage = "idle" /\ path = << >>
  BY DEF Init
<1>2. << >> \in Seq(Pieces(log))
  OBVIOUS
<1> QED BY <1>1, <1>2 DEF FoldInv, InclusionDecided, GrowthDecided

\* A path read one hash further.
LEMMA ReadOn ==
  ASSUME FoldInv, NEW p \in Menu, Read(p)
  PROVE  path' = Append(path, p) /\ path' \in Seq(Pieces(log)) /\ p \in Pieces(log) /\ path' # << >>
<1>1. p \in Pieces(log) /\ path' = Append(path, p) /\ path \in Seq(Pieces(log))
  BY DEF Menu, Pieces, Read, FoldInv
<1>2. Append(path, p) \in Seq(Pieces(log)) /\ Append(path, p) # << >>
  BY <1>1, AppendProperties
<1> QED BY <1>1, <1>2

LEMMA InclusionAsked == FoldInv /\ AskInclusion => FoldInv'
<1> SUFFICES ASSUME FoldInv, AskInclusion PROVE FoldInv'
  OBVIOUS
<1> DEFINE Step(data, index, size) ==
      /\ asked' = [kind |-> "inclusion", data |-> data, index |-> index, size |-> size]
      /\ IF index < size THEN Begin(InclusionWalk(data, index, size))
                         ELSE Return(FALSE) /\ UNCHANGED walk
<1>10. PICK data : \E index \in 0 .. MaxSize, size \in 0 .. MaxSize : Step(data, index, size)
  BY DEF AskInclusion
<1>11. PICK index \in 0 .. MaxSize, size \in 0 .. MaxSize : Step(data, index, size)
  BY <1>10
<1>1. Step(data, index, size)
  BY <1>11
<1>2. path = << >> /\ log' = log /\ path' = path /\ log \in Logs /\ path' \in Seq(Pieces(log))
  BY DEF AskInclusion, FoldInv
<1>3. index \in Nat /\ size \in Nat
  BY FoldBounds
<1>4. /\ asked'.kind = "inclusion" /\ asked'.data = data /\ asked'.index = index
      /\ asked'.size = size
  BY <1>1
<1> DEFINE q == asked'
<1>5. CASE index < size
  <2>1. stage' = "fold" /\ walk' = InclusionWalk(data, index, size)
    BY <1>1, <1>5 DEF Begin
  <2>2. OfLeaf(log, q, InclusionWalk(q.data, q.index, q.size), << >>)
    <3> HIDE DEF q
    <3>1. q.kind = "inclusion" /\ q.index \in Nat /\ q.size \in Nat /\ q.index < q.size
      BY <1>3, <1>4, <1>5 DEF q
    <3> QED BY <1>2, <3>1, LeafBegins
  <2>3. OfLeaf(log, asked', walk', path')
    BY <1>2, <1>4, <2>1, <2>2
  <2> QED BY <1>2, <2>1, <2>3, GoesOn
<1>6. CASE ~(index < size)
  <2>1. stage' = "done" /\ accepted' = FALSE
    BY <1>1, <1>6 DEF Return
  <2>2. size = Len(log) => ~IsLeaf(log, asked', path')
    BY <1>4, <1>6 DEF IsLeaf
  <2>3. LeafDecided(log, asked', path', accepted')
    BY <1>4, <2>1, <2>2, Zenon DEF LeafDecided
  <2>4. asked'.kind # "consistency"
    BY <1>4
  <2> QED BY <1>2, <2>1, <2>3, <2>4, Returns
<1> QED BY <1>5, <1>6

LEMMA ConsistencyAsked == FoldInv /\ AskConsistency => FoldInv'
<1> SUFFICES ASSUME FoldInv, AskConsistency PROVE FoldInv'
  OBVIOUS
<1> DEFINE Step(a, first, second) ==
      /\ asked' = [kind |-> "consistency", earlier |-> a, first |-> first, second |-> second]
      /\ \/ first > second /\ Return(FALSE) /\ UNCHANGED walk
         \/ first = second /\ stage' = "compare" /\ UNCHANGED <<walk, accepted>>
         \/ 0 = first /\ first < second /\ Return(FALSE) /\ UNCHANGED walk
         \/ /\ 0 < first /\ first < second
            /\ LET at == Boundary(first - 1, second - 1) IN
               IF at.fn = 0 THEN Begin(WalkFrom(at, Root(a)))
                            ELSE stage' = "seed" /\ UNCHANGED <<walk, accepted>>
<1>10. PICK a \in Logs \union Others :
         \E first \in {0, Len(a)}, second \in 0 .. MaxSize : Step(a, first, second)
  BY DEF AskConsistency
<1>11. PICK first \in {0, Len(a)}, second \in 0 .. MaxSize : Step(a, first, second)
  BY <1>10
<1>1. Step(a, first, second)
  BY <1>11
<1>2. path = << >> /\ log' = log /\ path' = path /\ log \in Logs /\ path' \in Seq(Pieces(log))
  BY DEF AskConsistency, FoldInv
<1>3. second \in Nat /\ Len(a) \in Nat /\ 0 < Len(a) /\ first \in Nat /\ Len(log) \in Nat
  BY <1>2, FoldBounds, LogsAre
<1>4. /\ asked'.kind = "consistency" /\ asked'.earlier = a /\ asked'.first = first
      /\ asked'.second = second
  BY <1>1
<1>5. asked'.kind # "inclusion"
  BY <1>4
<1>6. CASE first > second /\ Return(FALSE)
  <2>1. stage' = "done" /\ accepted' = FALSE
    BY <1>6 DEF Return
  <2>2. asked'.first = Len(asked'.earlier) /\ asked'.second = Len(log) => ~IsGrowth(log, asked', path')
    BY <1>2, <1>3, <1>4, <1>6, PrefixIs DEF IsGrowth
  <2>3. GrowthAnswered(log, asked', path', accepted')
    BY <2>1, <2>2, Zenon DEF GrowthAnswered
  <2> QED BY <1>2, <1>5, <2>1, <2>3, Returns
<1>7. CASE first = second /\ stage' = "compare"
  BY <1>2, <1>4, <1>7, GoesOn
<1>8. CASE 0 = first /\ Return(FALSE)
  <2>1. stage' = "done" /\ accepted' = FALSE
    BY <1>8 DEF Return
  <2>2. asked'.first # Len(asked'.earlier)
    BY <1>3, <1>4, <1>8
  <2>3. GrowthAnswered(log, asked', path', accepted')
    BY <2>2, Zenon DEF GrowthAnswered
  <2> QED BY <1>2, <1>5, <2>1, <2>3, Returns
<1>9. CASE /\ 0 < first /\ first < second
           /\ LET at == Boundary(first - 1, second - 1) IN
              IF at.fn = 0 THEN Begin(WalkFrom(at, Root(a)))
                           ELSE stage' = "seed" /\ UNCHANGED <<walk, accepted>>
  <2> DEFINE q == asked'
             at == Boundary(first - 1, second - 1)
  <2>1. first = Len(a)
    BY <1>3, <1>9
  <2>2. Grows(q) /\ q.earlier = a /\ at = Boundary(q.first - 1, q.second - 1)
    BY <1>3, <1>4, <1>9, <2>1 DEF Grows
  <2>3. at.fn = 0 => OfGrowth(log, q, WalkFrom(at, Root(q.earlier)), << >>)
    <3> HIDE DEF q, at
    <3> QED BY <1>2, <2>2, GrowthBegins
  <2>4. CASE at.fn = 0
    <3>1. stage' = "fold" /\ walk' = WalkFrom(at, Root(a))
      BY <1>9, <2>4 DEF Begin
    <3>2. OfGrowth(log, asked', walk', path')
      BY <1>2, <2>2, <2>3, <2>4, <3>1
    <3> QED BY <1>2, <3>1, <3>2, GoesOn
  <2>5. CASE at.fn # 0
    <3>1. stage' = "seed"
      BY <1>9, <2>5
    <3> QED BY <1>2, <2>2, <2>5, <3>1, GoesOn
  <2> QED BY <2>4, <2>5
<1> QED BY <1>1, <1>6, <1>7, <1>8, <1>9

LEMMA Seeded == FoldInv /\ SeedProof => FoldInv'
<1> SUFFICES ASSUME FoldInv, SeedProof PROVE FoldInv'
  OBVIOUS
<1> DEFINE q == asked
           at == Boundary(q.first - 1, q.second - 1)
<1>1. PICK p \in Menu : Read(p) /\ Begin(WalkFrom(at, p))
  BY DEF SeedProof
<1>2. path = << >> /\ Grows(q) /\ at.fn # 0 /\ log' = log /\ asked' = q /\ log \in Logs
  BY DEF SeedProof, FoldInv
<1>3. path' = Append(path, p) /\ path' \in Seq(Pieces(log))
  BY <1>1, ReadOn
<1>4. stage' = "fold" /\ walk' = WalkFrom(at, p)
  BY <1>1 DEF Begin
<1>5. Append(<< >>, p) = <<p>>
  OBVIOUS
<1>6. OfGrowth(log, q, WalkFrom(at, p), <<p>>)
  <2>1. at = Boundary(q.first - 1, q.second - 1)
    OBVIOUS
  <2> HIDE DEF at, q
  <2> QED BY <1>2, <2>1, GrowthBegins
<1>7. path' = <<p>>
  BY <1>2, <1>3, <1>5
<1>8. OfGrowth(log, asked', walk', path')
  BY <1>2, <1>4, <1>6, <1>7
<1> HIDE DEF at
<1> QED BY <1>2, <1>3, <1>4, <1>8, GoesOn

LEMMA Folded == FoldInv /\ Fold => FoldInv'
<1> SUFFICES ASSUME FoldInv, Fold PROVE FoldInv'
  OBVIOUS
<1>1. PICK p \in Menu :
        /\ Read(p)
        /\ IF AtRoot(walk) THEN Return(FALSE) /\ UNCHANGED walk ELSE Begin(FoldStep(walk, p))
  BY DEF Fold
<1>2. /\ log' = log /\ asked' = asked /\ log \in Logs /\ path \in Seq(Pieces(log))
      /\ OfLeaf(log, asked, walk, path) \/ OfGrowth(log, asked, walk, path)
  BY DEF Fold, FoldInv
<1>3. path' = Append(path, p) /\ path' \in Seq(Pieces(log)) /\ p \in Pieces(log)
  BY <1>1, ReadOn
<1>4. CASE ~AtRoot(walk)
  <2>1. stage' = "fold" /\ walk' = FoldStep(walk, p) /\ walk.sn # 0
    BY <1>1, <1>4 DEF Begin, AtRoot
  <2>2. OfLeaf(log, asked, walk, path) => OfLeaf(log, asked', walk', path')
    BY <1>2, <1>3, <2>1, LeafFolds
  <2>3. OfGrowth(log, asked, walk, path) => OfGrowth(log, asked', walk', path')
    BY <1>2, <1>3, <2>1, GrowthFolds
  <2> QED BY <1>2, <1>3, <2>1, <2>2, <2>3, GoesOn
<1>5. CASE AtRoot(walk)
  <2>1. stage' = "done" /\ accepted' = FALSE /\ walk.sn = 0
    BY <1>1, <1>5 DEF Return, AtRoot
  <2>2. ASSUME asked'.kind = "inclusion" PROVE LeafDecided(log, asked', path', accepted')
    <3>1. OfLeaf(log, asked, walk, path)
      BY <1>2, <2>2 DEF OfGrowth, Grows
    <3>2. asked.size = Len(log) => \A h \in Pieces(log) : ~IsLeaf(log, asked, Append(path, h))
      BY <1>2, <2>1, <3>1, LeafEnds
    <3>3. asked.size = Len(log) => ~IsLeaf(log, asked', path')
      BY <1>2, <1>3, <3>2
    <3> QED BY <1>2, <2>1, <3>3, Zenon DEF LeafDecided
  <2>3. ASSUME asked'.kind = "consistency" PROVE GrowthAnswered(log, asked', path', accepted')
    <3>1. OfGrowth(log, asked, walk, path)
      BY <1>2, <2>3 DEF OfLeaf
    <3>2. asked.second = Len(log) => \A h \in Pieces(log) : ~IsGrowth(log, asked, Append(path, h))
      BY <1>2, <2>1, <3>1, GrowthEnds
    <3>3. asked.second = Len(log) => ~IsGrowth(log, asked', path')
      BY <1>2, <1>3, <3>2
    <3> QED BY <1>2, <2>1, <3>3, Zenon DEF GrowthAnswered
  <2> QED BY <1>2, <1>3, <2>1, <2>2, <2>3, Returns
<1> QED BY <1>4, <1>5

LEMMA PastEqual == FoldInv /\ ReadPastEqual => FoldInv'
<1> SUFFICES ASSUME FoldInv, ReadPastEqual PROVE FoldInv'
  OBVIOUS
<1>1. PICK p \in Menu : Read(p)
  BY DEF ReadPastEqual
<1>2. /\ log' = log /\ asked' = asked /\ log \in Logs /\ asked.kind = "consistency"
      /\ asked.earlier \in Logs \union Others /\ asked.first = asked.second
  BY DEF ReadPastEqual, FoldInv
<1>3. path' \in Seq(Pieces(log)) /\ path' # << >>
  BY <1>1, ReadOn
<1>4. stage' = "done" /\ accepted' = FALSE /\ asked'.kind # "inclusion"
  BY <1>2 DEF ReadPastEqual, Return
<1>5. asked.first = Len(asked.earlier) /\ asked.second = Len(log) => ~IsGrowth(log, asked', path')
  BY <1>2, <1>3, EqualsEnd
<1>6. GrowthAnswered(log, asked', path', accepted')
  BY <1>2, <1>4, <1>5, Zenon DEF GrowthAnswered
<1> QED BY <1>2, <1>3, <1>4, <1>6, Returns

LEMMA Ended == FoldInv /\ End => FoldInv'
<1> SUFFICES ASSUME FoldInv, End PROVE FoldInv'
  OBVIOUS
<1>1. /\ log' = log /\ asked' = asked /\ path' = path /\ log \in Logs
      /\ path \in Seq(Pieces(log))
  BY DEF End, FoldInv
<1>2. CASE stage = "fold" /\ asked.kind = "inclusion"
           /\ Return(AtRoot(walk) /\ walk.second = Root(log))
  <2> DEFINE yes == walk.sn = 0 /\ walk.second = Root(log)
  <2>1. stage' = "done" /\ accepted' = yes
    BY <1>2, Zenon DEF Return, AtRoot
  <2>2. OfLeaf(log, asked, walk, path)
    BY <1>2 DEF FoldInv, OfGrowth, Grows
  <2>3. /\ yes => asked.data \in Range(log)
        /\ asked.size = Len(log) => (yes <=> IsLeaf(log, asked, path))
    BY <1>1, <2>2, LeafEnds
  <2> HIDE DEF yes
  <2>4. LeafDecided(log, asked', path', accepted')
    BY <1>1, <2>1, <2>3, Zenon DEF LeafDecided
  <2>5. asked'.kind # "consistency" /\ stage' = "done"
    BY <1>1, <1>2, <2>1
  <2> QED BY <1>1, <2>4, <2>5, Returns
<1>3. CASE stage = "fold" /\ asked.kind = "consistency"
           /\ Return(/\ path # << >> /\ AtRoot(walk)
                     /\ walk.first = Root(asked.earlier) /\ walk.second = Root(log))
  <2> DEFINE yes == walk.sn = 0 /\ walk.first = Root(asked.earlier) /\ walk.second = Root(log)
             some == path # << >>
  <2>1. stage' = "done" /\ accepted' = (some /\ yes)
    BY <1>3, Zenon DEF Return, AtRoot
  <2>2. OfGrowth(log, asked, walk, path)
    BY <1>3 DEF FoldInv, OfLeaf
  <2>3. /\ yes => IsPrefix(asked.earlier, log)
        /\ asked.second = Len(log) => (yes <=> IsGrowth(log, asked, path))
    BY <1>1, <2>2, GrowthEnds
  <2>4. asked.second = Len(log) => (IsGrowth(log, asked, path) => some)
    <3> DEFINE q == asked
               at == Boundary(q.first - 1, q.second - 1)
    <3>1. Grows(q) /\ at = Boundary(q.first - 1, q.second - 1)
      BY <2>2 DEF OfGrowth
    <3>2. q.second = Len(log) => ConsistencyProof(q.first, log) # << >>
      <4> HIDE DEF q, at
      <4> QED BY <1>1, <3>1, GrowthBegins
    <3> QED BY <3>2 DEF IsGrowth
  <2> HIDE DEF yes, some
  <2>5. GrowthAnswered(log, asked', path', accepted')
    BY <1>1, <2>1, <2>3, <2>4, Zenon DEF GrowthAnswered
  <2>6. asked'.kind # "inclusion" /\ stage' = "done"
    BY <1>1, <1>3, <2>1
  <2> QED BY <1>1, <2>5, <2>6, Returns
<1>4. CASE stage = "seed" /\ Return(FALSE)
  <2>1. stage' = "done" /\ accepted' = FALSE
    BY <1>4 DEF Return
  <2>2. path = << >> /\ Grows(asked)
    BY <1>4 DEF FoldInv
  <2>3. asked.second = Len(log) => ~IsGrowth(log, asked', path')
    <3> DEFINE q == asked
               at == Boundary(q.first - 1, q.second - 1)
    <3>1. Grows(q) /\ at = Boundary(q.first - 1, q.second - 1)
      BY <2>2
    <3>2. q.second = Len(log) => ConsistencyProof(q.first, log) # << >>
      <4> HIDE DEF q, at
      <4> QED BY <1>1, <3>1, GrowthBegins
    <3> QED BY <1>1, <2>2, <3>2 DEF IsGrowth
  <2>4. GrowthAnswered(log, asked', path', accepted')
    BY <1>1, <2>1, <2>3, Zenon DEF GrowthAnswered
  <2>5. asked'.kind # "inclusion"
    BY <1>1, <2>2 DEF Grows
  <2> QED BY <1>1, <2>1, <2>4, <2>5, Returns
<1>5. CASE stage = "compare" /\ Return(Root(asked.earlier) = Root(log))
  <2> DEFINE yes == Root(asked.earlier) = Root(log)
  <2>1. stage' = "done" /\ accepted' = yes
    BY <1>5, Zenon DEF Return
  <2>2. /\ path = << >> /\ asked.kind = "consistency" /\ asked.earlier \in Logs \union Others
        /\ asked.first = asked.second
    BY <1>5 DEF FoldInv
  <2>3. asked.first = Len(asked.earlier) =>
          /\ yes => IsPrefix(asked.earlier, log)
          /\ asked.second = Len(log) => (yes <=> IsGrowth(log, asked, path))
    BY <1>1, <2>2, EqualsEnd
  <2> HIDE DEF yes
  <2>4. GrowthAnswered(log, asked', path', accepted')
    BY <1>1, <2>1, <2>3, Zenon DEF GrowthAnswered
  <2>5. asked'.kind # "inclusion" /\ stage' = "done"
    BY <1>1, <2>1, <2>2
  <2> QED BY <1>1, <2>4, <2>5, Returns
<1> QED BY <1>2, <1>3, <1>4, <1>5, Zenon DEF End

LEMMA FoldKept == FoldInv /\ [Next]_vars => FoldInv'
<1> SUFFICES ASSUME FoldInv, [Next]_vars PROVE FoldInv'
  OBVIOUS
<1>1. CASE AskInclusion
  BY <1>1, InclusionAsked
<1>2. CASE AskConsistency
  BY <1>2, ConsistencyAsked
<1>3. CASE SeedProof
  BY <1>3, Seeded
<1>4. CASE Fold
  BY <1>4, Folded
<1>5. CASE ReadPastEqual
  BY <1>5, PastEqual
<1>6. CASE End
  BY <1>6, Ended
<1>7. CASE UNCHANGED vars
  BY <1>7, Zenon DEF vars, FoldInv, InclusionDecided, GrowthDecided
<1> QED BY <1>1, <1>2, <1>3, <1>4, <1>5, <1>6, <1>7 DEF Next

\* A call of another reader leaves the fold alone.
LEMMA FoldAlone ==
  [ReadersNext]_<<call, vars, textVars, derVars, objVars, tokenVars>> => [Next]_vars
BY DEF ReadersNext, CallFold, CallText, CallDer, CallObject, CallToken

LEMMA FoldInvHolds == ReadersSpec => []FoldInv
<1>1. ReadersInit => FoldInv
  BY FoldStart DEF ReadersInit
<1> QED BY <1>1, FoldKept, FoldAlone, PTL DEF ReadersSpec

\* VerifyInclusion accepts exactly the audit path of that leaf, of whatever index
\* in a log of whatever size, and with another size only for a leaf of the log
\* (merkle/merkle.go; for every log, every path and every hash that is no node).
THEOREM InclusionIsDecided == ReadersSpec => []InclusionDecided
<1>1. FoldInv => InclusionDecided
  BY DEF FoldInv
<1> QED BY <1>1, FoldInvHolds, PTL

\* VerifyConsistency accepts exactly the proof that one log grew into the other,
\* and with another size only if it did (merkle/merkle.go; for every two logs and
\* every path).
THEOREM GrowthIsDecided == ReadersSpec => []GrowthDecided
<1>1. FoldInv => GrowthDecided
  BY DEF FoldInv
<1> QED BY <1>1, FoldInvHolds, PTL

-----------------------------------------------------------------------------
(* The octets: a number and its digits, what is accepted, and what is written. *)

\* What the first digits of o are worth in base b, for each of their lengths.
Worth(c, o, b, n) == c = [i \in 0 .. n |-> IF i = 0 THEN 0 ELSE c[i - 1] * b + (o[i] % b)]

\* Any digits have their worths.
LEMMA WorthExists == ASSUME NEW o, NEW b, NEW n \in Nat PROVE \E c : Worth(c, o, b, n)
<1> DEFINE S == {k \in Nat : \E c : Worth(c, o, b, k)}
<1>1. 0 \in S
  <2> DEFINE c == [i \in 0 .. 0 |-> 0]
  <2>1. Worth(c, o, b, 0)
    BY DEF Worth
  <2> QED BY <2>1
<1>2. ASSUME NEW k \in Nat, k \in S PROVE k + 1 \in S
  <2>1. PICK c : Worth(c, o, b, k)
    BY <1>2
  <2> DEFINE g == [i \in 0 .. k + 1 |-> IF i = 0 THEN 0 ELSE c[i - 1] * b + (o[i] % b)]
  <2>2. \A i \in 0 .. k : g[i] = c[i]
    BY <2>1 DEF Worth
  <2>3. \A i \in 0 .. k + 1 : i # 0 => i - 1 \in 0 .. k
    OBVIOUS
  <2>4. Worth(g, o, b, k + 1)
    BY <2>2, <2>3 DEF Worth
  <2> QED BY <2>4
<1>3. n \in S
  <2> HIDE DEF S
  <2> QED BY <1>1, <1>2, Upwards
<1> QED BY <1>3

\* It is told by what the digits leave over b, and by no later one.
LEMMA WorthAgrees ==
  ASSUME NEW o, NEW p, NEW b, NEW n \in Nat, NEW m \in Nat, n <= m,
         \A i \in 1 .. n : o[i] % b = p[i] % b,
         NEW c, Worth(c, o, b, n), NEW e, Worth(e, p, b, m)
  PROVE  c[n] = e[n]
<1> DEFINE S == {k \in Nat : k <= n => c[k] = e[k]}
<1>0. /\ \A i \in 0 .. n : c[i] = IF i = 0 THEN 0 ELSE c[i - 1] * b + (o[i] % b)
      /\ \A i \in 0 .. m : e[i] = IF i = 0 THEN 0 ELSE e[i - 1] * b + (p[i] % b)
  BY DEF Worth
<1>1. 0 \in S
  BY <1>0
<1>2. ASSUME NEW k \in Nat, k \in S PROVE k + 1 \in S
  <2> SUFFICES ASSUME k + 1 <= n PROVE c[k + 1] = e[k + 1]
    OBVIOUS
  <2>1. k + 1 \in 0 .. n /\ k + 1 \in 0 .. m /\ k + 1 \in 1 .. n /\ k + 1 # 0 /\ (k + 1) - 1 = k
    OBVIOUS
  <2>2. c[k + 1] = c[k] * b + (o[k + 1] % b)
    BY <1>0, <2>1
  <2>3. e[k + 1] = e[k] * b + (p[k + 1] % b)
    BY <1>0, <2>1
  <2>4. c[k] = e[k]
    BY <1>2, <2>1
  <2> QED BY <2>1, <2>2, <2>3, <2>4
<1>3. n \in S
  <2> HIDE DEF S
  <2> QED BY <1>1, <1>2, Upwards
<1> QED BY <1>3

\* Octets are worth what all of them are worth.
LEMMA NumberIs ==
  ASSUME NEW o, Len(o) \in Nat, NEW b
  PROVE  \E c : Worth(c, o, b, Len(o)) /\ Der!Number(o, b) = c[Len(o)]
<1> DEFINE P(c) == c = [i \in 0 .. Len(o) |-> IF i = 0 THEN 0 ELSE c[i - 1] * b + (o[i] % b)]
           c == CHOOSE c : P(c)
<1>1. \E e : P(e)
  <2>1. PICK e : Worth(e, o, b, Len(o))
    BY WorthExists
  <2>2. P(e)
    BY <2>1 DEF Worth
  <2> QED BY <2>2
<1>2. P(c)
  BY <1>1
<1>3. Der!Number(o, b) = c[Len(o)]
  BY DEF Der!Number
<1> QED BY <1>2, <1>3 DEF Worth

\* Reading from the left: a further digit, and no digits.
LEMMA NumberOf ==
  ASSUME NEW U, NEW o \in Seq(U), NEW d \in U, NEW b
  PROVE  /\ Der!Number(<< >>, b) = 0
         /\ Der!Number(Append(o, d), b) = Der!Number(o, b) * b + (d % b)
<1>1. Der!Number(<< >>, b) = 0
  <2>1. Len(<< >>) = 0
    OBVIOUS
  <2>2. PICK c : Worth(c, << >>, b, 0) /\ Der!Number(<< >>, b) = c[0]
    BY <2>1, NumberIs
  <2> QED BY <2>2 DEF Worth
<1> DEFINE n == Len(o)
           q == Append(o, d)
<1>2. n \in Nat /\ Len(q) = n + 1 /\ q[n + 1] = d /\ \A i \in 1 .. n : q[i] = o[i]
  BY AppendProperties, LenProperties
<1> HIDE DEF q
<1>3. PICK c : Worth(c, o, b, n) /\ Der!Number(o, b) = c[n]
  BY <1>2, NumberIs
<1>4. PICK e : Worth(e, q, b, n + 1) /\ Der!Number(q, b) = e[n + 1]
  BY <1>2, NumberIs
<1> HIDE DEF n
<1>5. c[n] = e[n]
  <2>1. n + 1 \in Nat /\ n <= n + 1 /\ \A i \in 1 .. n : o[i] % b = q[i] % b
    BY <1>2
  <2> QED BY <1>2, <1>3, <1>4, <2>1, WorthAgrees
<1>6. e[n + 1] = e[n] * b + (q[n + 1] % b)
  <2>1. n + 1 \in 0 .. n + 1 /\ n + 1 # 0 /\ (n + 1) - 1 = n
    BY <1>2
  <2> QED BY <1>4, <2>1 DEF Worth
<1> QED BY <1>1, <1>2, <1>3, <1>4, <1>5, <1>6 DEF q

\* Digits that leave the same over b are worth the same.
LEMMA NumberSame ==
  ASSUME NEW b, NEW o, NEW p, Len(o) \in Nat, Len(o) = Len(p),
         \A i \in 1 .. Len(o) : o[i] % b = p[i] % b
  PROVE  Der!Number(o, b) = Der!Number(p, b)
<1> DEFINE n == Len(o)
<1>1. PICK c : Worth(c, o, b, n) /\ Der!Number(o, b) = c[n]
  BY NumberIs
<1>2. PICK e : Worth(e, p, b, n) /\ Der!Number(p, b) = e[n]
  BY NumberIs
<1>3. n \in Nat /\ n <= n /\ \A i \in 1 .. n : o[i] % b = p[i] % b
  OBVIOUS
<1> HIDE DEF n
<1>4. c[n] = e[n]
  BY <1>1, <1>2, <1>3, WorthAgrees
<1> QED BY <1>1, <1>2, <1>4

\* What is left over, and what a quotient and a remainder make again.
LEMMA Remains ==
  ASSUME NEW b \in Nat, b > 1, NEW d \in Int
  PROVE  d % b \in 0 .. b - 1 /\ (d \in 0 .. b - 1 => d % b = d)
         /\ (d \in b .. 2 * b - 1 => d % b = d - b)
OBVIOUS

\* A digit leaves itself.
LEMMA Digit == ASSUME NEW b \in Nat, b > 1, NEW d \in 0 .. b - 1 PROVE d % b = d
OBVIOUS

\* What a digit is ahead of is worth at least as much.
LEMMA Shifted ==
  ASSUME NEW b \in Nat, b > 1, NEW x \in Nat, NEW d \in Nat
  PROVE  x * b + d \in Nat /\ x * b + d >= x /\ x * b + d >= d
<1>1. x * b >= x /\ x * b \in Nat
  OBVIOUS
<1> DEFINE y == x * b
<1> HIDE DEF y
<1>2. y >= x /\ y \in Nat
  BY <1>1 DEF y
<1> QED BY <1>2 DEF y

\* A quotient and a remainder are told from what they make.
LEMMA DivMod ==
  ASSUME NEW b \in Nat, b > 1, NEW x \in Nat, NEW y \in 0 .. b - 1, NEW z \in Nat, NEW w \in 0 .. b - 1,
         x * b + y = z * b + w
  PROVE  x = z /\ y = w
<1>1. ASSUME NEW u \in Nat, NEW v \in Nat, u < v PROVE u * b + b <= v * b
  <2>1. u + 1 <= v
    BY <1>1
  <2>2. (u + 1) * b <= v * b
    BY <2>1
  <2>3. (u + 1) * b = u * b + b
    OBVIOUS
  <2> QED BY <2>2, <2>3
<1>2. x * b \in Nat /\ z * b \in Nat
  OBVIOUS
<1> DEFINE xb == x * b
           zb == z * b
<1>3. ~(x < z)
  <2> SUFFICES ASSUME x < z PROVE FALSE
    OBVIOUS
  <2>1. xb + b <= zb
    BY <1>1
  <2> HIDE DEF xb, zb
  <2>2. xb + y = zb + w /\ xb \in Nat /\ zb \in Nat
    BY <1>2 DEF xb, zb
  <2> QED BY <2>1, <2>2
<1>4. ~(z < x)
  <2> SUFFICES ASSUME z < x PROVE FALSE
    OBVIOUS
  <2>1. zb + b <= xb
    BY <1>1
  <2> HIDE DEF xb, zb
  <2>2. xb + y = zb + w /\ xb \in Nat /\ zb \in Nat
    BY <1>2 DEF xb, zb
  <2> QED BY <2>1, <2>2
<1>5. x = z
  BY <1>3, <1>4
<1>6. xb + y = xb + w /\ xb \in Nat
  BY <1>2, <1>5
<1> HIDE DEF xb
<1> QED BY <1>5, <1>6

\* A number is a natural one.
LEMMA NumberTyped ==
  ASSUME NEW b \in Nat, b > 1, NEW o \in Seq(Int)
  PROVE  Der!Number(o, b) \in Nat
<1> DEFINE S == {k \in Nat : \A p \in Seq(Int) : Len(p) = k => Der!Number(p, b) \in Nat}
<1>1. 0 \in S
  <2>1. Der!Number(<< >>, b) = 0
    BY NumberOf, EmptySeq
  <2>2. \A p \in Seq(Int) : Len(p) = 0 => p = << >>
    BY EmptySeq
  <2> QED BY <2>1, <2>2
<1>2. ASSUME NEW k \in Nat, k \in S PROVE k + 1 \in S
  <2> SUFFICES ASSUME NEW p \in Seq(Int), Len(p) = k + 1 PROVE Der!Number(p, b) \in Nat
    OBVIOUS
  <2>1. p # << >>
    BY EmptySeq
  <2>2. PICK q \in Seq(Int), d \in Int : p = Append(q, d)
    BY <2>1, SequenceEmptyOrAppend
  <2>3. Len(q) = k
    BY <2>2, AppendProperties, LenProperties
  <2>4. Der!Number(q, b) \in Nat
    BY <1>2, <2>3
  <2>5. Der!Number(p, b) = Der!Number(q, b) * b + (d % b)
    BY <2>2, NumberOf
  <2>6. d % b \in Nat
    BY Remains
  <2>7. Der!Number(q, b) * b \in Nat
    BY <2>4
  <2> QED BY <2>5, <2>6, <2>7
<1>3. Len(o) \in S
  <2>1. Len(o) \in Nat
    BY LenProperties
  <2> HIDE DEF S
  <2> QED BY <1>1, <1>2, <2>1, Upwards
<1> QED BY <1>3

-----------------------------------------------------------------------------
\* The digits of a number in base b, with no zero ahead of them.
Canon(o, b) == o \in Seq(0 .. b - 1) /\ o # << >> /\ (Len(o) > 1 => o[1] # 0)

\* Digits are numbers.
LEMMA DigitsAreInt == ASSUME NEW b \in Nat, NEW o \in Seq(0 .. b - 1) PROVE o \in Seq(Int)
<1>1. 0 .. b - 1 \subseteq Int
  OBVIOUS
<1> QED BY <1>1, SeqMonotonic

\* A digit more at the end.
LEMMA AppendDigit ==
  ASSUME NEW b \in Nat, b > 1, NEW q \in Seq(0 .. b - 1), NEW d \in 0 .. b - 1
  PROVE  /\ Der!Number(Append(q, d), b) = Der!Number(q, b) * b + d /\ Der!Number(q, b) \in Nat
         /\ Append(q, d) \in Seq(0 .. b - 1) /\ Len(Append(q, d)) = Len(q) + 1 /\ Len(q) \in Nat
         /\ q # << >> => Append(q, d)[1] = q[1] /\ Tail(Append(q, d)) = Append(Tail(q), d)
<1> DEFINE D == 0 .. b - 1
<1>1. Len(Append(q, d)) = Len(q) + 1 /\ Len(q) \in Nat /\ Append(q, d) \in Seq(D)
      /\ \A i \in 1 .. Len(q) : Append(q, d)[i] = q[i]
  BY AppendProperties, LenProperties
<1>2. q # << >> => Append(q, d)[1] = q[1]
  <2>1. q # << >> => Len(q) \in Nat \ {0}
    BY EmptySeq
  <2> QED BY <1>1, <2>1
<1>3. q # << >> => Tail(Append(q, d)) = Append(Tail(q), d)
  BY HeadTailAppend
<1>4. d % b = d
  BY Digit
<1>5. Der!Number(Append(q, d), b) = Der!Number(q, b) * b + (d % b)
  BY NumberOf
<1>6. Der!Number(q, b) \in Nat
  BY DigitsAreInt, NumberTyped
<1> QED BY <1>1, <1>2, <1>3, <1>4, <1>5, <1>6

\* One digit is its sequence.
LEMMA Single == ASSUME NEW U, NEW p \in Seq(U), Len(p) = 1 PROVE p[1] \in U /\ p = <<p[1]>>
OBVIOUS

\* One digit is worth itself.
LEMMA OneDigit ==
  ASSUME NEW b \in Nat, b > 1, NEW m \in 0 .. b - 1
  PROVE  Canon(<<m>>, b) /\ Der!Number(<<m>>, b) = m /\ Len(<<m>>) = 1
<1> DEFINE D == 0 .. b - 1
<1>1. << >> \in Seq(D) /\ <<m>> = Append(<< >>, m)
  BY EmptySeq
<1>2. Der!Number(<<m>>, b) = Der!Number(<< >>, b) * b + (m % b) /\ Der!Number(<< >>, b) = 0
  BY <1>1, NumberOf, ZenonT(40)
<1>3. m % b = m
  BY Digit
<1>4. Canon(<<m>>, b) /\ Len(<<m>>) = 1
  BY DEF Canon
<1> QED BY <1>2, <1>3, <1>4

\* Something ahead is worth something.
LEMMA NumberPositive ==
  ASSUME NEW b \in Nat, b > 1, NEW o \in Seq(0 .. b - 1), o # << >>, o[1] # 0
  PROVE  Der!Number(o, b) >= 1
<1> DEFINE D == 0 .. b - 1
           S == {k \in Nat : \A p \in Seq(D) : Len(p) = k + 1 /\ p[1] # 0 => Der!Number(p, b) >= 1}
<1>1. 0 \in S
  <2> SUFFICES ASSUME NEW p \in Seq(D), Len(p) = 0 + 1, p[1] # 0 PROVE Der!Number(p, b) >= 1
    OBVIOUS
  <2>1. p = <<p[1]>> /\ p[1] \in 0 .. b - 1
    BY Single
  <2>2. Der!Number(p, b) = p[1]
    BY <2>1, OneDigit
  <2> QED BY <2>1, <2>2
<1>2. ASSUME NEW k \in Nat, k \in S PROVE k + 1 \in S
  <2> SUFFICES ASSUME NEW p \in Seq(D), Len(p) = (k + 1) + 1, p[1] # 0 PROVE Der!Number(p, b) >= 1
    OBVIOUS
  <2>0. p # << >>
    BY EmptySeq
  <2>1. PICK q \in Seq(D), d \in D : p = Append(q, d)
    BY <2>0, SequenceEmptyOrAppend
  <2>11. Len(q) = k + 1 /\ Der!Number(p, b) = Der!Number(q, b) * b + d /\ Der!Number(q, b) \in Nat
    BY <2>1, AppendDigit
  <2>12. p[1] = q[1]
    <3>1. q # << >>
      BY <2>11, EmptySeq
    <3> QED BY <2>1, <3>1, AppendDigit
  <2>2. Der!Number(q, b) >= 1
    BY <1>2, <2>11, <2>12
  <2>3. d \in Nat
    OBVIOUS
  <2> DEFINE x == Der!Number(q, b)
  <2>4. x * b + d >= x /\ Der!Number(p, b) = x * b + d /\ x * b + d \in Nat
    <3>1. x \in Nat
      BY <2>11
    <3> HIDE DEF x
    <3>2. x * b + d >= x /\ x * b + d \in Nat
      BY <2>3, <3>1, Shifted
    <3> QED BY <2>11, <3>2 DEF x
  <2> QED BY <2>11, <2>2, <2>4
<1>3. PICK k \in Nat : Len(o) = k + 1
  <2>1. Len(o) \in Nat \ {0}
    BY EmptySeq
  <2>2. Len(o) - 1 \in Nat /\ Len(o) = (Len(o) - 1) + 1
    BY <2>1
  <2> QED BY <2>2
<1>4. k \in S
  <2> HIDE DEF S
  <2> QED BY <1>1, <1>2, Upwards
<1> QED BY <1>3, <1>4

\* d is the last digit of o, and q the number ahead of it.
EndsWith(o, b, q, d) ==
  /\ o = Append(q, d) /\ Len(o) = Len(q) + 1 /\ Len(q) \in Nat
  /\ Der!Number(o, b) = Der!Number(q, b) * b + d /\ Der!Number(q, b) \in Nat
  /\ q = << >> <=> Der!Number(q, b) = 0
  /\ q # << >> => Canon(q, b)

\* Every number has a last digit.
LEMMA CanonSplit ==
  ASSUME NEW b \in Nat, b > 1, NEW o, Canon(o, b)
  PROVE  \E q \in Seq(0 .. b - 1), d \in 0 .. b - 1 : EndsWith(o, b, q, d)
<1> DEFINE D == 0 .. b - 1
<1>1. PICK q \in Seq(D), d \in D : o = Append(q, d)
  BY SequenceEmptyOrAppend DEF Canon
<1>2. Len(o) = Len(q) + 1 /\ Len(q) \in Nat /\ \A i \in 1 .. Len(q) : o[i] = q[i]
  BY <1>1, AppendProperties, LenProperties
<1>3. Der!Number(o, b) = Der!Number(q, b) * b + d
  <2>1. d % b = d
    BY Digit
  <2>2. Der!Number(Append(q, d), b) = Der!Number(q, b) * b + (d % b)
    BY NumberOf
  <2> QED BY <1>1, <2>1, <2>2
<1>4. Der!Number(q, b) \in Nat
  BY DigitsAreInt, NumberTyped
<1>5. q # << >> => Canon(q, b) /\ q[1] # 0
  <2> HAVE q # << >>
  <2>1. Len(q) \in Nat \ {0}
    BY EmptySeq
  <2>2. Len(o) > 1 /\ 1 \in 1 .. Len(q)
    BY <1>2, <2>1
  <2>3. q[1] # 0
    BY <1>2, <2>2 DEF Canon
  <2> QED BY <2>3 DEF Canon
<1>6. q = << >> => Der!Number(q, b) = 0
  BY NumberOf
<1>7. q # << >> => Der!Number(q, b) # 0
  BY <1>4, <1>5, NumberPositive
<1>8. EndsWith(o, b, q, d)
  BY <1>1, <1>2, <1>3, <1>4, <1>5, <1>6, <1>7 DEF EndsWith
<1> QED BY <1>1, <1>8

\* A number has one sequence of digits.
LEMMA CanonOnly ==
  ASSUME NEW b \in Nat, b > 1, NEW o, Canon(o, b), NEW p, Canon(p, b),
         Der!Number(o, b) = Der!Number(p, b)
  PROVE  o = p
<1> DEFINE S == {k \in Nat :
                   \A x, y : Canon(x, b) /\ Canon(y, b) /\ Len(x) <= k
                             /\ Der!Number(x, b) = Der!Number(y, b) => x = y}
<1>0. \A x : Canon(x, b) => Len(x) \in Nat \ {0}
  BY EmptySeq DEF Canon
<1>1. 0 \in S
  <2>1. \A x : Canon(x, b) => ~(Len(x) <= 0)
    BY <1>0
  <2> QED BY <2>1
<1>2. ASSUME NEW k \in Nat, k \in S PROVE k + 1 \in S
  <2> SUFFICES ASSUME NEW x, NEW y, Canon(x, b), Canon(y, b), Len(x) <= k + 1,
                      Der!Number(x, b) = Der!Number(y, b)
               PROVE  x = y
    OBVIOUS
  <2>1. PICK q \in Seq(0 .. b - 1), d \in 0 .. b - 1 : EndsWith(x, b, q, d)
    BY CanonSplit
  <2>2. PICK r \in Seq(0 .. b - 1), e \in 0 .. b - 1 : EndsWith(y, b, r, e)
    BY CanonSplit
  <2> USE DEF EndsWith
  <2>3. Der!Number(q, b) = Der!Number(r, b) /\ d = e
    <3>1. Der!Number(q, b) * b + d = Der!Number(r, b) * b + e
      BY <2>1, <2>2
    <3>2. Der!Number(q, b) \in Nat /\ Der!Number(r, b) \in Nat
      BY <2>1, <2>2
    <3> QED BY <3>1, <3>2, DivMod
  <2>4. CASE q = << >>
    BY <2>1, <2>2, <2>3, <2>4
  <2>5. CASE q # << >>
    <3>1. Canon(q, b) /\ Canon(r, b) /\ Len(q) <= k
      BY <2>1, <2>2, <2>3, <2>5
    <3>2. q = r
      BY <1>2, <2>3, <3>1
    <3> QED BY <2>1, <2>2, <2>3, <3>2
  <2> QED BY <2>4, <2>5
<1>3. Len(o) \in S
  <2>1. Len(o) \in Nat
    BY <1>0
  <2> HIDE DEF S
  <2> QED BY <1>1, <1>2, <2>1, Upwards
<1> QED BY <1>0, <1>3

\* No zero leads but zero.
LEMMA Leads ==
  ASSUME NEW b \in Nat, b > 1, NEW o, Canon(o, b), Der!Number(o, b) # 0
  PROVE  o[1] # 0
<1> DEFINE n == Len(o)
<1>1. n \in Nat \ {0} /\ o \in Seq(0 .. b - 1)
  BY EmptySeq DEF Canon
<1>2. CASE n > 1
  BY <1>2 DEF Canon
<1>3. CASE n = 1
  <2>1. o = <<o[1]>> /\ o[1] \in 0 .. b - 1
    BY <1>1, <1>3, Single
  <2>2. Der!Number(o, b) = o[1]
    BY <2>1, OneDigit
  <2> QED BY <2>2
<1> HIDE DEF n
<1> QED BY <1>1, <1>2, <1>3

\* The digits of every number up to n.
Spelled(c, b, n) == c = [m \in 0 .. n |-> IF m < b THEN <<m>> ELSE Append(c[m \div b], m % b)]

\* A quotient is smaller than what it was taken of.
LEMMA Shrinks ==
  ASSUME NEW b \in Nat, b > 1, NEW m \in Nat, m >= b
  PROVE  /\ m \div b \in Nat /\ m \div b # 0 /\ m \div b < m /\ m % b \in 0 .. b - 1
         /\ m = (m \div b) * b + (m % b)
<1>1. m \div b \in Int /\ m % b \in 0 .. b - 1 /\ m = b * (m \div b) + (m % b)
  OBVIOUS
<1> DEFINE x == m \div b
           y == m % b
<1>2. x \in Int /\ y \in 0 .. b - 1 /\ m = b * x + y
  BY <1>1
<1> HIDE DEF x, y
<1>3. x > 0
  <2>1. x < 0 \/ x = 0 \/ x > 0
    BY <1>2
  <2>2. x # 0
    BY <1>2
  <2>3. ~(x < 0)
    <3> SUFFICES ASSUME x < 0 PROVE FALSE
      OBVIOUS
    <3>1. x + 1 <= 0
      BY <1>2
    <3>2. b * (x + 1) <= 0
      BY <1>2, <3>1
    <3>3. b * (x + 1) = b * x + b /\ b * x \in Int
      BY <1>2
    <3> DEFINE z == b * x
    <3> HIDE DEF z
    <3>4. z + b <= 0 /\ z \in Int /\ m = z + y
      BY <1>2, <3>2, <3>3 DEF z
    <3> QED BY <1>2, <3>4
  <2> QED BY <2>1, <2>2, <2>3
<1>4. b * x >= 2 * x /\ b * x \in Nat /\ b * x = x * b
  BY <1>2, <1>3
<1>5. x < m /\ m = x * b + y
  <2> DEFINE z == b * x
  <2> HIDE DEF z
  <2>1. z >= 2 * x /\ z \in Nat /\ m = z + y /\ z = x * b
    BY <1>2, <1>4 DEF z
  <2> QED BY <1>2, <1>3, <2>1
<1> QED BY <1>2, <1>3, <1>5 DEF x, y

\* Every number has its digits.
LEMMA SpelledExists == ASSUME NEW b \in Nat, b > 1, NEW n \in Nat PROVE \E c : Spelled(c, b, n)
<1> DEFINE S == {k \in Nat : \E c : Spelled(c, b, k)}
<1>1. 0 \in S
  <2> DEFINE c == [m \in 0 .. 0 |-> <<m>>]
  <2>1. Spelled(c, b, 0)
    BY DEF Spelled
  <2> QED BY <2>1
<1>2. ASSUME NEW k \in Nat, k \in S PROVE k + 1 \in S
  <2>1. PICK c : Spelled(c, b, k)
    BY <1>2
  <2> DEFINE g == [m \in 0 .. k + 1 |-> IF m < b THEN <<m>> ELSE Append(c[m \div b], m % b)]
  <2>2. \A m \in 0 .. k : g[m] = c[m]
    <3> TAKE m \in 0 .. k
    <3>1. m \in 0 .. k + 1
      OBVIOUS
    <3>2. c[m] = IF m < b THEN <<m>> ELSE Append(c[m \div b], m % b)
      BY <2>1, Zenon DEF Spelled
    <3>3. g[m] = IF m < b THEN <<m>> ELSE Append(c[m \div b], m % b)
      BY <3>1, Zenon
    <3> QED BY <3>2, <3>3
  <2>3. \A m \in 0 .. k + 1 : ~(m < b) => m \div b \in 0 .. k
    <3> SUFFICES ASSUME NEW m \in 0 .. k + 1, ~(m < b) PROVE m \div b \in 0 .. k
      OBVIOUS
    <3>1. m \in Nat /\ m >= b
      OBVIOUS
    <3>2. m \div b \in Nat /\ m \div b < m
      BY <3>1, Shrinks, Zenon
    <3> QED BY <3>2
  <2>4. Spelled(g, b, k + 1)
    BY <2>2, <2>3 DEF Spelled
  <2> QED BY <2>4
<1>3. n \in S
  <2> HIDE DEF S
  <2> QED BY <1>1, <1>2, Upwards
<1> QED BY <1>3

\* Digits are the digits of their number.
LEMMA DigitsAre ==
  ASSUME NEW b \in Nat, b > 1, NEW n \in Nat
  PROVE  Canon(Der!Digits(n, b), b) /\ Der!Number(Der!Digits(n, b), b) = n
<1> DEFINE P(c) == c = [m \in 0 .. n |-> IF m < b THEN <<m>> ELSE Append(c[m \div b], m % b)]
           c == CHOOSE c : P(c)
           D == 0 .. b - 1
<1>1. P(c)
  <2>1. PICK e : Spelled(e, b, n)
    BY SpelledExists
  <2>2. P(e)
    BY <2>1 DEF Spelled
  <2> QED BY <2>2
<1>2. Der!Digits(n, b) = c[n]
  BY DEF Der!Digits
<1> HIDE DEF c
<1> DEFINE S == {k \in Nat : \A m \in 0 .. k : m <= n => Canon(c[m], b) /\ Der!Number(c[m], b) = m}
<1>3. ASSUME NEW m \in 0 .. n, m < b PROVE Canon(c[m], b) /\ Der!Number(c[m], b) = m
  <2>1. c[m] = <<m>> /\ m \in 0 .. b - 1
    BY <1>1, <1>3
  <2> QED BY <2>1, OneDigit
<1>4. 0 \in S
  BY <1>3
<1>5. ASSUME NEW k \in Nat, k \in S PROVE k + 1 \in S
  <2> SUFFICES ASSUME NEW m \in 0 .. k + 1, m <= n PROVE Canon(c[m], b) /\ Der!Number(c[m], b) = m
    OBVIOUS
  <2>1. CASE m < b
    BY <1>3, <2>1
  <2>2. CASE ~(m < b)
    <3> DEFINE x == m \div b
               y == m % b
    <3>1. x \in Nat /\ x # 0 /\ x < m /\ y \in D /\ m = x * b + y
      <4>1. m \in Nat /\ m >= b
        BY <2>2
      <4> QED BY <4>1, Shrinks, Zenon
    <3>2. m \in 0 .. n /\ c[m] = Append(c[x], y)
      <4>1. m \in 0 .. n
        OBVIOUS
      <4>2. c[m] = IF m < b THEN <<m>> ELSE Append(c[x], y)
        BY <1>1, <4>1, Zenon
      <4> QED BY <2>2, <4>1, <4>2
    <3> HIDE DEF x, y
    <3>3. Canon(c[x], b) /\ Der!Number(c[x], b) = x
      BY <1>5, <3>1
    <3> DEFINE q == c[x]
    <3>4. q \in Seq(D) /\ q # << >>
      BY <3>3 DEF Canon
    <3>5. y % b = y
      BY <3>1, Digit
    <3>6. Der!Number(Append(q, y), b) = Der!Number(q, b) * b + (y % b)
      BY <3>1, <3>4, NumberOf
    <3>7. Der!Number(c[m], b) = m
      BY <3>1, <3>2, <3>3, <3>5, <3>6
    <3>8. q[1] # 0
      BY <3>1, <3>3, Leads
    <3>9. Append(q, y) \in Seq(D) /\ Append(q, y) # << >> /\ Append(q, y)[1] = q[1]
      BY <3>1, <3>4, AppendProperties, EmptySeq
    <3>10. Canon(c[m], b)
      BY <3>2, <3>8, <3>9 DEF Canon
    <3> QED BY <3>7, <3>10
  <2> QED BY <2>1, <2>2
<1>6. n \in S
  <2> HIDE DEF S
  <2> QED BY <1>4, <1>5, Upwards
<1> QED BY <1>2, <1>6

\* And the only ones.
LEMMA DigitsOnly ==
  ASSUME NEW b \in Nat, b > 1, NEW o, Canon(o, b)
  PROVE  Der!Number(o, b) \in Nat /\ o = Der!Digits(Der!Number(o, b), b)
<1>1. Der!Number(o, b) \in Nat
  BY DigitsAreInt, NumberTyped DEF Canon
<1> QED BY <1>1, DigitsAre, CanonOnly

-----------------------------------------------------------------------------
\* What the constants give.
LEMMA OctetsAre ==
  /\ High \in Nat /\ High > 1 /\ Der!Base \in Nat /\ Der!Base > 1 /\ Der!Base = 2 * High
  /\ Der!Octets = 0 .. Der!Base - 1
  /\ MaxCount \in Nat /\ MaxOctets \in Nat /\ MaxSub \in Nat /\ MaxRead \in Nat /\ MaxRoom \in Nat
BY OctetsAssumption DEF Der!Base, Der!Octets

\* A length in its short form, and in its long one.
LEMMA LengthCodeIs ==
  ASSUME NEW n \in Nat
  PROVE  /\ n < High => Der!LengthCode(n) = <<n>>
         /\ n >= High => Der!LengthCode(n) = <<High + Len(Der!Digits(n, Der!Base))>> \o Der!Digits(n, Der!Base)
BY OctetsAre DEF Der!LengthCode

\* What follows the octet that says how many follow.
LEMMA Counted ==
  ASSUME NEW U, NEW o \in Seq(U), o # << >>
  PROVE  /\ o[1] \in U /\ Tail(o) \in Seq(U) /\ Len(Tail(o)) = Len(o) - 1 /\ o = <<o[1]>> \o Tail(o)
         /\ Len(o) \in Nat /\ Len(o) >= 1 /\ (Len(o) > 1 => Tail(o)[1] = o[2])
<1>1. Len(o) \in Nat \ {0}
  BY EmptySeq
<1>2. o[1] \in U /\ Tail(o) \in Seq(U) /\ Len(Tail(o)) = Len(o) - 1
      /\ \A i \in 1 .. Len(Tail(o)) : Tail(o)[i] = o[i + 1]
  <2>1. 1 \in 1 .. Len(o)
    BY <1>1
  <2> QED BY <2>1, ElementOfSeq, HeadTailProperties
<1>3. Len(o) > 1 => Tail(o)[1] = o[2]
  BY <1>1, <1>2
<1>4. o = <<o[1]>> \o Tail(o)
  BY <1>1, <1>2
<1> QED BY <1>1, <1>2, <1>3, <1>4

\* An octet put ahead, and taken off again.
LEMMA Prefixed ==
  ASSUME NEW U, NEW d \in Seq(U), NEW x, d # << >>
  PROVE  /\ Len(<<x>> \o d) = 1 + Len(d) /\ (<<x>> \o d)[1] = x /\ (<<x>> \o d)[2] = d[1]
         /\ Tail(<<x>> \o d) = d /\ <<x>> \o d # << >>
<1>1. Len(d) \in Nat \ {0}
  BY EmptySeq
<1> QED BY <1>1

\* A length is read from its one form, if what it says is there.
LEMMA LengthOneForm ==
  ASSUME NEW o \in Seq(Der!Octets), NEW left \in 0 .. MaxRoom
  PROVE  Der!Next1(o, left) <=> \E n \in 0 .. left : o = Der!LengthCode(n)
<1> DEFINE B == Der!Base
           number == Der!Number(Tail(o), B)
<1>0. /\ B \in Nat /\ B > 1 /\ High \in Nat /\ High > 1 /\ B = 2 * High /\ MaxCount \in Nat
      /\ Der!Octets = 0 .. B - 1
  BY OctetsAre
<1>1. ASSUME o # << >> PROVE
        /\ o[1] < High => (Der!Next1(o, left) <=> Len(o) = 1 /\ o[1] <= left)
        /\ o[1] >= High => (Der!Next1(o, left) <=>
             Len(o) = 1 + (o[1] - High) /\ o[1] - High \in 1 .. MaxCount
             /\ o[2] # 0 /\ number >= High /\ number <= left)
  <2>1. o[1] \in Int
    BY <1>0, <1>1, Counted
  <2> DEFINE many == o[1] - High
             short == o[1] < High
             n == IF short THEN o[1] ELSE number
  <2>2. Der!Next1(o, left) <=> /\ o # << >>
                               /\ Len(o) = IF short THEN 1 ELSE 1 + many
                               /\ ~short => many \in 1 .. MaxCount /\ o[2] # 0 /\ n >= High
                               /\ n <= left
    BY Zenon DEF Der!Next1, Der!Long
  <2>3. o[1] < High => short /\ n = o[1]
    OBVIOUS
  <2>4. o[1] >= High => ~short /\ n = number
    BY <1>0, <2>1
  <2> HIDE DEF short, n
  <2> QED BY <1>1, <2>2, <2>3, <2>4
<1>2. ASSUME Der!Next1(o, left) PROVE \E n \in 0 .. left : o = Der!LengthCode(n)
  <2>1. o # << >>
    BY <1>2 DEF Der!Next1
  <2>2. o[1] \in 0 .. B - 1 /\ o = <<o[1]>> \o Tail(o) /\ Tail(o) \in Seq(0 .. B - 1)
        /\ Len(Tail(o)) = Len(o) - 1 /\ (Len(o) > 1 => Tail(o)[1] = o[2]) /\ Len(o) \in Nat
    BY <1>0, <2>1, Counted
  <2>3. CASE o[1] < High
    <3>1. Len(o) = 1 /\ o[1] <= left
      BY <1>1, <1>2, <2>1, <2>3
    <3>2. o = <<o[1]>>
      BY <3>1, Single
    <3>3. PICK n \in Nat : n = o[1]
      BY <2>2
    <3>4. o = Der!LengthCode(n) /\ n \in 0 .. left
      <4>1. o = <<n>> /\ n < High /\ n <= left
        BY <2>3, <3>1, <3>2, <3>3
      <4>2. Der!LengthCode(n) = <<n>>
        BY <4>1, LengthCodeIs
      <4> QED BY <4>1, <4>2
    <3> QED BY <3>4
  <2>4. CASE o[1] >= High
    <3>1. /\ Len(o) = 1 + (o[1] - High) /\ o[1] - High \in 1 .. MaxCount
          /\ o[2] # 0 /\ number >= High /\ number <= left
      BY <1>1, <1>2, <2>1, <2>4
    <3>2. Len(o) > 1 /\ Len(Tail(o)) = o[1] - High
      BY <1>0, <2>2, <3>1
    <3>3. Tail(o)[1] # 0 /\ Tail(o) # << >>
      BY <2>2, <3>1, <3>2
    <3>4. Canon(Tail(o), B)
      BY <2>2, <3>3 DEF Canon
    <3>5. number \in Nat /\ Tail(o) = Der!Digits(number, B)
      BY <1>0, <3>4, DigitsOnly
    <3>6. o[1] = High + Len(Tail(o))
      BY <1>0, <2>2, <3>2, SMTT(30)
    <3>7. o = Der!LengthCode(number)
      BY <2>2, <3>1, <3>5, <3>6, LengthCodeIs
    <3>8. number \in 0 .. left
      BY <3>1, <3>5
    <3> QED BY <3>7, <3>8
  <2>5. o[1] < High \/ o[1] >= High
    BY <1>0, <2>2
  <2> QED BY <2>3, <2>4, <2>5
<1>3. ASSUME NEW n \in 0 .. left, o = Der!LengthCode(n) PROVE Der!Next1(o, left)
  <2>0. n \in Nat /\ n \in 0 .. MaxRoom /\ n <= left
    BY OctetsAre
  <2>1. CASE n < High
    <3>1. o = <<n>>
      BY <1>3, <2>0, <2>1, LengthCodeIs
    <3>2. o # << >> /\ o[1] = n /\ Len(o) = 1
      BY <3>1
    <3> QED BY <1>1, <2>0, <2>1, <3>2
  <2>2. CASE n >= High
    <3> DEFINE d == Der!Digits(n, B)
    <3>1. o = <<High + Len(d)>> \o d
      BY <1>3, <2>0, <2>2, LengthCodeIs
    <3>2. Canon(d, B) /\ Der!Number(d, B) = n
      BY <1>0, <2>0, DigitsAre
    <3>3. d \in Seq(0 .. B - 1) /\ d # << >> /\ Len(d) \in Nat \ {0}
      BY <3>2, EmptySeq DEF Canon
    <3>4. Len(d) <= MaxCount
      BY <2>0, OctetsAssumption
    <3> HIDE DEF d
    <3>5. d[1] # 0
      BY <1>0, <2>2, <3>2, Leads
    <3>6. /\ o # << >> /\ o[1] = High + Len(d) /\ o[2] = d[1] /\ Tail(o) = d /\ Len(o) = 1 + Len(d)
      BY <3>1, <3>3, Prefixed
    <3>7. /\ o[1] >= High /\ Len(o) = 1 + (o[1] - High) /\ o[1] - High \in 1 .. MaxCount
          /\ o[2] # 0 /\ number >= High /\ number <= left
      <4>1. number = n
        BY <3>2, <3>6
      <4> HIDE DEF number
      <4>2. o[1] - High = Len(d) /\ Len(d) \in 1 .. MaxCount /\ o[1] >= High
        <5> DEFINE k == Len(d)
        <5>1. k \in Nat \ {0} /\ k <= MaxCount /\ o[1] = High + k
          BY <3>3, <3>4, <3>6
        <5> HIDE DEF k
        <5>2. o[1] - High = k /\ k \in 1 .. MaxCount /\ o[1] >= High
          BY <1>0, <5>1
        <5> QED BY <5>2 DEF k
      <4> QED BY <2>0, <2>2, <3>5, <3>6, <4>1, <4>2
    <3> QED BY <1>1, <3>6, <3>7
  <2>3. n < High \/ n >= High
    BY <1>0, <2>0
  <2> QED BY <2>1, <2>2, <2>3
<1> QED BY <1>2, <1>3

-----------------------------------------------------------------------------
Raised(c, n) == c = [i \in 0 .. n |-> IF i = 0 THEN 1 ELSE Der!Base * c[i - 1]]

\* The powers of the base.
LEMMA RaisedExists == ASSUME NEW n \in Nat PROVE \E c : Raised(c, n)
<1> DEFINE S == {k \in Nat : \E c : Raised(c, k)}
<1>1. 0 \in S
  <2> DEFINE c == [i \in 0 .. 0 |-> 1]
  <2>1. Raised(c, 0)
    BY DEF Raised
  <2> QED BY <2>1
<1>2. ASSUME NEW k \in Nat, k \in S PROVE k + 1 \in S
  <2>1. PICK c : Raised(c, k)
    BY <1>2
  <2> DEFINE g == [i \in 0 .. k + 1 |-> IF i = 0 THEN 1 ELSE Der!Base * c[i - 1]]
  <2>2. \A i \in 0 .. k : g[i] = c[i]
    BY <2>1 DEF Raised
  <2>3. \A i \in 0 .. k + 1 : i # 0 => i - 1 \in 0 .. k
    OBVIOUS
  <2>4. Raised(g, k + 1)
    BY <2>2, <2>3 DEF Raised
  <2> QED BY <2>4
<1>3. n \in S
  <2> HIDE DEF S
  <2> QED BY <1>1, <1>2, Upwards
<1> QED BY <1>3

\* A power does not depend on how far the powers are taken.
LEMMA RaisedAgrees ==
  ASSUME NEW n \in Nat, NEW m \in Nat, n <= m, NEW c, Raised(c, n), NEW e, Raised(e, m)
  PROVE  c[n] = e[n]
<1> DEFINE S == {k \in Nat : k <= n => c[k] = e[k]}
<1>0. /\ \A i \in 0 .. n : c[i] = IF i = 0 THEN 1 ELSE Der!Base * c[i - 1]
      /\ \A i \in 0 .. m : e[i] = IF i = 0 THEN 1 ELSE Der!Base * e[i - 1]
  BY DEF Raised
<1>1. 0 \in S
  BY <1>0
<1>2. ASSUME NEW k \in Nat, k \in S PROVE k + 1 \in S
  <2> SUFFICES ASSUME k + 1 <= n PROVE c[k + 1] = e[k + 1]
    OBVIOUS
  <2>1. k + 1 \in 0 .. n /\ k + 1 \in 0 .. m /\ k + 1 # 0 /\ (k + 1) - 1 = k /\ k <= n
    OBVIOUS
  <2> QED BY <1>0, <1>2, <2>1
<1>3. n \in S
  <2> HIDE DEF S
  <2> QED BY <1>1, <1>2, Upwards
<1> QED BY <1>3

\* A power is the last of its powers.
LEMMA PowerIs == ASSUME NEW n \in Nat PROVE \E c : Raised(c, n) /\ Der!Power(n) = c[n]
<1> DEFINE P(c) == c = [i \in 0 .. n |-> IF i = 0 THEN 1 ELSE Der!Base * c[i - 1]]
           c == CHOOSE c : P(c)
<1>1. \E e : P(e)
  <2>1. PICK e : Raised(e, n)
    BY RaisedExists
  <2>2. P(e)
    BY <2>1 DEF Raised
  <2> QED BY <2>2
<1>2. P(c)
  BY <1>1
<1>3. Der!Power(n) = c[n]
  BY DEF Der!Power
<1> QED BY <1>2, <1>3 DEF Raised

\* The next power.
LEMMA PowerOf ==
  /\ Der!Power(0) = 1
  /\ \A n \in Nat : Der!Power(n + 1) = Der!Base * Der!Power(n)
<1>1. Der!Power(0) = 1
  <2>1. PICK c : Raised(c, 0) /\ Der!Power(0) = c[0]
    BY PowerIs
  <2> QED BY <2>1 DEF Raised
<1>2. ASSUME NEW n \in Nat PROVE Der!Power(n + 1) = Der!Base * Der!Power(n)
  <2>1. PICK c : Raised(c, n) /\ Der!Power(n) = c[n]
    BY PowerIs
  <2>2. PICK e : Raised(e, n + 1) /\ Der!Power(n + 1) = e[n + 1]
    BY PowerIs
  <2>3. c[n] = e[n]
    BY <2>1, <2>2, RaisedAgrees
  <2>4. n + 1 \in 0 .. n + 1 /\ n + 1 # 0 /\ (n + 1) - 1 = n
    OBVIOUS
  <2>5. e[n + 1] = Der!Base * e[n]
    BY <2>2, <2>4 DEF Raised
  <2> QED BY <2>1, <2>2, <2>3, <2>5
<1> QED BY <1>1, <1>2

\* A later power is no smaller.
LEMMA PowerGrows ==
  ASSUME NEW n \in Nat
  PROVE  Der!Power(n) \in Nat /\ Der!Power(n) >= 1
<1> DEFINE S == {k \in Nat : Der!Power(k) \in Nat /\ Der!Power(k) >= 1}
<1>1. 0 \in S
  BY PowerOf
<1>2. ASSUME NEW k \in Nat, k \in S PROVE k + 1 \in S
  <2> DEFINE x == Der!Power(k)
  <2>1. x \in Nat /\ x >= 1 /\ Der!Power(k + 1) = Der!Base * x
    BY <1>2, PowerOf
  <2> HIDE DEF x
  <2>2. Der!Base * x \in Nat /\ Der!Base * x >= 1
    BY <2>1, OctetsAre
  <2> QED BY <2>1, <2>2
<1>3. n \in S
  <2> HIDE DEF S
  <2> QED BY <1>1, <1>2, Upwards
<1> QED BY <1>3

\* In numbers of n digits after the first, the first is worth u times itself.
Leading(b, n, u) ==
  \A q \in Seq(0 .. b - 1) : Len(q) = n + 1 => Der!Number(q, b) = q[1] * u + Der!Number(Tail(q), b)

\* A digit more at the end, and it is worth the base times that.
LEMMA LeadingStep ==
  ASSUME NEW b \in Nat, b > 1, NEW k \in Nat, NEW u \in Nat, NEW v, v = b * u, Leading(b, k, u)
  PROVE  Leading(b, k + 1, v)
<1> SUFFICES ASSUME NEW n \in Nat, n = k + 1, NEW p \in Seq(0 .. b - 1), Len(p) = n + 1
             PROVE  Der!Number(p, b) = p[1] * v + Der!Number(Tail(p), b)
  BY DEF Leading
<1> DEFINE D == 0 .. b - 1
<1>0. p # << >>
  BY EmptySeq
<1>1. PICK q \in Seq(D), d \in D : p = Append(q, d)
  BY <1>0, SequenceEmptyOrAppend
<1>11. Len(q) = n /\ Der!Number(p, b) = Der!Number(q, b) * b + d
  BY <1>1, AppendDigit
<1>2. q # << >>
  BY <1>11, EmptySeq
<1>21. p[1] = q[1] /\ Tail(p) = Append(Tail(q), d)
  <2>1. q # << >> => Append(q, d)[1] = q[1] /\ Tail(Append(q, d)) = Append(Tail(q), d)
    BY <1>1, AppendDigit, SMTT(30)
  <2> QED BY <1>1, <1>2, <2>1
<1> DEFINE r == Tail(q)
           t == Der!Number(r, b)
           x == q[1]
<1>3. x \in D /\ r \in Seq(D)
  BY <1>2, Counted
<1>4. t \in Nat
  BY <1>3, DigitsAreInt, NumberTyped
<1>5. Tail(p) = Append(r, d)
  BY <1>21
<1>6. Der!Number(Append(r, d), b) = t * b + (d % b)
  <2> HIDE DEF r
  <2> QED BY <1>3, NumberOf
<1>7. d % b = d
  BY Digit
<1>8. Der!Number(q, b) = x * u + t
  BY <1>11 DEF Leading
<1>9. x \in Int /\ u \in Int /\ t \in Int /\ d \in Int
  BY <1>3, <1>4
<1> HIDE DEF t, x, r
<1>10. (x * u + t) * b + d = x * (b * u) + (t * b + d)
  <2>1. (x * u + t) * b = (x * u) * b + t * b
    BY <1>9
  <2>2. (x * u) * b = x * (b * u)
    BY <1>9
  <2>3. x * (b * u) \in Int /\ t * b \in Int
    BY <1>9
  <2> QED BY <1>9, <2>1, <2>2, <2>3
<1>13. Der!Number(p, b) = (x * u + t) * b + d
  BY <1>11, <1>8
<1>12. p[1] * v + Der!Number(Tail(p), b) = x * (b * u) + (t * b + d)
  <2>1. p[1] = x
    BY <1>21 DEF x
  <2> QED BY <1>5, <1>6, <1>7, <2>1
<1> QED BY <1>10, <1>13, <1>12

\* The first digit of a number, and what it leads.
LEMMA FirstDigit ==
  ASSUME NEW b \in Nat, b > 1, NEW w, w[0] = 1, \A k \in Nat : w[k] \in Nat /\ w[k + 1] = b * w[k],
         NEW o \in Seq(0 .. b - 1), NEW n \in Nat, Len(o) = n + 1
  PROVE  Der!Number(o, b) = o[1] * w[n] + Der!Number(Tail(o), b)
<1> DEFINE D == 0 .. b - 1
           S == {k \in Nat : Leading(b, k, w[k])}
<1>1. ASSUME NEW p \in Seq(D), NEW k \in Nat, Len(p) = k + 1
      PROVE  /\ p # << >> /\ p[1] \in D /\ Tail(p) \in Seq(D) /\ Len(Tail(p)) = k
             /\ Der!Number(Tail(p), b) \in Nat
  <2>1. p # << >>
    BY <1>1, EmptySeq
  <2>2. p[1] \in D /\ Tail(p) \in Seq(D) /\ Len(Tail(p)) = Len(p) - 1
    BY <2>1, Counted
  <2>3. Der!Number(Tail(p), b) \in Nat
    BY <2>2, DigitsAreInt, NumberTyped
  <2> QED BY <1>1, <2>1, <2>2, <2>3
<1>2. 0 \in S
  <2> SUFFICES ASSUME NEW p \in Seq(D), Len(p) = 0 + 1
               PROVE  Der!Number(p, b) = p[1] * w[0] + Der!Number(Tail(p), b)
    BY DEF Leading
  <2>0. Len(p) = 1
    OBVIOUS
  <2>1. p = <<p[1]>> /\ p[1] \in D
    BY <2>0, Single
  <2>2. Der!Number(p, b) = p[1]
    BY <2>1, OneDigit
  <2>3. Tail(p) = << >>
    <3>1. p # << >> /\ Tail(p) \in Seq(D) /\ Len(Tail(p)) = 0
      BY <1>1
    <3> QED BY <3>1, EmptySeq
  <2>4. Der!Number(Tail(p), b) = 0
    BY <2>3, NumberOf, EmptySeq
  <2>5. p[1] \in Int
    BY <2>1
  <2> QED BY <2>2, <2>4, <2>5
<1>3. ASSUME NEW k \in Nat, k \in S PROVE k + 1 \in S
  <2>1. Leading(b, k, w[k]) /\ w[k] \in Nat /\ w[k + 1] = b * w[k]
    BY <1>3
  <2> DEFINE u == w[k]
             v == w[k + 1]
  <2>2. Leading(b, k, u) /\ u \in Nat /\ v = b * u
    BY <2>1
  <2> HIDE DEF u, v
  <2>3. Leading(b, k + 1, v)
    BY <2>2, LeadingStep
  <2> QED BY <2>3 DEF v
<1>4. n \in S
  <2> HIDE DEF S
  <2> QED BY <1>2, <1>3, Upwards
<1> QED BY <1>4 DEF Leading

\* What the first octet says of the number.
LEMMA FirstOctet ==
  ASSUME NEW o \in Seq(Der!Octets), NEW n \in Nat, Len(o) = n + 1
  PROVE  /\ o[1] \in Der!Octets /\ Tail(o) \in Seq(Der!Octets) /\ Len(Tail(o)) = n
         /\ Der!Number(Tail(o), Der!Base) \in Nat
         /\ Der!Number(o, Der!Base) = o[1] * Der!Power(n) + Der!Number(Tail(o), Der!Base)
<1> DEFINE B == Der!Base
           w == [k \in Nat |-> Der!Power(k)]
<1>1. B \in Nat /\ B > 1 /\ Der!Octets = 0 .. B - 1
  BY OctetsAre
<1>2. o # << >>
  BY EmptySeq
<1>3. o[1] \in Der!Octets /\ Tail(o) \in Seq(Der!Octets) /\ Len(Tail(o)) = Len(o) - 1
  BY <1>2, Counted
<1>4. Der!Number(Tail(o), B) \in Nat
  BY <1>1, <1>3, DigitsAreInt, NumberTyped
<1>5. w[0] = 1 /\ \A k \in Nat : w[k] \in Nat /\ w[k + 1] = B * w[k]
  <2>1. \A k \in Nat : w[k] = Der!Power(k)
    OBVIOUS
  <2>2. \A k \in Nat : k + 1 \in Nat
    OBVIOUS
  <2> HIDE DEF w
  <2> QED BY <2>1, <2>2, PowerOf, PowerGrows
<1>6. w[n] = Der!Power(n) /\ o \in Seq(0 .. B - 1)
  BY <1>1
<1> HIDE DEF w
<1>7. Der!Number(o, B) = o[1] * w[n] + Der!Number(Tail(o), B)
  BY <1>1, <1>5, <1>6, FirstDigit, ZenonT(40)
<1> QED BY <1>3, <1>4, <1>6, <1>7

\* And its bound.
LEMMA NumberBound ==
  ASSUME NEW o \in Seq(Der!Octets), NEW n \in Nat, Len(o) = n
  PROVE  Der!Number(o, Der!Base) \in Nat /\ Der!Number(o, Der!Base) < Der!Power(n)
<1> DEFINE B == Der!Base
           S == {k \in Nat : \A p \in Seq(Der!Octets) : Len(p) = k =>
                   Der!Number(p, B) \in Nat /\ Der!Number(p, B) < Der!Power(k)}
<1>1. 0 \in S
  <2>1. \A p \in Seq(Der!Octets) : Len(p) = 0 => p = << >>
    BY EmptySeq
  <2>2. Der!Number(<< >>, B) = 0
    BY NumberOf, EmptySeq
  <2> QED BY <2>1, <2>2, PowerOf
<1>2. ASSUME NEW k \in Nat, k \in S PROVE k + 1 \in S
  <2> SUFFICES ASSUME NEW p \in Seq(Der!Octets), Len(p) = k + 1
               PROVE  Der!Number(p, B) \in Nat /\ Der!Number(p, B) < Der!Power(k + 1)
    OBVIOUS
  <2> DEFINE x == p[1]
             P == Der!Power(k)
             t == Der!Number(Tail(p), B)
  <2>1. x \in Der!Octets /\ Tail(p) \in Seq(Der!Octets) /\ Len(Tail(p)) = k
        /\ Der!Number(p, B) = x * P + t
    BY FirstOctet
  <2>2. t \in Nat /\ t < P
    BY <1>2, <2>1
  <2>3. P \in Nat /\ Der!Power(k + 1) = B * P /\ B \in Nat /\ x \in Nat /\ x <= B - 1
    BY <2>1, PowerOf, PowerGrows, OctetsAre
  <2> HIDE DEF x, P, t, B
  <2>4. x * P <= (B - 1) * P
    BY <2>3
  <2>5. (B - 1) * P = B * P - P
    BY <2>3
  <2> DEFINE y == x * P
             z == B * P
  <2>6. y \in Nat /\ z \in Nat /\ y <= z - P
    BY <2>3, <2>4, <2>5
  <2>7. Der!Number(p, B) = y + t /\ Der!Power(k + 1) = z
    BY <2>1, <2>3 DEF B
  <2> HIDE DEF y, z
  <2> QED BY <2>2, <2>3, <2>6, <2>7
<1>3. n \in S
  <2> HIDE DEF S
  <2> QED BY <1>1, <1>2, Upwards
<1> QED BY <1>3

-----------------------------------------------------------------------------
\* What a power of the base gives.
LEMMA Scales ==
  ASSUME NEW u \in Nat, NEW v \in Nat, NEW P \in Nat, u <= v
  PROVE  u * P <= v * P /\ u * P \in Nat /\ v * P \in Nat
<1>1. PICK e \in Nat : v = u + e
  <2>1. v - u \in Nat /\ v = u + (v - u)
    OBVIOUS
  <2> QED BY <2>1
<1>2. v * P = u * P + e * P
  BY <1>1
<1>3. u * P \in Nat /\ e * P \in Nat
  OBVIOUS
<1> DEFINE x == u * P
           y == e * P
<1>4. x \in Nat /\ y \in Nat /\ v * P = x + y
  BY <1>2, <1>3
<1> HIDE DEF x, y
<1>5. x <= x + y /\ x + y \in Nat
  BY <1>4
<1> QED BY <1>4, <1>5 DEF x

\* The value of an INTEGER of octets x, y and others worth r below P.
Signed(H, B, P, x, y, r, N, W, V) ==
  N = x * (B * P) + (y * P + r) /\ W = B * (B * P) /\ V = N - (IF x >= H THEN W ELSE 0)

\* A first octet that tells nothing but the sign is the one that can be left out.
LEMMA Widths ==
  ASSUME NEW H \in Nat, H > 1, NEW B \in Nat, B = 2 * H, NEW P \in Nat, P >= 1,
         NEW x \in 0 .. B - 1, NEW y \in 0 .. B - 1, NEW r \in Nat, r < P,
         NEW N, NEW W, NEW V, Signed(H, B, P, x, y, r, N, W, V)
  PROVE  -(H * P) <= V /\ V < H * P <=> (x = 0 /\ y < H) \/ (x = B - 1 /\ y >= H)
<1> DEFINE h == H * P
           Q == B * P
           low == y * P + r
           BQ == B * Q
           xQ == x * Q
<1>1. h \in Nat /\ h >= 1 /\ Q \in Nat /\ Q = h + h
  <2>1. 1 * P <= H * P /\ H * P \in Nat /\ 1 * P = P
    BY Scales
  <2>2. (H + H) * P = H * P + H * P /\ B = H + H
    OBVIOUS
  <2> QED BY <2>1, <2>2
<1>2. low \in Nat /\ (y < H => low < h) /\ (y >= H => low >= h) /\ low < Q
  <2> DEFINE z == y * P
  <2>1. z \in Nat
    OBVIOUS
  <2>2. y < H => z + P <= h
    <3> HAVE y < H
    <3>1. (y + 1) * P <= H * P
      <4>1. y + 1 <= H /\ y + 1 \in Nat
        OBVIOUS
      <4> QED BY <4>1, Scales
    <3>2. (y + 1) * P = y * P + P
      OBVIOUS
    <3> QED BY <3>1, <3>2
  <2>3. y >= H => z >= h
    <3> HAVE y >= H
    <3>1. H <= y /\ y \in Nat
      OBVIOUS
    <3>2. H * P <= y * P
      BY <3>1, Scales
    <3> QED BY <3>2, <1>1, <2>1
  <2>4. z + P <= Q
    <3>1. (y + 1) * P <= B * P
      <4>1. y + 1 <= B /\ y + 1 \in Nat
        OBVIOUS
      <4> QED BY <4>1, Scales
    <3>2. (y + 1) * P = y * P + P
      OBVIOUS
    <3> QED BY <3>1, <3>2
  <2> HIDE DEF z, h, Q
  <2>5. low = z + r
    BY DEF z
  <2> HIDE DEF low
  <2> QED BY <1>1, <2>1, <2>2, <2>3, <2>4, <2>5
<1>3. V = xQ + low - (IF x >= H THEN BQ ELSE 0)
  BY DEF Signed
<1>4. xQ \in Nat /\ BQ \in Nat
  <2> HIDE DEF Q
  <2> QED BY <1>1
<1>5. CASE x = 0
  <2>1. xQ = 0 /\ ~(x >= H) /\ ~(x = B - 1)
    <3> HIDE DEF Q
    <3> QED BY <1>1, <1>5
  <2> HIDE DEF xQ, BQ, low, h, Q
  <2>2. V = low
    BY <1>2, <1>3, <2>1
  <2> QED BY <1>1, <1>2, <1>5, <2>1, <2>2 DEF h
<1>6. CASE x # 0 /\ x < H
  <2>1. xQ >= Q
    <3> HIDE DEF Q
    <3>1. 1 * Q <= x * Q /\ 1 * Q = Q
      BY <1>1, <1>6, Scales
    <3> QED BY <3>1
  <2>2. ~(x >= H) /\ x # B - 1
    BY <1>6
  <2> HIDE DEF xQ, BQ, low, h, Q
  <2>3. V = xQ + low
    BY <1>2, <1>3, <1>4, <2>2
  <2>4. ~(V < h)
    BY <1>1, <1>2, <1>4, <2>1, <2>3
  <2> QED BY <1>6, <2>2, <2>4 DEF h
<1>7. CASE x = B - 1
  <2>1. xQ = BQ - Q
    <3> HIDE DEF Q
    <3>1. (B - 1) * Q = B * Q - Q
      BY <1>1
    <3> QED BY <1>7, <3>1
  <2>2. x >= H /\ x # 0
    BY <1>7
  <2> HIDE DEF xQ, BQ, low, h, Q
  <2>3. V = low - Q
    BY <1>1, <1>2, <1>3, <1>4, <2>1, <2>2
  <2>4. -h <= V <=> low >= h
    BY <1>1, <1>2, <2>3
  <2>5. V < h
    BY <1>1, <1>2, <2>3
  <2> QED BY <1>2, <1>1, <1>7, <2>2, <2>4, <2>5 DEF h
<1>8. CASE x # B - 1 /\ x >= H
  <2>1. xQ <= BQ - Q - Q
    <3> HIDE DEF Q
    <3>1. x <= B - 2 /\ x \in Nat /\ B - 2 \in Nat
      BY <1>8
    <3>2. x * Q <= (B - 2) * Q
      BY <1>1, <3>1, Scales
    <3>3. (B - 2) * Q = B * Q - Q - Q
      BY <1>1
    <3> QED BY <3>2, <3>3
  <2>2. x # 0
    BY <1>8
  <2> HIDE DEF xQ, BQ, low, h, Q
  <2>3. V = xQ + low - BQ
    BY <1>3, <1>8
  <2>4. ~(-h <= V)
    BY <1>1, <1>2, <1>4, <2>1, <2>3
  <2> QED BY <1>8, <2>2, <2>4 DEF h
<1> QED BY <1>5, <1>6, <1>7, <1>8

\* What fits some octets fits more of them.
LEMMA FitsGrows ==
  ASSUME NEW v \in Int, NEW k \in Nat \ {0}, NEW m \in Nat, k <= m, Der!Fits(v, k)
  PROVE  Der!Fits(v, m)
<1> DEFINE S == {i \in Nat : Der!Fits(v, k + i)}
<1>1. 0 \in S
  OBVIOUS
<1>2. ASSUME NEW i \in Nat, i \in S PROVE i + 1 \in S
  <2> DEFINE P == Der!Power(k + i - 1)
             R == Der!Power(k + (i + 1) - 1)
             j == k + i - 1
  <2>1. j \in Nat /\ j + 1 = k + (i + 1) - 1
    OBVIOUS
  <2>2. P \in Nat /\ R = Der!Base * P
    BY <2>1, PowerOf, PowerGrows
  <2>3. -(High * P) <= v /\ v < High * P
    BY <1>2 DEF Der!Fits
  <2> HIDE DEF P, R
  <2>4. High * P \in Nat /\ High * P <= High * R /\ High * R \in Nat
    <3>1. P <= R /\ R \in Nat
      <4>1. 1 * P <= Der!Base * P /\ Der!Base * P \in Nat /\ 1 * P = P
        BY <2>2, OctetsAre, Scales
      <4> QED BY <2>2, <4>1
    <3>2. P * High <= R * High /\ P * High \in Nat /\ R * High \in Nat
      BY <2>2, <3>1, OctetsAre, Scales
    <3>3. High \in Nat
      BY OctetsAre
    <3> QED BY <2>2, <3>1, <3>2, <3>3
  <2>5. -(High * R) <= v /\ v < High * R
    <3> DEFINE p == High * P
               r == High * R
    <3>1. p \in Nat /\ r \in Nat /\ p <= r /\ -p <= v /\ v < p
      BY <2>3, <2>4
    <3> HIDE DEF p, r
    <3>2. -r <= v /\ v < r
      BY <3>1
    <3> QED BY <3>2 DEF r
  <2> QED BY <2>5 DEF Der!Fits, R
<1>3. m - k \in S
  <2>1. m - k \in Nat
    OBVIOUS
  <2> HIDE DEF S
  <2> QED BY <1>1, <1>2, <2>1, Upwards
<1>4. k + (m - k) = m
  OBVIOUS
<1> QED BY <1>3, <1>4

\* An INTEGER is accepted in its shortest form.
LEMMA IntegerOneForm ==
  ASSUME NEW o \in Seq(Der!Octets)
  PROVE  Der!DerVersion(o) <=> /\ Len(o) \in 1 .. MaxOctets
                               /\ \A k \in 1 .. Len(o) - 1 : ~Der!Fits(Der!DerBigInt(o), k)
<1> DEFINE n == Len(o)
           H == High
           B == Der!Base
           V == Der!DerBigInt(o)
<1>0. /\ H \in Nat /\ H > 1 /\ B \in Nat /\ B = 2 * H /\ Der!Octets = 0 .. B - 1
      /\ n \in Nat /\ (n = 0 <=> o = << >>) /\ MaxOctets \in Nat
  BY OctetsAre, EmptySeq, LenProperties
<1>1. CASE n = 0
  BY <1>0, <1>1 DEF Der!DerVersion, Der!DerInteger
<1>2. CASE n = 1
  <2>1. Der!DerVersion(o) <=> n <= MaxOctets
    BY <1>0, <1>2 DEF Der!DerVersion, Der!DerInteger
  <2>2. 1 .. n - 1 = {}
    BY <1>2
  <2> QED BY <1>0, <1>2, <2>1, <2>2
<1>3. CASE n > 1
  <2>1. PICK m \in Nat : n = m + 2
    <3>1. n - 2 \in Nat /\ n = (n - 2) + 2
      BY <1>0, <1>3
    <3> QED BY <3>1
  <2> DEFINE P == Der!Power(m)
             t == Tail(o)
             u == Tail(t)
             r == Der!Number(u, B)
             x == o[1]
             y == o[2]
  <2>2. /\ x \in Der!Octets /\ t \in Seq(Der!Octets) /\ Len(t) = m + 1
        /\ Der!Number(o, B) = x * Der!Power(m + 1) + Der!Number(t, B)
    <3>1. m + 1 \in Nat /\ Len(o) = (m + 1) + 1
      BY <2>1
    <3> QED BY <3>1, FirstOctet
  <2>3. /\ t[1] \in Der!Octets /\ u \in Seq(Der!Octets) /\ Len(u) = m
        /\ Der!Number(t, B) = t[1] * P + r
    <3> HIDE DEF t
    <3> QED BY <2>2, FirstOctet
  <2>4. t[1] = y
    BY <1>0, <1>1, <1>3, Counted
  <2>5. r \in Nat /\ r < P
    <3> HIDE DEF u
    <3> QED BY <2>3, NumberBound
  <2>6. P \in Nat /\ P >= 1 /\ Der!Power(m + 1) = B * P /\ Der!Power(m + 2) = B * (B * P)
    <3>1. m + 1 \in Nat /\ (m + 1) + 1 = m + 2
      OBVIOUS
    <3> QED BY <3>1, PowerOf, PowerGrows
  <2> DEFINE N == Der!Number(o, B)
             W == Der!Power(n)
  <2>7. Signed(H, B, P, x, y, r, N, W, V)
    <3>1. V = N - (IF x >= H THEN W ELSE 0)
      BY DEF Der!DerBigInt
    <3>2. N = x * (B * P) + (y * P + r)
      BY <2>2, <2>3, <2>4, <2>6, Zenon
    <3>3. W = B * (B * P)
      BY <2>1, <2>6, Zenon
    <3> HIDE DEF V, N, r, W, x
    <3> QED BY <3>1, <3>2, <3>3, Zenon DEF Signed
  <2>8. x \in 0 .. B - 1 /\ y \in 0 .. B - 1
    BY <1>0, <2>2, <2>3, <2>4
  <2>9. V \in Int
    <3>1. N \in Nat /\ W \in Nat
      BY <1>0, NumberBound, PowerGrows
    <3> HIDE DEF V, N, r, W, x
    <3>2. V = N - (IF x >= H THEN W ELSE 0)
      BY <2>7, Zenon DEF Signed
    <3> QED BY <3>1, <3>2
  <2> DEFINE mid == H * P
  <2>10. -mid <= V /\ V < mid <=> (x = 0 /\ y < H) \/ (x = B - 1 /\ y >= H)
    <3> HIDE DEF H, B, N, W, V, P, r, x, y, t
    <3> QED BY <1>0, <2>5, <2>6, <2>7, <2>8, Widths
  <2>14. Der!Fits(V, n - 1) <=> -mid <= V /\ V < mid
    <3>1. (n - 1) - 1 = m
      BY <2>1
    <3> QED BY <3>1 DEF Der!Fits
  <2>11. Der!DerVersion(o) <=> ~Der!Fits(V, n - 1) /\ n <= MaxOctets
    <3>1. Der!DerVersion(o) <=> ~((x = 0 /\ y < H) \/ (x = B - 1 /\ y >= H)) /\ n <= MaxOctets
      BY <1>0, <1>3 DEF Der!DerVersion, Der!DerInteger
    <3> QED BY <2>10, <2>14, <3>1, Zenon
  <2>13. (\E k \in 1 .. n - 1 : Der!Fits(V, k)) <=> Der!Fits(V, n - 1)
    <3>1. n - 1 \in 1 .. n - 1 /\ n - 1 \in Nat
      BY <1>0, <1>3
    <3>2. ASSUME NEW k \in 1 .. n - 1, Der!Fits(V, k) PROVE Der!Fits(V, n - 1)
      <4>1. k \in Nat \ {0} /\ k <= n - 1
        BY <3>1
      <4> QED BY <2>9, <3>1, <3>2, <4>1, FitsGrows
    <3> QED BY <3>1, <3>2
  <2> HIDE DEF V
  <2> QED BY <1>0, <1>3, <2>11, <2>13 DEF V
<1>4. n = 0 \/ n = 1 \/ n > 1
  <2>1. n \in Nat
    BY <1>0
  <2> HIDE DEF n
  <2> QED BY <2>1
<1> QED BY <1>1, <1>2, <1>3, <1>4, Zenon

-----------------------------------------------------------------------------
\* The octets of a subidentifier: all but the last say that more follow, and the
\* first says something.
More == High .. Der!Base - 1
Open(p) == p \in Seq(More) /\ (p # << >> => p[1] # High)

\* What an octet that says more follow leaves, and a digit with that said.
LEMMA MoreAre ==
  /\ More \subseteq Int /\ More \subseteq Der!Octets /\ 0 .. High - 1 \subseteq Der!Octets
  /\ \A i \in More : i % High = i - High /\ i - High \in 0 .. High - 1 /\ High + (i - High) = i
  /\ \A i \in 0 .. High - 1 : i % High = i /\ High + i \in More /\ (High + i) % High = i
  /\ \A i \in More : ~(i < High)
<1>1. High \in Nat /\ High > 1 /\ More = High .. 2 * High - 1 /\ Der!Octets = 0 .. 2 * High - 1
  BY OctetsAre DEF More
<1>2. More \subseteq Int /\ More \subseteq Der!Octets /\ 0 .. High - 1 \subseteq Der!Octets
      /\ \A i \in More : ~(i < High)
  BY <1>1
<1>3. ASSUME NEW i \in More PROVE i % High = i - High /\ i - High \in 0 .. High - 1 /\ High + (i - High) = i
  <2>1. i \in High .. 2 * High - 1 /\ i \in Int
    BY <1>1
  <2>2. i % High = i - High
    BY <1>1, <2>1, Remains
  <2>3. i - High \in 0 .. High - 1 /\ High + (i - High) = i
    BY <1>1, <2>1
  <2> QED BY <2>2, <2>3
<1>4. ASSUME NEW i \in 0 .. High - 1 PROVE i % High = i /\ High + i \in More /\ (High + i) % High = i
  <2>1. High + i \in High .. 2 * High - 1 /\ High + i \in Int /\ i \in Int
    BY <1>1
  <2>2. (High + i) % High = (High + i) - High
    BY <1>1, <2>1, Remains
  <2>3. i % High = i
    BY <1>1, <2>1, Remains
  <2>4. (High + i) - High = i /\ High + i \in More
    BY <1>1, <2>1
  <2> QED BY <2>2, <2>3, <2>4
<1> QED BY <1>2, <1>3, <1>4

\* A sequence and one element more, as a function.
LEMMA AppendIs ==
  ASSUME NEW U, NEW s \in Seq(U), NEW d \in U
  PROVE  /\ Append(s, d) = [i \in 1 .. Len(s) + 1 |-> IF i <= Len(s) THEN s[i] ELSE d]
         /\ Append(s, d) \in Seq(U) /\ Len(Append(s, d)) = Len(s) + 1 /\ Len(s) \in Nat
<1> DEFINE n == Len(s)
           t == Append(s, d)
<1>1. n \in Nat /\ t \in Seq(U) /\ Len(t) = n + 1 /\ t[n + 1] = d /\ \A i \in 1 .. n : t[i] = s[i]
  BY AppendProperties, LenProperties
<1> HIDE DEF t, n
<1>2. t = [i \in 1 .. n + 1 |-> t[i]]
  BY <1>1
<1>3. \A i \in 1 .. n + 1 : t[i] = IF i <= n THEN s[i] ELSE d
  BY <1>1
<1>4. [i \in 1 .. n + 1 |-> t[i]] = [i \in 1 .. n + 1 |-> IF i <= n THEN s[i] ELSE d]
  BY <1>3
<1> QED BY <1>1, <1>2, <1>4 DEF t, n

\* A subidentifier is written as such octets and a last one.
LEMMA SubCodeIs ==
  ASSUME NEW n \in Nat
  PROVE  \E p \in Seq(More), d \in 0 .. High - 1 :
           Open(p) /\ Der!SubCode(n) = Append(p, d) /\ Der!Number(Der!SubCode(n), High) = n
<1> DEFINE dg == Der!Digits(n, High)
           k == Len(dg)
           f == [i \in DOMAIN dg |-> IF i < Len(dg) THEN High + dg[i] ELSE dg[i]]
<1>0. High \in Nat /\ High > 1
  BY OctetsAre
<1>1. Canon(dg, High) /\ Der!Number(dg, High) = n
  BY <1>0, DigitsAre
<1>2. dg \in Seq(0 .. High - 1) /\ dg # << >> /\ (k > 1 => dg[1] # 0)
  BY <1>1 DEF Canon
<1>3. Der!SubCode(n) = f
  BY DEF Der!SubCode
<1> HIDE DEF dg
<1>4. /\ DOMAIN dg = 1 .. k /\ k \in Nat \ {0}
      /\ \A i \in 1 .. k : dg[i] \in 0 .. High - 1
  BY <1>2, EmptySeq, LenProperties, ElementOfSeq
<1> HIDE DEF k
<1> DEFINE p == [i \in 1 .. k - 1 |-> High + dg[i]]
           d == dg[k]
<1>5. p \in Seq(More) /\ Len(p) = k - 1
  <2>1. \A i \in 1 .. k - 1 : High + dg[i] \in More
    <3> TAKE i \in 1 .. k - 1
    <3>1. i \in 1 .. k
      BY <1>4
    <3> QED BY <1>4, <3>1, MoreAre
  <2>2. k - 1 \in Nat
    BY <1>4
  <2> QED BY <2>1, <2>2
<1>6. d \in 0 .. High - 1
  BY <1>4
<1>7. Open(p)
  <2> SUFFICES ASSUME p # << >> PROVE p[1] # High
    BY <1>5 DEF Open
  <2>1. Len(p) \in Nat \ {0}
    BY <1>5, EmptySeq
  <2>2. k > 1 /\ 1 \in 1 .. k - 1 /\ 1 \in 1 .. k
    BY <1>4, <1>5, <2>1
  <2>3. dg[1] # 0 /\ dg[1] \in 0 .. High - 1
    BY <1>2, <1>4, <2>2 DEF k
  <2>4. p[1] = High + dg[1]
    BY <2>2
  <2> HIDE DEF p
  <2> QED BY <1>0, <2>3, <2>4
<1>8. f = [i \in 1 .. k |-> IF i < k THEN High + dg[i] ELSE dg[i]]
  BY <1>4 DEF k
<1>9. f = Append(p, d)
  <2>1. Append(p, d) = [i \in 1 .. k |-> IF i < k THEN High + dg[i] ELSE dg[i]]
    <3>1. Append(p, d) = [i \in 1 .. Len(p) + 1 |-> IF i <= Len(p) THEN p[i] ELSE d]
      <4>1. d \in Int /\ More \subseteq Int
        BY <1>6, MoreAre
      <4> HIDE DEF p, d
      <4>2. p \in Seq(Int)
        BY <1>5, <4>1, SeqMonotonic
      <4> QED BY <4>1, <4>2, AppendIs
    <3>2. Len(p) + 1 = k /\ \A i \in 1 .. k : (i <= Len(p) <=> i < k)
      BY <1>4, <1>5
    <3>3. \A i \in 1 .. k : (IF i <= Len(p) THEN p[i] ELSE d) = (IF i < k THEN High + dg[i] ELSE dg[i])
      <4> TAKE i \in 1 .. k
      <4>1. i < k => i \in 1 .. k - 1
        BY <1>4
      <4>2. ~(i < k) => i = k
        BY <1>4
      <4> QED BY <3>2, <4>1, <4>2
    <3> HIDE DEF p, d
    <3> QED BY <3>1, <3>2, <3>3
  <2> QED BY <1>8, <2>1, Zenon
<1>10. Der!Number(f, High) = n
  <2>1. \A i \in 1 .. k : f[i] % High = dg[i] % High
    <3> TAKE i \in 1 .. k
    <3>1. f[i] = IF i < k THEN High + dg[i] ELSE dg[i]
      BY <1>8
    <3>2. (High + dg[i]) % High = dg[i] /\ dg[i] % High = dg[i]
      BY <1>4, MoreAre
    <3> HIDE DEF f
    <3> QED BY <3>1, <3>2
  <2>2. Len(f) = k /\ Len(dg) = k /\ k \in Nat
    BY <1>4, <1>8 DEF k
  <2> HIDE DEF f
  <2>3. Der!Number(f, High) = Der!Number(dg, High)
    BY <2>1, <2>2, NumberSame
  <2> QED BY <1>1, <2>3
<1> HIDE DEF p, d, f
<1> QED BY <1>3, <1>5, <1>6, <1>7, <1>9, <1>10

\* And such octets and a last one are the subidentifier they are worth.
LEMMA SubCodeOnly ==
  ASSUME NEW p, Open(p), NEW d \in 0 .. High - 1
  PROVE  /\ Der!Number(Append(p, d), High) \in Nat
         /\ Der!SubCode(Der!Number(Append(p, d), High)) = Append(p, d)
<1> DEFINE q == Append(p, d)
           k == Len(p) + 1
           dg == [i \in 1 .. k |-> q[i] % High]
           n == Der!Number(q, High)
           D == 0 .. High - 1
<1>0. High \in Nat /\ High > 1
  BY OctetsAre
<1>1. /\ p \in Seq(More) /\ Len(p) \in Nat /\ k \in Nat \ {0}
      /\ \A i \in 1 .. Len(p) : p[i] \in More
  BY LenProperties, ElementOfSeq DEF Open
<1>2. /\ q = [i \in 1 .. k |-> IF i <= Len(p) THEN p[i] ELSE d]
      /\ Len(q) = k /\ q \in Seq(Der!Octets)
  <2>1. p \in Seq(Der!Octets) /\ d \in Der!Octets
    BY <1>1, MoreAre, SeqMonotonic
  <2> QED BY <2>1, AppendIs
<1> HIDE DEF q, k
<1>3. \A i \in 1 .. k : /\ dg[i] \in D /\ dg[i] % High = q[i] % High
                        /\ (i < k => High + dg[i] = q[i]) /\ (~(i < k) => dg[i] = q[i])
  <2> TAKE i \in 1 .. k
  <2>1. dg[i] = q[i] % High
    OBVIOUS
  <2> HIDE DEF dg
  <2>2. CASE i < k
    <3>1. i \in 1 .. Len(p) /\ i <= Len(p)
      BY <1>1, <2>2 DEF k
    <3>2. q[i] = p[i] /\ p[i] \in More
      BY <1>1, <1>2, <3>1
    <3>3. dg[i] = q[i] - High /\ dg[i] \in D /\ High + dg[i] = q[i]
      BY <2>1, <3>2, MoreAre
    <3>4. dg[i] % High = dg[i]
      BY <3>3, MoreAre
    <3> QED BY <2>1, <2>2, <3>3, <3>4
  <2>3. CASE ~(i < k)
    <3>1. ~(i <= Len(p))
      BY <1>1, <2>3 DEF k
    <3>2. q[i] = d
      BY <1>2, <3>1
    <3>3. d % High = d
      BY MoreAre
    <3> QED BY <2>1, <2>3, <3>2, <3>3
  <2> QED BY <2>2, <2>3
<1>4. dg \in Seq(D) /\ Len(dg) = k /\ DOMAIN dg = 1 .. k
  BY <1>1, <1>3
<1>5. k > 1 => dg[1] # 0
  <2> HAVE k > 1
  <2>1. Len(p) >= 1 /\ 1 \in 1 .. Len(p) /\ 1 \in 1 .. k /\ 1 < k
    BY <1>1 DEF k
  <2>2. q[1] = p[1] /\ p # << >>
    <3>1. q[1] = p[1]
      BY <1>2, <2>1
    <3>2. p # << >>
      BY <2>1
    <3> QED BY <3>1, <3>2
  <2>3. p[1] # High
    BY <2>2 DEF Open
  <2>4. High + dg[1] = q[1] /\ dg[1] \in D
    BY <1>3, <2>1
  <2> HIDE DEF dg
  <2> QED BY <1>0, <2>2, <2>3, <2>4
<1> HIDE DEF dg
<1>6. Canon(dg, High)
  <2>1. dg # << >>
    <3>1. Len(dg) # 0
      BY <1>1, <1>4
    <3> QED BY <3>1
  <2> QED BY <1>4, <1>5, <2>1 DEF Canon
<1>7. Der!Number(dg, High) = n
  <2>1. Len(dg) = Len(q) /\ Len(dg) \in Nat /\ \A i \in 1 .. Len(dg) : dg[i] % High = q[i] % High
    BY <1>1, <1>2, <1>3, <1>4
  <2> QED BY <2>1, NumberSame
<1>8. n \in Nat /\ dg = Der!Digits(n, High)
  BY <1>0, <1>6, <1>7, DigitsOnly
<1>9. Der!SubCode(n) = [i \in DOMAIN dg |-> IF i < Len(dg) THEN High + dg[i] ELSE dg[i]]
  <2> HIDE DEF n
  <2> QED BY <1>8, Zenon DEF Der!SubCode
<1>10. [i \in DOMAIN dg |-> IF i < Len(dg) THEN High + dg[i] ELSE dg[i]] = [i \in 1 .. k |-> q[i]]
  BY <1>3, <1>4
<1>11. [i \in 1 .. k |-> q[i]] = q
  BY <1>2
<1> QED BY <1>8, <1>9, <1>10, <1>11 DEF q

-----------------------------------------------------------------------------
\* Where derOID starts.
Ready == [ok |-> TRUE, start |-> TRUE, v |-> 0]
Went(c, o, n) == c = [i \in 0 .. n |-> IF i = 0 THEN Ready ELSE Der!OIDStep(c[i - 1], o[i])]

\* Its loop over any octets.
LEMMA WentExists == ASSUME NEW o, NEW n \in Nat PROVE \E c : Went(c, o, n)
<1> DEFINE S == {k \in Nat : \E c : Went(c, o, k)}
<1>1. 0 \in S
  <2> DEFINE c == [i \in 0 .. 0 |-> Ready]
  <2>1. Went(c, o, 0)
    BY DEF Went
  <2> QED BY <2>1
<1>2. ASSUME NEW k \in Nat, k \in S PROVE k + 1 \in S
  <2>1. PICK c : Went(c, o, k)
    BY <1>2
  <2> DEFINE g == [i \in 0 .. k + 1 |-> IF i = 0 THEN Ready ELSE Der!OIDStep(c[i - 1], o[i])]
  <2>2. \A i \in 0 .. k : g[i] = c[i]
    BY <2>1 DEF Went
  <2>3. \A i \in 0 .. k + 1 : i # 0 => i - 1 \in 0 .. k
    OBVIOUS
  <2>4. Went(g, o, k + 1)
    BY <2>2, <2>3 DEF Went
  <2> QED BY <2>4
<1>3. n \in S
  <2> HIDE DEF S
  <2> QED BY <1>1, <1>2, Upwards
<1> QED BY <1>3

\* The loop is told by the octets it has been over.
LEMMA WentAgrees ==
  ASSUME NEW o, NEW p, NEW n \in Nat, NEW m \in Nat, n <= m, \A i \in 1 .. n : o[i] = p[i],
         NEW c, Went(c, o, n), NEW e, Went(e, p, m)
  PROVE  c[n] = e[n]
<1> DEFINE S == {k \in Nat : k <= n => c[k] = e[k]}
<1>0. /\ \A i \in 0 .. n : c[i] = IF i = 0 THEN Ready ELSE Der!OIDStep(c[i - 1], o[i])
      /\ \A i \in 0 .. m : e[i] = IF i = 0 THEN Ready ELSE Der!OIDStep(e[i - 1], p[i])
  BY DEF Went
<1>1. 0 \in S
  BY <1>0
<1>2. ASSUME NEW k \in Nat, k \in S PROVE k + 1 \in S
  <2> SUFFICES ASSUME k + 1 <= n PROVE c[k + 1] = e[k + 1]
    OBVIOUS
  <2>1. /\ k + 1 \in 0 .. n /\ k + 1 \in 0 .. m /\ k + 1 \in 1 .. n /\ k + 1 # 0
        /\ (k + 1) - 1 = k /\ k <= n
    OBVIOUS
  <2> QED BY <1>0, <1>2, <2>1
<1>3. n \in S
  <2> HIDE DEF S
  <2> QED BY <1>1, <1>2, Upwards
<1> QED BY <1>3

\* The scan ends with the last of its states.
LEMMA ScannedIs ==
  ASSUME NEW o, Len(o) \in Nat
  PROVE  \E c : Went(c, o, Len(o)) /\ Der!Scanned(o) = c[Len(o)]
<1> DEFINE P(c) == c = [i \in 0 .. Len(o) |-> IF i = 0 THEN [ok |-> TRUE, start |-> TRUE, v |-> 0]
                                                       ELSE Der!OIDStep(c[i - 1], o[i])]
           c == CHOOSE c : P(c)
<1>1. \E e : P(e)
  <2>1. PICK e : Went(e, o, Len(o))
    BY WentExists
  <2>2. P(e)
    BY <2>1 DEF Went, Ready
  <2> QED BY <2>2
<1>2. P(c)
  BY <1>1
<1>3. Der!Scanned(o) = c[Len(o)]
  BY DEF Der!Scanned
<1> QED BY <1>2, <1>3 DEF Went, Ready

\* It reads from the left.
LEMMA ScannedOf ==
  ASSUME NEW U, NEW o \in Seq(U), NEW d \in U
  PROVE  /\ Der!Scanned(<< >>) = Ready
         /\ Der!Scanned(Append(o, d)) = Der!OIDStep(Der!Scanned(o), d)
<1>1. Der!Scanned(<< >>) = Ready
  <2>1. Len(<< >>) = 0
    OBVIOUS
  <2>2. PICK c : Went(c, << >>, 0) /\ Der!Scanned(<< >>) = c[0]
    BY <2>1, ScannedIs
  <2> QED BY <2>2 DEF Went
<1> DEFINE n == Len(o)
           q == Append(o, d)
<1>2. n \in Nat /\ Len(q) = n + 1 /\ q[n + 1] = d /\ \A i \in 1 .. n : q[i] = o[i]
  BY AppendProperties, LenProperties
<1> HIDE DEF q
<1>3. PICK c : Went(c, o, n) /\ Der!Scanned(o) = c[n]
  BY <1>2, ScannedIs
<1>4. PICK e : Went(e, q, n + 1) /\ Der!Scanned(q) = e[n + 1]
  BY <1>2, ScannedIs
<1> HIDE DEF n
<1>5. c[n] = e[n]
  <2>1. n + 1 \in Nat /\ n <= n + 1 /\ \A i \in 1 .. n : o[i] = q[i]
    BY <1>2
  <2> QED BY <1>2, <1>3, <1>4, <2>1, WentAgrees
<1>6. e[n + 1] = Der!OIDStep(e[n], q[n + 1])
  <2>1. n + 1 \in 0 .. n + 1 /\ n + 1 # 0 /\ (n + 1) - 1 = n
    BY <1>2
  <2> QED BY <1>4, <2>1 DEF Went
<1> QED BY <1>1, <1>2, <1>3, <1>4, <1>5, <1>6 DEF q

\* One step of it.
LEMMA StepIs ==
  ASSUME NEW s, NEW d, s.ok \in BOOLEAN
  PROVE  /\ Der!OIDStep(s, d).ok <=>
              s.ok /\ ~(s.start /\ d = High) /\ s.v * High + (d % High) <= MaxSub
         /\ Der!OIDStep(s, d).start <=> d < High
         /\ d < High => Der!OIDStep(s, d).v = 0
         /\ ~(d < High) => Der!OIDStep(s, d).v = s.v * High + (d % High)
BY DEF Der!OIDStep

-----------------------------------------------------------------------------
\* One sequence after the other.
Joined(c, t, n) == c = [i \in 1 .. n |-> IF i = 1 THEN t[i] ELSE c[i - 1] \o t[i]]

\* Any sequences can be joined.
LEMMA JoinedExists == ASSUME NEW t, NEW n \in Nat PROVE \E c : Joined(c, t, n)
<1> DEFINE S == {k \in Nat : \E c : Joined(c, t, k)}
<1>1. 0 \in S
  <2> DEFINE c == [i \in 1 .. 0 |-> t[1]]
  <2>1. Joined(c, t, 0)
    BY DEF Joined
  <2> QED BY <2>1
<1>2. ASSUME NEW k \in Nat, k \in S PROVE k + 1 \in S
  <2>1. PICK c : Joined(c, t, k)
    BY <1>2
  <2> DEFINE g == [i \in 1 .. k + 1 |-> IF i = 1 THEN t[i] ELSE c[i - 1] \o t[i]]
  <2>2. \A i \in 1 .. k : g[i] = c[i]
    <3> TAKE i \in 1 .. k
    <3>1. i \in 1 .. k + 1
      OBVIOUS
    <3>2. c[i] = IF i = 1 THEN t[i] ELSE c[i - 1] \o t[i]
      BY <2>1, Zenon DEF Joined
    <3>3. g[i] = IF i = 1 THEN t[i] ELSE c[i - 1] \o t[i]
      BY <3>1, Zenon
    <3> QED BY <3>2, <3>3
  <2>3. \A i \in 1 .. k + 1 : i # 1 => i - 1 \in 1 .. k
    OBVIOUS
  <2>4. Joined(g, t, k + 1)
    BY <2>2, <2>3 DEF Joined
  <2> QED BY <2>4
<1>3. n \in S
  <2> HIDE DEF S
  <2> QED BY <1>1, <1>2, Upwards
<1> QED BY <1>3

\* What is joined is told by the sequences taken so far.
LEMMA JoinedAgrees ==
  ASSUME NEW t, NEW u, NEW n \in Nat, NEW m \in Nat, n # 0, n <= m,
         NEW c, Joined(c, t, n), NEW e, Joined(e, u, m)
  PROVE  (\A i \in 1 .. n : t[i] = u[i]) => c[n] = e[n]
<1> HAVE \A i \in 1 .. n : t[i] = u[i]
<1> DEFINE S == {k \in Nat : k # 0 /\ k <= n => c[k] = e[k]}
<1>0. /\ \A i \in 1 .. n : c[i] = IF i = 1 THEN t[i] ELSE c[i - 1] \o t[i]
      /\ \A i \in 1 .. m : e[i] = IF i = 1 THEN u[i] ELSE e[i - 1] \o u[i]
  BY DEF Joined
<1>1. 0 \in S
  OBVIOUS
<1>2. ASSUME NEW k \in Nat, k \in S PROVE k + 1 \in S
  <2> SUFFICES ASSUME k + 1 <= n PROVE c[k + 1] = e[k + 1]
    OBVIOUS
  <2>1. k + 1 \in 1 .. n /\ k + 1 \in 1 .. m /\ (k + 1) - 1 = k /\ k <= n /\ (k # 0 <=> k + 1 # 1)
    OBVIOUS
  <2> QED BY <1>0, <1>2, <2>1
<1>3. n \in S
  <2> HIDE DEF S
  <2> QED BY <1>1, <1>2, Upwards
<1> QED BY <1>3

\* Flattened sequences are joined from the left.
LEMMA FlattenIs ==
  ASSUME NEW t, Len(t) \in Nat, Len(t) # 0
  PROVE  \E c : Joined(c, t, Len(t)) /\ FlattenSeq(t) = c[Len(t)]
<1> DEFINE P(c) == c = [i \in 1 .. Len(t) |-> IF i = 1 THEN t[i] ELSE c[i - 1] \o t[i]]
           c == CHOOSE c : P(c)
<1>1. \E e : P(e)
  <2>1. PICK e : Joined(e, t, Len(t))
    BY JoinedExists
  <2>2. P(e)
    BY <2>1 DEF Joined
  <2> QED BY <2>2
<1>2. P(c)
  BY <1>1
<1>3. FlattenSeq(t) = c[Len(t)]
  BY DEF FlattenSeq
<1> QED BY <1>2, <1>3 DEF Joined

\* Joined from the left.
LEMMA FlattenOf ==
  ASSUME NEW U, NEW t \in Seq(Seq(U)), NEW x \in Seq(U)
  PROVE  FlattenSeq(<< >>) = << >> /\ FlattenSeq(Append(t, x)) = FlattenSeq(t) \o x
<1>1. FlattenSeq(<< >>) = << >>
  BY DEF FlattenSeq
<1> DEFINE n == Len(t)
           q == Append(t, x)
<1>2. n \in Nat /\ Len(q) = n + 1 /\ q[n + 1] = x /\ \A i \in 1 .. n : q[i] = t[i]
  BY AppendProperties, LenProperties
<1> HIDE DEF q
<1>3. PICK e : Joined(e, q, n + 1) /\ FlattenSeq(q) = e[n + 1]
  BY <1>2, FlattenIs
<1>4. CASE n = 0
  <2>1. t = << >>
    BY <1>4, EmptySeq
  <2>2. e[1] = q[1]
    BY <1>3, <1>4 DEF Joined
  <2>3. << >> \o x = x
    BY ConcatEmptySeq
  <2> QED BY <1>1, <1>2, <1>3, <1>4, <2>1, <2>2, <2>3 DEF q
<1>5. CASE n # 0
  <2>1. PICK c : Joined(c, t, n) /\ FlattenSeq(t) = c[n]
    BY <1>2, <1>5, FlattenIs
  <2> HIDE DEF n
  <2>2. c[n] = e[n]
    <3> DEFINE m == n + 1
    <3>1. /\ n \in Nat /\ m \in Nat /\ n # 0 /\ n <= m /\ \A i \in 1 .. n : t[i] = q[i]
          /\ Joined(c, t, n) /\ Joined(e, q, m)
      BY <1>2, <1>3, <1>5, <2>1
    <3> HIDE DEF m
    <3>2. (\A i \in 1 .. n : t[i] = q[i]) => c[n] = e[n]
      BY <3>1, JoinedAgrees
    <3> QED BY <3>1, <3>2
  <2>3. e[n + 1] = e[n] \o q[n + 1]
    <3>1. n + 1 \in 1 .. n + 1 /\ n + 1 # 1 /\ (n + 1) - 1 = n
      BY <1>2, <1>5
    <3> QED BY <1>3, <3>1 DEF Joined
  <2> QED BY <1>1, <1>2, <1>3, <2>1, <2>2, <2>3 DEF q
<1> QED BY <1>4, <1>5

-----------------------------------------------------------------------------
Subs == 0 .. MaxSub
Codes(s) == [i \in DOMAIN s |-> Der!SubCode(s[i])]
\* An identifier, written.
Written(s) == FlattenSeq(Codes(s))

\* A subidentifier is written in octets.
LEMMA SubCodeTyped ==
  ASSUME NEW n \in Nat
  PROVE  Der!SubCode(n) \in Seq(Der!Octets) /\ Len(Der!SubCode(n)) >= 1
<1>1. PICK p \in Seq(More), d \in 0 .. High - 1 : Der!SubCode(n) = Append(p, d)
  BY SubCodeIs
<1>2. p \in Seq(Der!Octets) /\ d \in Der!Octets
  BY MoreAre, SeqMonotonic
<1>3. Append(p, d) \in Seq(Der!Octets) /\ Len(Append(p, d)) = Len(p) + 1 /\ Len(p) \in Nat
  BY <1>2, AppendIs
<1> QED BY <1>1, <1>3

\* It is written from the left.
LEMMA WrittenOf ==
  ASSUME NEW s \in Seq(Subs), NEW n \in Subs
  PROVE  /\ Written(<< >>) = << >>
         /\ Written(Append(s, n)) = Written(s) \o Der!SubCode(n)
<1>0. Subs \subseteq Nat
  BY OctetsAre DEF Subs
<1>1. \A m \in Subs : Der!SubCode(m) \in Seq(Der!Octets)
  BY <1>0, SubCodeTyped
<1>2. Codes(<< >>) = << >>
  <2>1. DOMAIN << >> = {}
    OBVIOUS
  <2>2. Codes(<< >>) = [i \in {} |-> Der!SubCode((<< >>)[i])]
    BY <2>1 DEF Codes
  <2>3. << >> = [i \in {} |-> Der!SubCode((<< >>)[i])]
    OBVIOUS
  <2> QED BY <2>2, <2>3
<1>3. Codes(s) \in Seq(Seq(Der!Octets)) /\ Len(Codes(s)) = Len(s)
  <2>1. Len(s) \in Nat /\ DOMAIN s = 1 .. Len(s) /\ \A i \in 1 .. Len(s) : s[i] \in Subs
    BY LenProperties, ElementOfSeq
  <2>2. Codes(s) = [i \in 1 .. Len(s) |-> Der!SubCode(s[i])]
    BY <2>1 DEF Codes
  <2>3. \A i \in 1 .. Len(s) : Der!SubCode(s[i]) \in Seq(Der!Octets)
    BY <1>1, <2>1
  <2> QED BY <2>1, <2>2, <2>3
<1>4. Codes(Append(s, n)) = Append(Codes(s), Der!SubCode(n))
  <2> DEFINE k == Len(s)
             a == Append(s, n)
             b == Append(Codes(s), Der!SubCode(n))
  <2>1. a = [i \in 1 .. k + 1 |-> IF i <= k THEN s[i] ELSE n] /\ k \in Nat
    BY AppendIs
  <2>2. b = [i \in 1 .. k + 1 |-> IF i <= k THEN Codes(s)[i] ELSE Der!SubCode(n)]
    BY <1>1, <1>3, AppendIs
  <2>3. Codes(a) = [i \in 1 .. k + 1 |-> Der!SubCode(IF i <= k THEN s[i] ELSE n)]
    <3>1. DOMAIN a = 1 .. k + 1 /\ \A i \in 1 .. k + 1 : a[i] = IF i <= k THEN s[i] ELSE n
      BY <2>1
    <3> HIDE DEF a
    <3>2. Codes(a) = [i \in 1 .. k + 1 |-> Der!SubCode(a[i])]
      BY <3>1 DEF Codes
    <3> QED BY <3>1, <3>2
  <2>4. \A i \in 1 .. k + 1 : Der!SubCode(IF i <= k THEN s[i] ELSE n)
                                = IF i <= k THEN Codes(s)[i] ELSE Der!SubCode(n)
    <3> TAKE i \in 1 .. k + 1
    <3>1. CASE i <= k
      <4>1. i \in DOMAIN s
        BY <2>1, <3>1, LenProperties
      <4>2. Codes(s)[i] = Der!SubCode(s[i])
        BY <4>1 DEF Codes
      <4> QED BY <3>1, <4>2
    <3>2. CASE ~(i <= k)
      BY <3>2
    <3> QED BY <3>1, <3>2
  <2> HIDE DEF a, b
  <2>5. Codes(a) = b
    BY <2>2, <2>3, <2>4
  <2> QED BY <2>5 DEF a, b
<1>5. FlattenSeq(Append(Codes(s), Der!SubCode(n))) = FlattenSeq(Codes(s)) \o Der!SubCode(n)
  BY <1>1, <1>3, FlattenOf
<1>6. FlattenSeq(<< >>) = << >>
  BY <1>1, <1>3, FlattenOf
<1> QED BY <1>2, <1>4, <1>5, <1>6 DEF Written

\* So is an identifier, with an octet at least for each subidentifier.
LEMMA WrittenTyped ==
  ASSUME NEW s \in Seq(Subs)
  PROVE  Written(s) \in Seq(Der!Octets) /\ Len(Written(s)) >= Len(s)
<1> DEFINE S == {k \in Nat : \A r \in Seq(Subs) : Len(r) = k =>
                               Written(r) \in Seq(Der!Octets) /\ Len(Written(r)) >= Len(r)}
<1>0. Subs \subseteq Nat /\ 0 \in Subs
  BY OctetsAre DEF Subs
<1>1. 0 \in S
  <2>1. \A r \in Seq(Subs) : Len(r) = 0 => r = << >>
    BY EmptySeq
  <2>2. Written(<< >>) = << >>
    BY <1>0, WrittenOf, EmptySeq
  <2>3. << >> \in Seq(Der!Octets) /\ Len(<< >>) >= 0 /\ Len(<< >>) = 0
    BY EmptySeq
  <2> QED BY <2>1, <2>2, <2>3
<1>2. ASSUME NEW k \in Nat, k \in S PROVE k + 1 \in S
  <2> SUFFICES ASSUME NEW r \in Seq(Subs), Len(r) = k + 1
               PROVE  Written(r) \in Seq(Der!Octets) /\ Len(Written(r)) >= Len(r)
    OBVIOUS
  <2>1. r # << >>
    BY EmptySeq
  <2>2. PICK t \in Seq(Subs), n \in Subs : r = Append(t, n)
    BY <2>1, SequenceEmptyOrAppend
  <2>3. Len(t) = k
    BY <2>2, AppendIs
  <2> DEFINE w == Written(t)
             c == Der!SubCode(n)
  <2>4. w \in Seq(Der!Octets) /\ Len(w) >= k
    BY <1>2, <2>3
  <2>5. c \in Seq(Der!Octets) /\ Len(c) >= 1
    BY <1>0, SubCodeTyped
  <2>6. Written(r) = w \o c
    BY <2>2, WrittenOf
  <2> HIDE DEF w, c
  <2>7. w \o c \in Seq(Der!Octets) /\ Len(w \o c) = Len(w) + Len(c) /\ Len(w) \in Nat /\ Len(c) \in Nat
    BY <2>4, <2>5, ConcatProperties, LenProperties
  <2> QED BY <2>4, <2>5, <2>6, <2>7
<1>3. Len(s) \in S
  <2>1. Len(s) \in Nat
    BY LenProperties
  <2> HIDE DEF S
  <2> QED BY <1>1, <1>2, <2>1, Upwards
<1> QED BY <1>3

-----------------------------------------------------------------------------
\* What derOID holds after the octets o: identifiers written, and one it is in.
Held(o) ==
  \E s \in Seq(Subs), p \in Seq(More) :
    /\ Open(p) /\ o = Written(s) \o p
    /\ Der!Scanned(o).start <=> p = << >>
    /\ Der!Scanned(o).v = Der!Number(p, High)

\* What is begun is octets.
LEMMA OpenTyped == ASSUME NEW p, Open(p) PROVE p \in Seq(More) /\ p \in Seq(Der!Octets) /\ p \in Seq(Int)
BY MoreAre, SeqMonotonic DEF Open

\* One octet more.
LEMMA HeldStep ==
  ASSUME NEW o \in Seq(Der!Octets), Held(o), NEW d \in Der!Octets,
         Der!Scanned(o).ok \in BOOLEAN, Der!Scanned(Append(o, d)).ok
  PROVE  Held(Append(o, d))
<1> DEFINE z == Der!Scanned(o)
           z1 == Der!Scanned(Append(o, d))
<1>1. PICK s \in Seq(Subs), p \in Seq(More) : Open(p) /\ o = Written(s) \o p /\ (z.start <=> p = << >>)
                                /\ z.v = Der!Number(p, High)
  BY DEF Held
<1>2. z1 = Der!OIDStep(z, d)
  BY ScannedOf
<1>3. p \in Seq(More) /\ p \in Seq(Der!Octets) /\ Written(s) \in Seq(Der!Octets)
  BY <1>1, OpenTyped, WrittenTyped
<1>4. High \in Nat /\ High > 1 /\ Der!Octets = 0 .. 2 * High - 1 /\ MaxSub \in Nat
  BY OctetsAre
<1> HIDE DEF z, z1
<1>5. /\ ~(z.start /\ d = High) /\ z.v * High + (d % High) <= MaxSub
      /\ z1.start <=> d < High
      /\ d < High => z1.v = 0
      /\ ~(d < High) => z1.v = z.v * High + (d % High)
  BY <1>2, StepIs DEF z, z1
<1>6. Append(o, d) = Written(s) \o Append(p, d)
  <2>1. Append(o, d) = o \o <<d>> /\ Append(p, d) = p \o <<d>> /\ <<d>> \in Seq(Der!Octets)
    BY <1>3, AppendIsConcat
  <2>2. (Written(s) \o p) \o <<d>> = Written(s) \o (p \o <<d>>)
    BY <1>3, <2>1, ConcatAssociative, SMTT(30)
  <2> QED BY <1>1, <2>1, <2>2
<1>7. Der!Number(Append(p, d), High) = z.v * High + (d % High)
  BY <1>1, <1>3, NumberOf
<1>8. CASE d < High
  <2>1. d \in 0 .. High - 1
    BY <1>4, <1>8
  <2> DEFINE q == Append(p, d)
             n == Der!Number(q, High)
  <2>2. n \in Nat /\ Der!SubCode(n) = q
    BY <1>1, <2>1, SubCodeOnly
  <2>3. n \in Subs
    BY <1>4, <1>5, <1>7, <2>2 DEF Subs
  <2> HIDE DEF n
  <2>4. Append(s, n) \in Seq(Subs) /\ Written(Append(s, n)) = Append(o, d)
    BY <1>6, <2>2, <2>3, WrittenOf, AppendIs
  <2>5. Open(<< >>) /\ Append(o, d) = Written(Append(s, n)) \o << >>
    <3>1. Append(o, d) \in Seq(Der!Octets)
      BY AppendIs
    <3>2. Append(o, d) \o << >> = Append(o, d)
      BY <3>1, ConcatEmptySeq
    <3>3. Open(<< >>)
      BY EmptySeq DEF Open
    <3> QED BY <2>4, <3>2, <3>3
  <2>6. z1.start /\ z1.v = Der!Number(<< >>, High)
    BY <1>3, <1>5, <1>8, NumberOf
  <2>7. << >> \in Seq(More)
    BY EmptySeq
  <2> QED BY <2>4, <2>5, <2>6, <2>7 DEF Held, z1
<1>9. CASE ~(d < High)
  <2>1. d \in More
    BY <1>4, <1>9, OctetsAre DEF More
  <2>2. Append(p, d) \in Seq(More) /\ Append(p, d) # << >>
    BY <1>3, <2>1, AppendProperties
  <2>3. Append(p, d)[1] # High
    <3>1. CASE p = << >>
      <4>1. d # High
        BY <1>1, <1>5, <3>1 DEF z
      <4>2. Append(p, d)[1] = d
        BY <3>1
      <4> QED BY <4>1, <4>2
    <3>2. CASE p # << >>
      <4>1. Append(p, d)[1] = p[1]
        <5>1. Len(p) \in Nat \ {0}
          BY <1>3, <3>2, EmptySeq
        <5>2. 1 \in 1 .. Len(p)
          BY <5>1
        <5> QED BY <1>3, <2>1, <5>2, AppendProperties
      <4> QED BY <1>1, <3>2, <4>1 DEF Open
    <3> QED BY <3>1, <3>2
  <2>4. Open(Append(p, d))
    BY <2>2, <2>3 DEF Open
  <2>5. ~z1.start /\ z1.v = Der!Number(Append(p, d), High)
    BY <1>5, <1>7, <1>9
  <2> QED BY <1>6, <2>2, <2>4, <2>5 DEF Held, z1
<1> QED BY <1>8, <1>9

\* So what it accepts was written.
LEMMA ScannedHeld ==
  ASSUME NEW o \in Seq(Der!Octets)
  PROVE  Der!Scanned(o).ok \in BOOLEAN /\ (Der!Scanned(o).ok => Held(o))
<1> DEFINE S == {k \in Nat : \A x \in Seq(Der!Octets) : Len(x) = k =>
                   Der!Scanned(x).ok \in BOOLEAN /\ (Der!Scanned(x).ok => Held(x))}
<1>1. 0 \in S
  <2>1. \A x \in Seq(Der!Octets) : Len(x) = 0 => x = << >>
    BY EmptySeq
  <2>2. 0 \in Subs /\ 0 \in Int /\ << >> \in Seq(Subs) /\ << >> \in Seq(Int) /\ << >> \in Seq(Der!Octets)
    BY OctetsAre, EmptySeq DEF Subs
  <2>3. Der!Scanned(<< >>) = Ready /\ Der!Number(<< >>, High) = 0 /\ Written(<< >>) = << >>
    BY <2>2, ScannedOf, NumberOf, WrittenOf
  <2>4. Open(<< >>) /\ << >> \o << >> = << >>
    BY EmptySeq DEF Open
  <2>5. Ready.ok = TRUE /\ Ready.start = TRUE /\ Ready.v = 0
    BY DEF Ready
  <2>6. Held(<< >>)
    <3>1. << >> \in Seq(More)
      BY EmptySeq
    <3> QED BY <2>2, <2>3, <2>4, <2>5, <3>1 DEF Held
  <2> QED BY <2>1, <2>3, <2>5, <2>6
<1>2. ASSUME NEW k \in Nat, k \in S PROVE k + 1 \in S
  <2> SUFFICES ASSUME NEW x \in Seq(Der!Octets), Len(x) = k + 1
               PROVE  Der!Scanned(x).ok \in BOOLEAN /\ (Der!Scanned(x).ok => Held(x))
    OBVIOUS
  <2>1. x # << >>
    BY EmptySeq
  <2>2. PICK t \in Seq(Der!Octets), d \in Der!Octets : x = Append(t, d)
    BY <2>1, SequenceEmptyOrAppend
  <2>3. Len(t) = k
    BY <2>2, AppendIs
  <2>4. Der!Scanned(t).ok \in BOOLEAN /\ (Der!Scanned(t).ok => Held(t))
    BY <1>2, <2>3
  <2>5. Der!Scanned(x) = Der!OIDStep(Der!Scanned(t), d)
    BY <2>2, ScannedOf
  <2>6. Der!Scanned(x).ok \in BOOLEAN
    BY <2>5 DEF Der!OIDStep
  <2>7. Der!Scanned(x).ok => Der!Scanned(t).ok
    BY <2>4, <2>5, StepIs
  <2> QED BY <2>2, <2>4, <2>6, <2>7, HeldStep
<1>3. Len(o) \in S
  <2>1. Len(o) \in Nat
    BY LenProperties
  <2> HIDE DEF S
  <2> QED BY <1>1, <1>2, <2>1, Upwards
<1> QED BY <1>3

-----------------------------------------------------------------------------
\* A subidentifier that is begun as it is written and is small enough is carried on.
LEMMA ScanMore ==
  ASSUME NEW y \in Seq(Der!Octets), Der!Scanned(y) = Ready,
         NEW p, Open(p), Der!Number(p, High) <= MaxSub
  PROVE  /\ Der!Scanned(y \o p).ok = TRUE /\ (Der!Scanned(y \o p).start <=> p = << >>)
         /\ Der!Scanned(y \o p).v = Der!Number(p, High)
<1> DEFINE Fine(x) == /\ Der!Scanned(y \o x).ok = TRUE /\ (Der!Scanned(y \o x).start <=> x = << >>)
                      /\ Der!Scanned(y \o x).v = Der!Number(x, High)
           S == {k \in Nat : \A x \in Seq(More) : Len(x) = k /\ Open(x) /\ Der!Number(x, High) <= MaxSub
                               => Fine(x)}
<1>0. High \in Nat /\ High > 1 /\ MaxSub \in Nat
  BY OctetsAre
<1>1. 0 \in S
  <2>1. \A x \in Seq(More) : Len(x) = 0 => x = << >>
    BY EmptySeq
  <2>2. Der!Number(<< >>, High) = 0
    <3>1. << >> \in Seq(Int) /\ 0 \in Int
      BY EmptySeq
    <3> QED BY <3>1, NumberOf
  <2>3. y \o << >> = y
    BY ConcatEmptySeq
  <2>4. Ready.ok = TRUE /\ Ready.start = TRUE /\ Ready.v = 0
    BY DEF Ready
  <2>5. Fine(<< >>)
    BY <2>2, <2>3, <2>4
  <2> HIDE DEF Fine
  <2> QED BY <2>1, <2>5
<1>2. ASSUME NEW k \in Nat, k \in S PROVE k + 1 \in S
  <2> HIDE DEF Fine
  <2> SUFFICES ASSUME NEW x \in Seq(More), Len(x) = k + 1, Open(x), Der!Number(x, High) <= MaxSub
               PROVE  Fine(x)
    OBVIOUS
  <2> USE DEF Fine
  <2>1. x # << >>
    BY EmptySeq
  <2>2. PICK t \in Seq(More), d \in More : x = Append(t, d)
    BY <2>1, SequenceEmptyOrAppend
  <2>3. Len(t) = k /\ Len(t) \in Nat
    BY <2>2, AppendIs
  <2>4. Open(t)
    <3> SUFFICES ASSUME t # << >> PROVE t[1] # High
      BY DEF Open
    <3>1. 1 \in 1 .. Len(t)
      BY <2>3, EmptySeq
    <3>2. x[1] = t[1]
      BY <2>2, <3>1, AppendProperties
    <3> QED BY <2>1, <3>2 DEF Open
  <2>5. t \in Seq(Der!Octets) /\ d \in Der!Octets /\ t \in Seq(Int) /\ d \in Int
    BY <2>2, <2>4, MoreAre, OpenTyped
  <2> DEFINE a == Der!Number(t, High)
             b == Der!Number(x, High)
             e == d % High
             z == Der!Scanned(y \o t)
             z1 == Der!Scanned(y \o x)
  <2>6. b = a * High + e
    BY <2>2, <2>5, NumberOf
  <2>7. a \in Nat /\ e \in Nat
    <3>1. a \in Nat
      BY <1>0, <2>5, NumberTyped
    <3>2. e \in Nat
      BY <1>0, <2>2, MoreAre
    <3> QED BY <3>1, <3>2
  <2>8. b >= a /\ b <= MaxSub
    <3>1. b <= MaxSub
      OBVIOUS
    <3> HIDE DEF a, b, e, z, z1
    <3>2. a * High + e >= a
      BY <1>0, <2>7, Shifted
    <3> QED BY <2>6, <3>1, <3>2
  <2>9. a <= MaxSub
    <3> HIDE DEF a, b, e
    <3>1. b \in Nat
      BY <1>0, <2>6, <2>7, Shifted
    <3> QED BY <1>0, <2>7, <2>8, <3>1
  <2>10. z.ok = TRUE /\ (z.start <=> t = << >>) /\ z.v = a
    BY <1>2, <2>3, <2>4, <2>9
  <2>11. z1 = Der!OIDStep(z, d)
    <3>1. y \o t \in Seq(Der!Octets)
      BY <2>5, ConcatProperties
    <3>2. y \o x = Append(y \o t, d)
      <4>1. x = t \o <<d>> /\ <<d>> \in Seq(Der!Octets)
        BY <2>2, <2>5, AppendIsConcat
      <4>2. Append(y \o t, d) = (y \o t) \o <<d>>
        BY <2>5, <3>1, AppendIsConcat
      <4>3. (y \o t) \o <<d>> = y \o (t \o <<d>>)
        BY <2>5, <4>1, ConcatAssociative, SMTT(30)
      <4> QED BY <4>1, <4>2, <4>3
    <3> QED BY <2>5, <3>1, <3>2, ScannedOf
  <2>12. ~(z.start /\ d = High)
    <3> SUFFICES ASSUME t = << >> PROVE d # High
      BY <2>10
    <3>1. x[1] = d
      BY <2>2
    <3> QED BY <2>1, <3>1 DEF Open
  <2>13. ~(d < High)
    BY <2>2, MoreAre
  <2> HIDE DEF z, z1, a, b
  <2>14. z1.ok = TRUE /\ z1.start = FALSE /\ z1.v = b
    <3>1. z.v * High + (d % High) = b
      BY <2>6, <2>10 DEF e
    <3>2. z.v * High + (d % High) <= MaxSub
      BY <2>8, <3>1
    <3>3. (z.ok /\ ~(z.start /\ d = High) /\ z.v * High + (d % High) <= MaxSub) = TRUE
      BY <2>10, <2>12, <3>2, Zenon
    <3>4. (d < High) = FALSE
      BY <2>13
    <3>5. z1 = [ok |-> z.ok /\ ~(z.start /\ d = High) /\ z.v * High + (d % High) <= MaxSub,
                start |-> d < High,
                v |-> IF d < High THEN 0 ELSE z.v * High + (d % High)]
      BY <2>11 DEF Der!OIDStep
    <3>6. (IF d < High THEN 0 ELSE z.v * High + (d % High)) = b
      BY <3>1, <3>4
    <3> DEFINE yes == TRUE
               no == FALSE
    <3>7. z1 = [ok |-> yes, start |-> no, v |-> b]
      BY <3>3, <3>4, <3>5, <3>6, Zenon
    <3> HIDE DEF yes, no
    <3>8. z1.ok = yes /\ z1.start = no /\ z1.v = b
      BY <3>7
    <3> QED BY <3>8 DEF yes, no
  <2> QED BY <2>1, <2>14 DEF z1, b
<1>3. Len(p) \in S
  <2>1. Len(p) \in Nat
    BY OpenTyped, LenProperties
  <2> HIDE DEF S
  <2> QED BY <1>1, <1>2, <2>1, Upwards
<1>4. p \in Seq(More)
  BY OpenTyped
<1> QED BY <1>3, <1>4

\* A subidentifier that is written is read to its end.
LEMMA ScanSub ==
  ASSUME NEW y \in Seq(Der!Octets), Der!Scanned(y) = Ready, NEW n \in Subs
  PROVE  Der!Scanned(y \o Der!SubCode(n)) = Ready
<1>0. High \in Nat /\ High > 1 /\ MaxSub \in Nat /\ n \in Nat /\ n <= MaxSub
  BY OctetsAre DEF Subs
<1>1. PICK p \in Seq(More), d \in 0 .. High - 1 :
        Open(p) /\ Der!SubCode(n) = Append(p, d) /\ Der!Number(Append(p, d), High) = n
  <2>1. PICK p \in Seq(More), d \in 0 .. High - 1 :
          Open(p) /\ Der!SubCode(n) = Append(p, d) /\ Der!Number(Der!SubCode(n), High) = n
    BY <1>0, SubCodeIs
  <2> QED BY <2>1
<1>2. p \in Seq(Der!Octets) /\ d \in Der!Octets /\ p \in Seq(Int) /\ d \in Int
  <2>1. p \in Seq(Der!Octets) /\ p \in Seq(Int)
    BY <1>1, OpenTyped
  <2>2. d \in Der!Octets
    BY MoreAre
  <2>3. d \in Int
    BY <1>0
  <2> QED BY <2>1, <2>2, <2>3
<1> DEFINE a == Der!Number(p, High)
           e == d % High
           z == Der!Scanned(y \o p)
           z1 == Der!Scanned(y \o Der!SubCode(n))
<1>3. n = a * High + e
  BY <1>1, <1>2, NumberOf
<1>4. a \in Nat /\ e \in Nat /\ d < High /\ d # High
  <2>1. a \in Nat
    BY <1>0, <1>2, NumberTyped
  <2>2. e \in Nat /\ d < High /\ d # High
    BY <1>0, MoreAre
  <2> QED BY <2>1, <2>2
<1>5. a <= MaxSub
  <2> HIDE DEF a, e
  <2>1. a * High + e \in Nat /\ a * High + e >= a
    BY <1>0, <1>4, Shifted
  <2>2. n >= a
    BY <1>3, <2>1
  <2> QED BY <1>0, <1>4, <2>2
<1>6. z.ok = TRUE /\ z.v = a
  BY <1>1, <1>5, ScanMore
<1>7. z1 = Der!OIDStep(z, d)
  <2>1. y \o p \in Seq(Der!Octets)
    BY <1>2, ConcatProperties
  <2>2. y \o Append(p, d) = Append(y \o p, d)
    <3>1. Append(p, d) = p \o <<d>> /\ <<d>> \in Seq(Der!Octets)
      BY <1>2, AppendIsConcat
    <3>2. Append(y \o p, d) = (y \o p) \o <<d>>
      BY <1>2, <2>1, AppendIsConcat
    <3>3. (y \o p) \o <<d>> = y \o (p \o <<d>>)
      BY <1>2, <3>1, ConcatAssociative, SMTT(30)
    <3> QED BY <3>1, <3>2, <3>3
  <2>3. y \o Der!SubCode(n) = Append(y \o p, d)
    BY <1>1, <2>2
  <2> QED BY <1>2, <2>1, <2>3, ScannedOf
<1> HIDE DEF z, z1, a, e
<1>8. z.v * High + (d % High) <= MaxSub
  BY <1>0, <1>3, <1>6 DEF e
<1>9. z1 = Ready
  <2>1. Der!OIDStep(z, d) = [ok |-> z.ok /\ ~(z.start /\ d = High) /\ z.v * High + (d % High) <= MaxSub,
                             start |-> d < High,
                             v |-> IF d < High THEN 0 ELSE z.v * High + (d % High)]
    BY DEF Der!OIDStep
  <2>2. (z.ok /\ ~(z.start /\ d = High) /\ z.v * High + (d % High) <= MaxSub) = TRUE
    BY <1>4, <1>6, <1>8, Zenon
  <2>3. (d < High) = TRUE
    BY <1>4
  <2>4. (IF d < High THEN 0 ELSE z.v * High + (d % High)) = 0
    BY <1>4
  <2> QED BY <1>7, <2>1, <2>2, <2>3, <2>4, Zenon DEF Ready
<1> QED BY <1>9 DEF z1

\* And so is an identifier.
LEMMA ScanWritten ==
  ASSUME NEW s \in Seq(Subs)
  PROVE  Der!Scanned(Written(s)) = Ready
<1> DEFINE S == {k \in Nat : \A r \in Seq(Subs) : Len(r) = k => Der!Scanned(Written(r)) = Ready}
<1>0. 0 \in Subs /\ << >> \in Seq(Subs) /\ 0 \in Int /\ << >> \in Seq(Int)
  BY OctetsAre, EmptySeq DEF Subs
<1>1. 0 \in S
  <2>1. \A r \in Seq(Subs) : Len(r) = 0 => r = << >>
    BY EmptySeq
  <2>2. Written(<< >>) = << >> /\ Der!Scanned(<< >>) = Ready
    BY <1>0, WrittenOf, ScannedOf
  <2> QED BY <2>1, <2>2
<1>2. ASSUME NEW k \in Nat, k \in S PROVE k + 1 \in S
  <2> SUFFICES ASSUME NEW r \in Seq(Subs), Len(r) = k + 1 PROVE Der!Scanned(Written(r)) = Ready
    OBVIOUS
  <2>1. r # << >>
    BY EmptySeq
  <2>2. PICK t \in Seq(Subs), n \in Subs : r = Append(t, n)
    BY <2>1, SequenceEmptyOrAppend
  <2>3. Len(t) = k
    BY <2>2, AppendIs
  <2>4. Der!Scanned(Written(t)) = Ready /\ Written(t) \in Seq(Der!Octets)
    BY <1>2, <2>3, WrittenTyped
  <2>5. Written(r) = Written(t) \o Der!SubCode(n)
    BY <2>2, WrittenOf
  <2> QED BY <2>4, <2>5, ScanSub
<1>3. Len(s) \in S
  <2>1. Len(s) \in Nat
    BY LenProperties
  <2> HIDE DEF S
  <2> QED BY <1>1, <1>2, <2>1, Upwards
<1> QED BY <1>3

\* An identifier is accepted exactly when it is some subidentifiers, written.
LEMMA OIDOneForm ==
  ASSUME NEW o \in Seq(Der!Octets), Len(o) <= MaxRead
  PROVE  Der!DerOID(o) <=> o \in Der!OIDCodes
<1>0. Len(o) \in Nat /\ MaxRead \in Nat /\ (o = << >> <=> Len(o) = 0)
  BY EmptySeq, LenProperties, OctetsAre
<1>1. o \in Der!OIDCodes <=> \E s \in UNION {[1 .. k -> Subs] : k \in 1 .. MaxRead} : o = Written(s)
  <2>1. \A t : Der!FlattenSeq(t) = FlattenSeq(t)
    BY DEF Der!FlattenSeq, FlattenSeq
  <2>2. Der!OIDCodes = {Der!FlattenSeq(Codes(s)) : s \in UNION {[1 .. k -> Subs] : k \in 1 .. MaxRead}}
    BY DEF Der!OIDCodes, Codes, Subs
  <2> QED BY <2>1, <2>2, Zenon DEF Written
<1>2. \A s : s \in UNION {[1 .. k -> Subs] : k \in 1 .. MaxRead}
               <=> s \in Seq(Subs) /\ Len(s) \in 1 .. MaxRead
  <2> TAKE s
  <2>1. ASSUME s \in UNION {[1 .. k -> Subs] : k \in 1 .. MaxRead}
        PROVE  s \in Seq(Subs) /\ Len(s) \in 1 .. MaxRead
    <3>1. PICK k \in 1 .. MaxRead : s \in [1 .. k -> Subs]
      BY <2>1
    <3>2. k \in Nat
      BY <1>0
    <3> QED BY <3>1, <3>2
  <2>2. ASSUME s \in Seq(Subs), Len(s) \in 1 .. MaxRead
        PROVE  s \in UNION {[1 .. k -> Subs] : k \in 1 .. MaxRead}
    <3>1. s \in [1 .. Len(s) -> Subs]
      BY <2>2, LenProperties, ElementOfSeq
    <3> QED BY <2>2, <3>1
  <2> QED BY <2>1, <2>2
<1>3. ASSUME Der!DerOID(o) PROVE o \in Der!OIDCodes
  <2>1. o # << >> /\ Der!Scanned(o).ok /\ Der!Scanned(o).start
    BY <1>3 DEF Der!DerOID
  <2>2. PICK s \in Seq(Subs), p \in Seq(More) :
          /\ o = Written(s) \o p
          /\ Der!Scanned(o).start <=> p = << >>
    BY <2>1, ScannedHeld DEF Held
  <2>3. Written(s) \in Seq(Der!Octets) /\ Len(Written(s)) >= Len(s)
    BY WrittenTyped
  <2>4. o = Written(s)
    <3>1. p = << >>
      BY <2>1, <2>2, Zenon
    <3> DEFINE w == Written(s)
    <3>2. w \in Seq(Der!Octets) /\ o = w \o << >>
      BY <2>2, <2>3, <3>1
    <3> HIDE DEF w
    <3>3. o = w
      BY <3>2, ConcatEmptySeq
    <3> QED BY <3>3 DEF w
  <2>5. s # << >>
    <3>1. 0 \in Subs
      BY OctetsAre DEF Subs
    <3>2. Written(<< >>) = << >>
      BY <3>1, WrittenOf
    <3> QED BY <2>1, <2>4, <3>2
  <2>6. Len(s) \in Nat /\ Len(s) # 0
    BY <2>5, EmptySeq, LenProperties
  <2>7. Len(s) \in 1 .. MaxRead
    BY <1>0, <2>3, <2>4, <2>6
  <2> QED BY <1>1, <1>2, <2>4, <2>7
<1>4. ASSUME o \in Der!OIDCodes PROVE Der!DerOID(o)
  <2>1. PICK s \in Seq(Subs) : Len(s) \in 1 .. MaxRead /\ o = Written(s)
    BY <1>1, <1>2, <1>4
  <2>2. Der!Scanned(o) = Ready
    BY <2>1, ScanWritten
  <2>3. o # << >>
    <3>1. Len(o) >= Len(s) /\ Len(s) >= 1 /\ Len(s) \in Nat
      BY <2>1, WrittenTyped, LenProperties
    <3> QED BY <1>0, <3>1
  <2>4. Ready.ok = TRUE /\ Ready.start = TRUE
    BY DEF Ready
  <2> QED BY <2>2, <2>3, <2>4 DEF Der!DerOID
<1> QED BY <1>3, <1>4

-----------------------------------------------------------------------------
\* What was called was asked about octets, and answered as its function answers.
DerInv ==
  \/ rule = "none"
  \/ rule = "length" /\ octets \in Der!Inputs /\ room \in 0 .. MaxRoom /\ passed = Der!Next1(octets, room)
  \/ rule = "integer" /\ octets \in Der!Inputs /\ passed = Der!DerVersion(octets)
  \/ rule = "oid" /\ octets \in Der!Inputs /\ passed = Der!DerOID(octets)

\* A call of another reader leaves the octets alone.
LEMMA DerStep ==
  [ReadersNext]_<<call, vars, textVars, derVars, objVars, tokenVars>> => [Der!DerNext]_derVars
BY DEF ReadersNext, CallFold, CallText, CallDer, CallObject, CallToken

\* So the answer stays the function's.
LEMMA DerKept == DerInv /\ [Der!DerNext]_derVars => DerInv'
<1> SUFFICES ASSUME DerInv, [Der!DerNext]_derVars PROVE DerInv'
  OBVIOUS
<1>1. CASE UNCHANGED derVars
  BY <1>1 DEF DerInv, derVars, Der!Inputs, Der!Octets, Der!Base
<1>2. CASE Der!DerNext
  <2>1. CASE Der!ReadLength
    BY <2>1 DEF Der!ReadLength, Der!Called, DerInv
  <2>2. CASE Der!ReadInteger
    BY <2>2 DEF Der!ReadInteger, Der!Called, DerInv
  <2>3. CASE Der!ReadOID
    BY <2>3 DEF Der!ReadOID, Der!Called, DerInv
  <2> QED BY <1>2, <2>1, <2>2, <2>3 DEF Der!DerNext
<1> QED BY <1>1, <1>2

\* What is tried is octets.
LEMMA InputTyped ==
  ASSUME NEW o \in Der!Inputs
  PROVE  o \in Seq(Der!Octets) /\ Len(o) <= MaxRead
<1>1. PICK n \in 0 .. MaxRead : o \in [1 .. n -> Der!Octets]
  BY DEF Der!Inputs
<1>2. n \in Nat /\ n <= MaxRead
  BY OctetsAre
<1> QED BY <1>1, <1>2

\* Whatever the octets, a length, an INTEGER or an OBJECT IDENTIFIER is accepted
\* exactly when they are the one encoding DER allows of what they stand for
\* (rfc3161/der.go next, derInteger, derOID; whatever the width of an octet and
\* however many there are).
THEOREM OctetsHaveOneForm == ReadersSpec => []OneForm
<1>1. ReadersInit => DerInv
  BY DEF ReadersInit, Der!DerInit, DerInv
<1>2. DerInv => OneForm
  <2> SUFFICES ASSUME DerInv PROVE Der!OneForm
    BY DEF OneForm
  <2>1. CASE rule = "length"
    <3>1. octets \in Der!Inputs /\ room \in 0 .. MaxRoom /\ passed = Der!Next1(octets, room)
      BY <2>1 DEF DerInv
    <3>2. passed <=> \E n \in 0 .. room : octets = Der!LengthCode(n)
      BY <3>1, InputTyped, LengthOneForm
    <3> QED BY <2>1, <3>2 DEF Der!OneForm
  <2>2. CASE rule = "integer"
    <3>1. octets \in Der!Inputs /\ passed = Der!DerVersion(octets)
      BY <2>2 DEF DerInv
    <3>2. passed <=> /\ Len(octets) \in 1 .. MaxOctets
                     /\ \A k \in 1 .. Len(octets) - 1 : ~Der!Fits(Der!DerBigInt(octets), k)
      BY <3>1, InputTyped, IntegerOneForm
    <3> QED BY <2>2, <3>2 DEF Der!OneForm
  <2>3. CASE rule = "oid"
    <3>1. octets \in Der!Inputs /\ passed = Der!DerOID(octets)
      BY <2>3 DEF DerInv
    <3>2. passed <=> octets \in Der!OIDCodes
      BY <3>1, InputTyped, OIDOneForm
    <3> QED BY <2>3, <3>2 DEF Der!OneForm
  <2> QED BY <2>1, <2>2, <2>3 DEF DerInv, Der!OneForm
<1> QED BY <1>1, <1>2, DerKept, DerStep, PTL DEF ReadersSpec
=============================================================================
