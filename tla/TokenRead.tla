------------------------------ MODULE TokenRead ------------------------------
(***************************************************************************)
(* A timestamp token and its reader, rfc3161.Verify.  An authority stamps  *)
(* links; whoever carries a token may rearrange it, put parts of another   *)
(* token or of their own making into it, and sign with a key of their own; *)
(* the reader is then asked whether it is a token for a link.              *)
(*                                                                         *)
(* The reader trusts no authority: it reports the certificate it checked   *)
(* against and leaves that to its caller.  Digests and signatures are      *)
(* injective terms, and a part that is not DER, or not of the form its     *)
(* reader asks for, is a torn one.  Times are the numbers they order as.   *)
(***************************************************************************)
EXTENDS Integers, SequencesExt

CONSTANTS
  Links,      \* links a token may be about
  OwnCerts,   \* the authority's certificates
  OtherCerts, \* certificates of other holders
  Habits,     \* the [digest, alg] pairs the authority signs with
  MaxTime,    \* bound: instants
  MaxStamps,  \* bound: tokens the authority issues
  MaxEdits    \* bound: changes to the token that is read

Certs == OwnCerts \union OtherCerts
Info(alg, imprint, time) == [alg |-> alg, imprint |-> imprint, time |-> time]
Sid(c, by) == IF by = "key id" THEN [by |-> by, id |-> c.id]
              ELSE [by |-> by, issuer |-> c.issuer, serial |-> c.serial]

\* A messageDigest attribute, and the signature over a list of them.
Digest(hash, info) == [hash |-> hash, of |-> info]
Sign(key, scheme, attrs) == [key |-> key, scheme |-> scheme, over |-> attrs]

\* A signature algorithm names a key type and a hash, or leaves the hash to the
\* digest the signer declared.
Known == {[key |-> k, hash |-> h] : k \in {"rsa", "ecdsa"}, h \in {"sha256", "sha512", "declared"}}
           \union {[key |-> "rsa", hash |-> "pss"], [key |-> "ed25519", hash |-> "none"]}
Scheme(alg, digest) == IF alg.hash = "declared" THEN [alg EXCEPT !.hash = digest] ELSE alg

HashFor == {"sha256", "sha512"}

VARIABLES
  stamped,  \* what the authority signed
  token,    \* the one that is carried to the reader
  edits,
  about,    \* the link the reader is asked about
  result    \* what it returned

tokenVars == <<stamped, token, edits, about, result>>

NoToken == [signers |-> 0]
NoResult == [ok |-> FALSE]

TokenInit ==
  /\ stamped = {} /\ token = NoToken /\ edits = 0
  /\ about = "nothing" /\ result = NoResult

(***************************************************************************)
(* The authority stamps a link with a certificate valid at the time.  What *)
(* it sends names that certificate and carries it, and perhaps another of  *)
(* its own, in some order; none of this is signed.                         *)
(***************************************************************************)
Stamp ==
  /\ token = NoToken /\ Cardinality(stamped) < MaxStamps
  /\ \E link \in Links, time \in 0 .. MaxTime, c \in OwnCerts, h \in Habits :
       LET info  == Info("sha256", link, time)
           attrs == <<Digest(h.digest, info)>>
       IN  /\ time \in c.from .. c.until /\ h.alg.key = c.kind
           /\ stamped' = stamped \union
                {[info |-> info, digest |-> h.digest, attrs |-> attrs, alg |-> h.alg, cert |-> c,
                  sig |-> Sign(c.key, Scheme(h.alg, h.digest), attrs)]}
  /\ UNCHANGED <<token, edits, about, result>>

Sent(s, by, carried) ==
  [info |-> s.info, signers |-> 1, sid |-> Sid(s.cert, by), digest |-> s.digest,
   attrs |-> s.attrs, alg |-> s.alg, certs |-> carried, sig |-> s.sig]
Carried(c) == {<<c>>} \union UNION {{<<c, d>>, <<d, c>>} : d \in OwnCerts \ {c}}

Send ==
  /\ token = NoToken
  /\ \E s \in stamped, by \in {"key id", "issuer"} :
     \E carried \in Carried(s.cert) : token' = Sent(s, by, carried)
  /\ UNCHANGED <<stamped, edits, about, result>>

(***************************************************************************)
(* Changes to the token.                                                   *)
(***************************************************************************)
Edit(t) ==
  /\ token' = t /\ t # token /\ edits' = edits + 1
  /\ UNCHANGED <<stamped, about, result>>

Reorder == Edit([token EXCEPT !.certs = Reverse(@)])
AddCertificate == \E c \in OtherCerts :
  \/ Edit([token EXCEPT !.certs = Append(@, c)])
  \/ Edit([token EXCEPT !.certs = <<c>> \o @])
DropCertificate == token.certs # << >> /\ Edit([token EXCEPT !.certs = Tail(@)])
Readdress == \E link \in Links, time \in 0 .. MaxTime, alg \in {"sha256", "other"} :
  Edit([token EXCEPT !.info = Info(alg, link, time)])
Rename == \E c \in Certs, by \in {"key id", "issuer"} : Edit([token EXCEPT !.sid = Sid(c, by)])
Transplant == \E t \in stamped :
  \/ Edit([token EXCEPT !.attrs = t.attrs, !.digest = t.digest, !.sig = t.sig, !.alg = t.alg])
  \/ Edit([token EXCEPT !.info = t.info, !.attrs = t.attrs])
AddSigner == Edit([token EXCEPT !.signers = 2])
\* Another holder's own: their signature, over digests of whatever is wanted.
SignAnew == \E c \in OtherCerts, alg \in Known, digest \in HashFor \union {"sha1"}, by \in {"key id", "issuer"} :
  LET d == Digest(digest, token.info) IN
    \E attrs \in {<<d>>, << >>, Append(token.attrs, d)} :
      Edit([token EXCEPT !.attrs = attrs, !.digest = digest, !.alg = alg, !.sid = Sid(c, by),
                         !.certs = Append(@, c), !.sig = Sign(c.key, Scheme(alg, digest), attrs)])

Change ==
  /\ token # NoToken /\ about = "nothing" /\ edits < MaxEdits
  /\ \/ Reorder \/ AddCertificate \/ DropCertificate \/ Readdress \/ Rename \/ Transplant
     \/ AddSigner \/ SignAnew

(***************************************************************************)
(* The reader.                                                             *)
(***************************************************************************)
FaultyNames(sid, c) == IF sid.by = "key id" THEN c.id = sid.id ELSE c.serial = sid.serial
Names(sid, c) ==
  IF sid.by = "key id" THEN c.id = sid.id ELSE c.serial = sid.serial /\ c.issuer = sid.issuer

\* Every carried certificate is read up to its extensions.
ReadCertificates(t) ==
  t.certs # << >> /\ \A c \in ToSet(t.certs) : c.torn # "tbs"

\* The first certificate the identifier names; no other will do.
CertificateNamedBy(t) == SelectInSeq(t.certs, LAMBDA c : Names(t.sid, c))
SignerCertificate(t) == t.certs[CertificateNamedBy(t)]

FaultyCommitsTo(t) == t.attrs # << >>
CommitsTo(t) ==
  t.attrs # << >> /\ \A d \in ToSet(t.attrs) : d = Digest(t.digest, t.info)

\* The key has to be of the type the scheme names.
CheckSignature(scheme, c, t) ==
  c.kind = scheme.key /\ t.sig = Sign(c.key, scheme, t.attrs)

VerifySignature(t, c) ==
  /\ t.digest \in HashFor
  /\ CommitsTo(t)
  /\ t.alg \in Known /\ CheckSignature(Scheme(t.alg, t.digest), c, t)

Verify(t, link) ==
  /\ t.signers = 1
  /\ t.info.alg = "sha256" /\ t.info.imprint = link
  /\ ReadCertificates(t)
  /\ CertificateNamedBy(t) # 0
  /\ LET c == SignerCertificate(t) IN
       /\ c.version = 3 /\ c.stamps
       /\ c.torn # "key" /\ VerifySignature(t, c)
       /\ c.torn # "validity" /\ t.info.time \in c.from .. c.until

Read ==
  /\ token # NoToken /\ about = "nothing" /\ about' \in Links
  /\ result' = IF Verify(token, about') THEN [ok |-> TRUE, signer |-> SignerCertificate(token)]
                                        ELSE NoResult
  /\ UNCHANGED <<stamped, token, edits>>

TokenNext == Stamp \/ Send \/ Change \/ Read

-----------------------------------------------------------------------------
(***************************************************************************)
(* Properties.                                                             *)
(***************************************************************************)

\* Whatever was done to a token, when the key of the certificate it is reported
\* under is the authority's, the authority stamped this link at this time: no
\* mixing of genuine parts, no certificate or signature beside them, makes a
\* stamp the authority never gave.
TokenMeansStamped ==
  result.ok /\ (\E c \in OwnCerts : c.key = result.signer.key) =>
    \E t \in stamped : t.info = Info("sha256", about, token.info.time)

\* A token as the authority issued it is read, whichever way its signer is named,
\* its hash is declared and its certificates are ordered, and a certificate beside
\* it takes nothing away as long as it can be read so far and is not the one named.
HonestTokenVerifies ==
  /\ about # "nothing" /\ token.info.imprint = about
  /\ \E s \in stamped, by \in {"key id", "issuer"} :
       token = Sent(s, by, token.certs) /\ s.cert \in ToSet(token.certs)
  /\ \A c \in ToSet(token.certs) : c.torn # "tbs"
  /\ Cardinality({c \in ToSet(token.certs) : Sid(c, token.sid.by) = token.sid}) = 1
  => result.ok

\* FORMAT: "certificate order inside the token carries no meaning".
OrderMeansNothing ==
  about # "nothing" =>
    \A order \in SetToSeqs(ToSet(token.certs)) :
      result.ok <=> Verify([token EXCEPT !.certs = order], about)
=============================================================================
