------------------------------- MODULE Readers -------------------------------
(***************************************************************************)
(* The functions that read what somebody else wrote: the folds of a proof  *)
(* (merkle), the scans of a document's text and the reading of its objects *)
(* (jcs, bundle), the octet rules and the token (rfc3161).  merkle, jcs    *)
(* and rfc3161 are packages anybody may import; they keep no state and     *)
(* share none, so a run is one call of one of them, on any input.          *)
(***************************************************************************)
EXTENDS MerkleFold, TextScan

CONSTANTS
  Calls,                                            \* which functions are called
  High, MaxCount, MaxOctets, MaxSub, MaxRead, MaxRoom,  \* of DerRead
  Safe, MaxMembers,                                 \* of ObjectRead
  Links, OwnCerts, OtherCerts, Habits, MaxTime, MaxStamps, MaxEdits  \* of TokenRead

VARIABLES
  call,                                                      \* the function called
  rule, octets, room, passed,                                \* of DerRead
  place, count, tree, field, copy, repeated, stray, outcome, \* of ObjectRead
  stamped, token, edits, about, result                       \* of TokenRead

Der    == INSTANCE DerRead
Object == INSTANCE ObjectRead
Token  == INSTANCE TokenRead

\* Nobody else holds a key of the authority, whose certificates are timestamping
\* ones that can be read, and which signs the way the reader knows.
ASSUME KeysAssumption == \A c \in OwnCerts, d \in OtherCerts : c.key # d.key
ASSUME AuthorityAssumption ==
  /\ \A c \in OwnCerts : c.version = 3 /\ c.stamps = TRUE /\ c.torn = "no"
  /\ \A h \in Habits : h.digest \in Token!HashFor /\ h.alg \in Token!Known
\* A container is no longer than the octets of a length can say.
ASSUME OctetsAssumption ==
  /\ High \in Nat /\ High > 1 /\ {MaxCount, MaxOctets, MaxSub, MaxRead, MaxRoom} \subseteq Nat
  /\ \A n \in 0 .. MaxRoom : Len(Der!Digits(n, Der!Base)) <= MaxCount
ASSUME LinksAssumption == "nothing" \notin Links

derVars == <<rule, octets, room, passed>>
objVars == <<place, count, tree, field, copy, repeated, stray, outcome>>
tokenVars == <<stamped, token, edits, about, result>>

ReadersInit ==
  /\ call \in Calls
  /\ Init /\ (call = "fold" \/ log = CHOOSE l \in Logs : TRUE)
  /\ TextInit /\ Der!DerInit /\ Object!ObjInit /\ Token!TokenInit

CallFold ==
  /\ call = "fold" /\ Next
  /\ UNCHANGED <<call, textVars, derVars, objVars, tokenVars>>
CallText ==
  /\ call = "text" /\ TextNext
  /\ UNCHANGED <<call, vars, derVars, objVars, tokenVars>>
CallDer ==
  /\ call = "der" /\ Der!DerNext
  /\ UNCHANGED <<call, vars, textVars, objVars, tokenVars>>
CallObject ==
  /\ call = "object" /\ Object!ObjNext
  /\ UNCHANGED <<call, vars, textVars, derVars, tokenVars>>
CallToken ==
  /\ call = "token" /\ Token!TokenNext
  /\ UNCHANGED <<call, vars, textVars, derVars, objVars>>

ReadersNext == CallFold \/ CallText \/ CallDer \/ CallObject \/ CallToken

ReadersSpec == ReadersInit /\ [][ReadersNext]_<<call, vars, textVars, derVars, objVars, tokenVars>>

-----------------------------------------------------------------------------
\* Octets are accepted exactly when they are the one encoding of their value
\* (DerRead; der.go).
OneForm == Der!OneForm

\* The struct, the signed tree and a holder's copy of an accepted object hold the
\* same (ObjectRead; bundle.Parse, jcs.CheckNumbers).
OneReading == Object!OneReading

\* A token reported under the authority's key is one the authority stamped, for
\* this link and at this time (TokenRead; rfc3161.Verify).
TokenMeansStamped == Token!TokenMeansStamped

\* A token the authority sent is read, however its certificates are arranged, as
\* long as its identifier names one of them (TokenRead; signerCertificate).
HonestTokenVerifies == Token!HonestTokenVerifies

\* FORMAT: "certificate order inside the token carries no meaning" (TokenRead;
\* certificateNamedBy).
OrderMeansNothing == Token!OrderMeansNothing
=============================================================================
