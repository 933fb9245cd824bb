------------------------------- MODULE DerRead -------------------------------
(***************************************************************************)
(* The octet rules of rfc3161/der.go: the length an element is read with   *)
(* (next), the INTEGER and OBJECT IDENTIFIER contents that are accepted.   *)
(* An octet has Base values here rather than 256, which scales every rule  *)
(* and lets every octet string be tried.                                   *)
(***************************************************************************)
EXTENDS Integers, SequencesExt

CONSTANTS
  High,      \* the value of an octet's top bit (0x80)
  MaxCount,  \* the octets a long length may have (4)
  MaxOctets, \* the octets an INTEGER may have (8 for a version, 21 for a serial)
  MaxSub,    \* the largest subidentifier (2^31 - 1)
  MaxRead,   \* bound: octets of an input
  MaxRoom    \* bound: octets left in the container

Base == 2 * High
Octets == 0 .. Base - 1
Inputs == UNION {[1 .. n -> Octets] : n \in 0 .. MaxRead}

VARIABLES
  rule,    \* the function called
  octets,  \* what it is given
  room,    \* for a length, the octets that follow it in the container
  passed   \* what it returned

derVars == <<rule, octets, room, passed>>

DerInit == rule = "none" /\ octets = << >> /\ room = 0 /\ passed = FALSE

\* The value of octets read in base b, and what a further octet is worth.
Number(o, b) ==
  LET value[i \in 0 .. Len(o)] == IF i = 0 THEN 0 ELSE value[i - 1] * b + (o[i] % b)
  IN  value[Len(o)]
Power(k) == LET power[i \in 0 .. k] == IF i = 0 THEN 1 ELSE Base * power[i - 1] IN power[k]

FaultyLong(o, n) == o[2] # 0
\* What the long form is for: a length with no zero ahead of it that the short
\* form does not reach.
Long(o, n) == o[2] # 0 /\ n >= High

Next1(o, left) ==
  LET count == o[1] - High
      short == o[1] < High
      n == IF short THEN o[1] ELSE Number(Tail(o), Base)
  IN  /\ o # << >>
      /\ Len(o) = IF short THEN 1 ELSE 1 + count
      /\ ~short => count \in 1 .. MaxCount /\ Long(o, n)
      /\ n <= left

\* The sign octet is there for a reason.
DerInteger(o) ==
  /\ o # << >>
  /\ Len(o) > 1 => /\ ~(o[1] = 0 /\ o[2] < High)
                   /\ ~(o[1] = Base - 1 /\ o[2] >= High)
DerVersion(o) == DerInteger(o) /\ Len(o) <= MaxOctets

DerBigInt(o) == Number(o, Base) - (IF o[1] >= High THEN Power(Len(o)) ELSE 0)

\* derOID: its loop, holding the subidentifier so far and whether one starts.
OIDStep(s, b) ==
  LET v == s.v * High + (b % High)
      ends == b < High
  IN  [ok |-> s.ok /\ ~(s.start /\ b = High) /\ v <= MaxSub,
       start |-> ends, v |-> IF ends THEN 0 ELSE v]
Scanned(o) ==
  LET state[i \in 0 .. Len(o)] == IF i = 0 THEN [ok |-> TRUE, start |-> TRUE, v |-> 0]
                                           ELSE OIDStep(state[i - 1], o[i])
  IN  state[Len(o)]
DerOID(o) == o # << >> /\ Scanned(o).ok /\ Scanned(o).start

Called(name, o, left, answer) ==
  rule = "none" /\ rule' = name /\ octets' = o /\ room' = left /\ passed' = answer

ReadLength  == \E o \in Inputs, left \in 0 .. MaxRoom : Called("length", o, left, Next1(o, left))
ReadInteger == \E o \in Inputs : Called("integer", o, 0, DerVersion(o))
ReadOID     == \E o \in Inputs : Called("oid", o, 0, DerOID(o))

DerNext == ReadLength \/ ReadInteger \/ ReadOID

-----------------------------------------------------------------------------
(***************************************************************************)
(* What the octets stand for, encoded the one way DER allows.              *)
(***************************************************************************)
Digits(n, b) ==
  LET digits[m \in 0 .. n] == IF m < b THEN <<m>> ELSE Append(digits[m \div b], m % b)
  IN  digits[n]
LengthCode(n) == IF n < High THEN <<n>> ELSE <<High + Len(Digits(n, Base))>> \o Digits(n, Base)
SubCode(n) == LET d == Digits(n, High) IN [i \in DOMAIN d |-> IF i < Len(d) THEN High + d[i] ELSE d[i]]
OIDCodes == {FlattenSeq([i \in DOMAIN s |-> SubCode(s[i])]) :
               s \in UNION {[1 .. k -> 0 .. MaxSub] : k \in 1 .. MaxRead}}
Fits(v, k) == -(High * Power(k - 1)) <= v /\ v < High * Power(k - 1)

\* Every value has one encoding, and it is read: octets are accepted exactly when
\* they are the shortest form of a length that fits, of an INTEGER, or of a
\* sequence of subidentifiers, so that two verifiers cannot read one token
\* differently and none refuses what an authority correctly writes (der.go next,
\* derInteger, derOID).
OneForm ==
  /\ rule = "length" => (passed <=> \E n \in 0 .. room : octets = LengthCode(n))
  /\ rule = "integer" => (passed <=> /\ Len(octets) \in 1 .. MaxOctets
                                     /\ \A k \in 1 .. Len(octets) - 1 : ~Fits(DerBigInt(octets), k))
  /\ rule = "oid" => (passed <=> octets \in OIDCodes)
=============================================================================
