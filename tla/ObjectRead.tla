----------------------------- MODULE ObjectRead -----------------------------
(***************************************************************************)
(* One object of a bundle, read three times from the same bytes: into the  *)
(* parsed tree, which is what the signature covers (jcs.Parse); into the   *)
(* struct the verdict is computed from (encoding/json, a library); and, by *)
(* a holder who withholds, into a map of doubles that is written out again *)
(* (reduceDisclosures, the same library).  The decoder folds the case of a *)
(* name, lets the last of several members win and reads null as no value;  *)
(* the tree does none of this.  Parse holds the tree to rules that are to  *)
(* leave no room between the three.                                        *)
(***************************************************************************)
EXTENDS Integers, FiniteSets

CONSTANTS
  Safe,        \* the largest integer every double up to it holds (2^53)
  MaxMembers   \* bound: members written in the object

\* The objects checkExactMembers walks to, by what they hold.
Numbered == {"chain head", "claim chain", "consistency", "anchor"}
Worded == {"bundle", "producer", "subject", "chain", "claim", "inclusion", "verdict",
           "claim attestation", "disclosure", "evidence", "signature", "head attestation"}
Structs == Numbered \union Worded
\* Those that carry an array.
Listed == {"bundle", "claim", "inclusion", "consistency"}
\* The open ones: a map of strings, and JSON kept as it was written.
Raw == {"payload", "disclosure value"}
Places == Structs \union Raw \union {"params"}

\* A member's name: the declared one, a case variant of it, any other.
Names == {"seq", "Seq", "other"}
Folded == {"seq", "Seq"}

Null == "null"
Fraction == "fraction"
Holed == "list with a null"
Literals == {-Safe - 1, -Safe, 1, Safe, Safe + 1}
Value(is, of) == [is |-> is, of |-> of]
Menu(p) ==
  {Value(Null, 0)}
  \union (IF p \in Numbered \union Raw THEN {Value("number", n) : n \in Literals}
                                     ELSE {Value("text", t) : t \in {1, 2}})
  \union (IF p \in Raw THEN {Value(Fraction, 0)} ELSE {})
  \union (IF p \in Listed THEN {Value(Holed, 0), Value("list", 1)} ELSE {})

Zero == Value("zero", 0)

VARIABLES
  place,    \* which object is read
  count,    \* members read
  tree,     \* the parsed tree: what each name holds
  field,    \* the struct: what each name holds, folded names as the declared one
  copy,     \* the holder's map, numbers as doubles
  repeated, \* a name came twice
  stray,    \* the decoder met a name it knows no field for
  outcome

objVars == <<place, count, tree, field, copy, repeated, stray, outcome>>

ObjInit ==
  /\ place = "none" /\ count = 0
  /\ tree = [n \in Names |-> Zero] /\ field = [n \in Names |-> Zero]
  /\ copy = [n \in Names |-> Zero]
  /\ repeated = FALSE /\ stray = FALSE /\ outcome = "reading"

Open ==
  /\ place = "none" /\ place' \in Places
  /\ UNCHANGED <<count, tree, field, copy, repeated, stray, outcome>>

\* The nearest double: past Safe only the even integers are left, ties to the
\* one divisible by four.
Even(n) == CHOOSE e \in {n - 1, n + 1} : e % 4 = 0
Double(v) ==
  IF v.is = "number" /\ v.of \notin -Safe .. Safe /\ v.of % 2 = 1
    THEN [v EXCEPT !.of = Even(v.of)] ELSE v

\* The struct decoder takes one member.
Field(n) == IF place \in Structs /\ n \in Folded THEN "seq" ELSE n
Decoded(n, v) ==
  CASE v.is = Holed -> Value("list", 0)
    [] v.is = Null /\ place = "params" -> Value("text", 0)
    [] v.is = Null /\ place \in Structs -> field[Field(n)]
    [] OTHER -> v

Member ==
  /\ place # "none" /\ outcome = "reading" /\ count < MaxMembers
  /\ \E n \in Names, v \in Menu(place) :
       /\ tree' = [tree EXCEPT ![n] = v]
       /\ field' = [field EXCEPT ![Field(n)] = Decoded(n, v)]
       /\ copy' = [copy EXCEPT ![n] = Double(v)]
       /\ repeated' = (repeated \/ tree[n] # Zero)
       /\ stray' = (stray \/ (place \in Structs /\ n \notin Folded))
  /\ count' = count + 1
  /\ UNCHANGED <<place, outcome>>

Held == {n \in Names : tree[n] # Zero}

FaultyCheckNumbers(v) == v.is # Fraction /\ (v.is = "number" => v.of \in -Safe - 1 .. Safe + 1)
CheckNumbers(v) == v.is # Fraction /\ (v.is = "number" => v.of \in -Safe .. Safe)

ExactMembers ==
  place \in Structs => \A n \in Held : n = "seq" /\ tree[n].is # Null
NullElements == \A n \in Held : tree[n].is # Holed
StringParams == place = "params" => \A n \in Held : tree[n].is = "text"

\* The object ends and Parse judges it.
Judge ==
  /\ place # "none" /\ outcome = "reading"
  /\ outcome' = IF /\ ~repeated /\ ~stray
                   /\ \A n \in Held : CheckNumbers(tree[n])
                   /\ ExactMembers /\ NullElements /\ StringParams
                THEN "accepted" ELSE "refused"
  /\ UNCHANGED <<place, count, tree, field, copy, repeated, stray>>

ObjNext == Open \/ Member \/ Judge

-----------------------------------------------------------------------------
\* The three readings of an accepted object are one: the verdict is computed
\* from exactly the values the signature covers, and a bundle a holder reduced
\* and wrote out again holds the numbers the producer signed.  A member the tree
\* has is a value in the struct, and none is there that the tree has not.
OneReading ==
  outcome = "accepted" => \A n \in Names : field[n] = tree[n] /\ copy[n] = tree[n]
=============================================================================
