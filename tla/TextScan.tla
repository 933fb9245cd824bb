------------------------------ MODULE TextScan ------------------------------
(***************************************************************************)
(* The three scans every document goes through before a value is built:    *)
(* CheckDepth, which only counts brackets; validateStrings, which looks    *)
(* ahead over an escape; and the JSON decoder, which is the only one that  *)
(* parses.  They are pure scans of the same bytes, so they advance here    *)
(* together, a character at a time over every text there is, and each      *)
(* keeps its own idea of where a string begins and ends.                   *)
(*                                                                         *)
(* Of the decoder (a library) only brackets and strings are kept: it       *)
(* accepts more here than it does, so what holds of it holds of the real   *)
(* one.  The text itself is not part of the state.                         *)
(***************************************************************************)
EXTENDS Integers, Sequences

CONSTANT MaxDepth       \* the limit CheckDepth is given

ASSUME DepthAssumption == MaxDepth \in Nat

\* Characters told apart: "8" stands for the digits 8 to b, "c" for c, e and f,
\* "0" for the others but d; "bad" is a byte that is not UTF-8.
Hex == {"0", "8", "c", "d"}
Openers == {"[", "{"}
Closers == {"]", "}"}
Chars == Hex \union Openers \union Closers \union {"quote", "back", "u", "other", "bad"}
Closes(o) == IF o = "[" THEN "]" ELSE "}"

\* The four digits of an escape from position k on name half of a pair.
Upper(w, k) == w[k] = "d" /\ w[k + 1] = "8"
Lower(w, k)  == w[k] = "d" /\ w[k + 1] \in {"c", "d"}

VARIABLES
  depth, inString, escaped, tooDeep,     \* CheckDepth
  quoted, ahead, refused,                \* validateStrings: ahead is raw[i..] inside an escape
  mode, digits, stack, half, coerced, malformed, \* the decoder
  ended

scanner == <<depth, inString, escaped, tooDeep>>
validator == <<quoted, ahead, refused>>
decoder == <<mode, digits, stack, half, coerced, malformed>>
textVars == <<depth, inString, escaped, tooDeep, quoted, ahead, refused,
          mode, digits, stack, half, coerced, malformed, ended>>

TextInit ==
  /\ depth = 0 /\ inString = FALSE /\ escaped = FALSE /\ tooDeep = FALSE
  /\ quoted = FALSE /\ ahead = << >> /\ refused = FALSE
  /\ mode = "out" /\ digits = << >> /\ stack = << >> /\ half = FALSE /\ coerced = FALSE /\ malformed = FALSE
  /\ ended = FALSE

(***************************************************************************)
(* CheckDepth: one turn of its loop.                                       *)
(***************************************************************************)
Bracket(c) == ~escaped /\ ~inString /\ c \in Openers \union Closers
FaultyEscape(c) == inString /\ c = "back"
Escape(c) == ~escaped /\ inString /\ c = "back"

CheckDepth(c) ==
  /\ escaped' = Escape(c)
  /\ inString' = IF ~escaped /\ c = "quote" THEN ~inString ELSE inString
  /\ depth' = IF Bracket(c) THEN IF c \in Openers THEN depth + 1 ELSE depth - 1 ELSE depth
  /\ tooDeep' = (depth' > MaxDepth)

(***************************************************************************)
(* validateStrings: the characters it has looked ahead over, of an escape  *)
(* it has not yet stepped past.                                            *)
(***************************************************************************)
FaultySteps(w) ==
  \/ Len(w) = 2 /\ w[2] # "u"
  \/ Len(w) = 6
Steps(w) ==
  \/ Len(w) = 2 /\ w[2] # "u"
  \/ Len(w) = 6 /\ ~Upper(w, 3)
  \/ Len(w) = 12

Refuses(w) ==
  \/ Len(w) \in 3 .. 6 /\ w[Len(w)] \notin Hex
  \/ Len(w) = 6 /\ Lower(w, 3)
  \/ Len(w) = 7 /\ w[7] # "back"
  \/ Len(w) = 8 /\ w[8] # "u"
  \/ Len(w) \in 9 .. 12 /\ w[Len(w)] \notin Hex
  \/ Len(w) = 12 /\ ~Lower(w, 9)

ValidateStrings(c) ==
  LET opened == ahead # << >> \/ (quoted /\ c = "back")
      w      == Append(ahead, c)
  IN  /\ ahead' = IF opened /\ ~Steps(w) THEN w ELSE << >>
      /\ quoted' = IF ~opened /\ c = "quote" THEN ~quoted ELSE quoted
      /\ refused' = (c = "bad" \/ (opened /\ Refuses(w)))

(***************************************************************************)
(* The decoder writes U+FFFD for half a pair left alone and for a byte     *)
(* that is not UTF-8.                                                      *)
(***************************************************************************)
Outside(c) ==
  /\ mode = "out"
  /\ mode' = IF c = "quote" THEN "in" ELSE "out"
  /\ stack' = IF c \in Openers THEN Append(stack, c)
              ELSE IF c \in Closers /\ stack # << >> THEN SubSeq(stack, 1, Len(stack) - 1)
              ELSE stack
  /\ malformed' = \/ c \in {"back", "bad"}
                  \/ c \in Closers /\ (stack = << >> \/ c # Closes(stack[Len(stack)]))
  /\ UNCHANGED <<digits, half, coerced>>

Inside(c) ==
  /\ mode = "in"
  /\ mode' = IF c = "quote" THEN "out" ELSE IF c = "back" THEN "esc" ELSE "in"
  /\ half' = (half /\ c = "back")
  /\ coerced' = (coerced \/ c = "bad" \/ (half /\ c # "back"))
  /\ UNCHANGED <<digits, stack, malformed>>

Escaped(c) ==
  /\ mode = "esc"
  /\ mode' = IF c = "u" THEN "hex" ELSE "in"
  /\ malformed' = (c = "bad")
  /\ half' = (half /\ c = "u")
  /\ coerced' = (coerced \/ (half /\ c # "u"))
  /\ UNCHANGED <<digits, stack>>

Digits(c) ==
  LET w == Append(digits, c) IN
    /\ mode = "hex"
    /\ malformed' = (c \notin Hex)
    /\ IF Len(w) = 4
         THEN /\ mode' = "in" /\ digits' = << >> /\ half' = Upper(w, 1)
              /\ coerced' = (coerced \/ half # Lower(w, 1))
         ELSE digits' = w /\ UNCHANGED <<mode, half, coerced>>
    /\ UNCHANGED stack

Decode(c) == Outside(c) \/ Inside(c) \/ Escaped(c) \/ Digits(c)

\* One more character.  Nothing is read past the first refusal of any scan.
ReadChar(c) ==
  /\ ~ended /\ ~tooDeep /\ ~refused /\ ~malformed
  /\ CheckDepth(c) /\ ValidateStrings(c) /\ Decode(c)
  /\ UNCHANGED ended

\* The text ends; an escape cut short is refused, and an open string or bracket
\* is malformed.
EndText ==
  /\ ~ended /\ ~tooDeep /\ ~refused /\ ~malformed
  /\ ended' = TRUE
  /\ refused' = (ahead # << >>)
  /\ malformed' = (mode # "out" \/ stack # << >>)
  /\ UNCHANGED <<scanner, quoted, ahead, mode, digits, stack, half, coerced>>

TextNext == EndText \/ \E c \in Chars : ReadChar(c)

TextSpec == TextInit /\ [][TextNext]_textVars

-----------------------------------------------------------------------------
(***************************************************************************)
(* Properties.                                                             *)
(***************************************************************************)

\* Every variable has its type.
TextTypeOK ==
  /\ depth \in Int /\ inString \in BOOLEAN /\ escaped \in BOOLEAN /\ tooDeep \in BOOLEAN
  /\ quoted \in BOOLEAN /\ ahead \in Seq(Chars) /\ Len(ahead) < 12 /\ refused \in BOOLEAN
  /\ mode \in {"out", "in", "esc", "hex"} /\ digits \in Seq(Chars) /\ Len(digits) < 4
  /\ stack \in Seq(Openers)
  /\ half \in BOOLEAN /\ coerced \in BOOLEAN /\ malformed \in BOOLEAN /\ ended \in BOOLEAN

\* The bracket counter is never out of step with the parser: as long as a text
\* can still be a document, it counts the nesting the parser is in and knows when
\* the parser is inside a string, so that only a document nested deeper than the
\* limit is refused for it, and no deeper one ever reaches the recursive reader
\* (CheckDepth runs first, and a bracket in a string is text).
DepthIsNesting ==
  ~malformed =>
    /\ depth = Len(stack)
    /\ inString <=> mode # "out"
    /\ tooDeep <=> Len(stack) > MaxDepth

\* validateStrings is exact: a text the decoder reads is refused if and only if
\* the decoder would have replaced a character, so no two documents come to share
\* a canonical form and none is turned away for a string that is in order.
StringsExact == ~malformed => (refused <=> coerced)
=============================================================================
