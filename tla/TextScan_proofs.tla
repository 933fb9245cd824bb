--------------------------- MODULE TextScan_proofs ---------------------------
(***************************************************************************)
(* What TextScan promises, for every limit and every text.                 *)
(*                                                                         *)
(* The scans stop at the first refusal, so the invariant has only to hold  *)
(* up to it: it says where CheckDepth, validateStrings and the decoder     *)
(* stand when none has refused, and what they agree on at the step that    *)
(* refuses.                                                                *)
(***************************************************************************)
EXTENDS TextScan, SequenceTheorems, TLAPS

\* Where each variable lives, as far as the proofs need it.
Kinds ==
  /\ depth \in Int /\ stack \in Seq(Openers) /\ digits \in Seq(Chars) /\ Len(digits) < 4
  /\ mode \in {"out", "in", "esc", "hex"}

\* The counter and the parser stand at the same place.
InStep ==
  ~malformed =>
    /\ depth = Len(stack)
    /\ inString = (mode # "out")
    /\ escaped = (mode = "esc")
    /\ tooDeep = (Len(stack) > MaxDepth)

DepthInv == Kinds /\ InStep

LEMMA DepthInit == TextInit => DepthInv
<1> SUFFICES ASSUME TextInit PROVE DepthInv
  OBVIOUS
<1>1. Kinds
  BY EmptySeq DEF TextInit, Kinds
<1>2. stack = << >> /\ Len(<< >>) = 0 /\ ~(0 > MaxDepth)
  BY DepthAssumption, EmptySeq DEF TextInit
<1>3. InStep
  <2>1. depth = Len(stack) /\ mode = "out" /\ inString = FALSE /\ escaped = FALSE /\ tooDeep = FALSE
    BY <1>2 DEF TextInit
  <2>2. (Len(stack) > MaxDepth) = FALSE
    BY <1>2
  <2>3. (mode # "out") = FALSE /\ (mode = "esc") = FALSE
    BY <2>1
  <2> QED BY <2>1, <2>2, <2>3, Zenon DEF InStep
<1> QED BY <1>1, <1>3 DEF DepthInv

\* The last bracket is taken off.
LEMMA Unstacked ==
  ASSUME NEW s \in Seq(Openers), s # << >>
  PROVE  /\ SubSeq(s, 1, Len(s) - 1) \in Seq(Openers)
         /\ Len(SubSeq(s, 1, Len(s) - 1)) = Len(s) - 1
<1>1. Len(s) \in Nat \ {0} /\ \A i \in 1 .. Len(s) - 1 : s[i] \in Openers
  BY EmptySeq, ElementOfSeq
<1>2. Len(s) \in Int /\ Len(s) - 1 \in Int /\ 1 \in Int /\ 1 <= Len(s)
  BY <1>1
<1>3. SubSeq(s, 1, Len(s) - 1) \in Seq(Openers)
  BY <1>1, <1>2, SubSeqProperties
<1>4. CASE Len(s) = 1
  <2>1. SubSeq(s, 1, Len(s) - 1) = << >>
    BY <1>4, SubSeqEmpty
  <2> QED BY <1>3, <1>4, <2>1, EmptySeq
<1>5. CASE Len(s) # 1
  <2> \A n \in Int : 1 <= n /\ n # 1 => 1 <= n - 1
    OBVIOUS
  <2>1. 1 <= Len(s) - 1
    BY <1>2, <1>5, Zenon
  <2>2. Len(SubSeq(s, 1, Len(s) - 1)) = (Len(s) - 1) - 1 + 1
    BY <1>1, <1>2, <2>1, SubSeqProperties
  <2> QED BY <1>2, <1>3, <2>2
<1> QED BY <1>4, <1>5

LEMMA KindsStep ==
  ASSUME Kinds, NEW c \in Chars, CheckDepth(c), Decode(c)
  PROVE  Kinds'
<1>1. depth' \in Int
  BY DEF Kinds, CheckDepth, Bracket
<1>2. CASE Outside(c)
  <2>1. stack' \in Seq(Openers)
    <3>1. CASE c \in Openers
      BY <1>2, <3>1 DEF Outside, Kinds
    <3>2. CASE c \notin Openers /\ c \in Closers /\ stack # << >>
      BY <1>2, <3>2, Unstacked DEF Outside, Kinds
    <3>3. CASE c \notin Openers /\ ~(c \in Closers /\ stack # << >>)
      BY <1>2, <3>3 DEF Outside, Kinds
    <3> QED BY <3>1, <3>2, <3>3
  <2> QED BY <1>1, <1>2, <2>1 DEF Outside, Kinds
<1>3. CASE Inside(c)
  BY <1>1, <1>3 DEF Inside, Kinds
<1>4. CASE Escaped(c)
  BY <1>1, <1>4 DEF Escaped, Kinds
<1>5. CASE Digits(c)
  <2>1. Append(digits, c) \in Seq(Chars) /\ Len(Append(digits, c)) = Len(digits) + 1
    BY DEF Kinds
  <2>2. digits' \in Seq(Chars) /\ Len(digits') < 4
    <3>1. CASE Len(Append(digits, c)) = 4
      <4>1. digits' = << >>
        BY <1>5, <3>1 DEF Digits
      <4> QED BY <4>1, EmptySeq
    <3>2. CASE Len(Append(digits, c)) # 4
      <4>1. digits' = Append(digits, c)
        BY <1>5, <3>2 DEF Digits
      <4>2. Len(digits) \in Nat /\ Len(digits) < 4
        BY LenProperties DEF Kinds
      <4> QED BY <2>1, <3>2, <4>1, <4>2
    <3> QED BY <3>1, <3>2
  <2> QED BY <1>1, <1>5, <2>2 DEF Digits, Kinds
<1> QED BY <1>2, <1>3, <1>4, <1>5 DEF Decode

LEMMA InStepStep ==
  ASSUME DepthInv, NEW c \in Chars, ~malformed, CheckDepth(c), Decode(c), ~malformed'
  PROVE  InStep'
<1>1. /\ depth = Len(stack) /\ inString = (mode # "out") /\ escaped = (mode = "esc")
      /\ depth \in Int /\ stack \in Seq(Openers) /\ mode \in {"out", "in", "esc", "hex"}
  BY DEF DepthInv, InStep, Kinds
<1>2. CASE Outside(c)
  <2>1. inString = FALSE /\ escaped = FALSE /\ escaped' = FALSE
    BY <1>1, <1>2 DEF Outside, CheckDepth, Escape
  <2>2. inString' = (mode' # "out")
    BY <1>2, <2>1 DEF Outside, CheckDepth
  <2>3. depth' = Len(stack')
    <3>1. CASE c \in Openers
      BY <1>1, <1>2, <2>1, <3>1 DEF Outside, CheckDepth, Bracket
    <3>2. CASE c \in Closers
      <4>1. stack # << >> /\ c \notin Openers
        BY <1>2, <3>2 DEF Outside, Openers, Closers
      <4>2. depth' = depth - 1 /\ stack' = SubSeq(stack, 1, Len(stack) - 1)
        BY <1>2, <2>1, <3>2, <4>1 DEF Outside, CheckDepth, Bracket
      <4> QED BY <1>1, <4>1, <4>2, Unstacked
    <3>3. CASE c \notin Openers \union Closers
      BY <1>1, <1>2, <2>1, <3>3 DEF Outside, CheckDepth, Bracket
    <3> QED BY <3>1, <3>2, <3>3
  <2>4. mode' # "esc"
    BY <1>2 DEF Outside
  <2> QED BY <2>1, <2>2, <2>3, <2>4 DEF InStep, CheckDepth
<1>3. CASE mode # "out"
  <2>1. inString = TRUE /\ depth' = depth
    BY <1>1, <1>3 DEF CheckDepth, Bracket
  <2>2. stack' = stack
    BY <1>3 DEF Decode, Outside, Inside, Escaped, Digits
  <2>3. inString' = (mode' # "out")
    <3>1. CASE Inside(c)
      BY <1>1, <2>1, <3>1 DEF Inside, CheckDepth
    <3>2. CASE Escaped(c)
      BY <1>1, <2>1, <3>2 DEF Escaped, CheckDepth
    <3>3. CASE Digits(c)
      <4>1. c \in Hex /\ mode' # "out"
        BY <3>3 DEF Digits
      <4> QED BY <2>1, <4>1 DEF CheckDepth, Hex
    <3> QED BY <1>3, <3>1, <3>2, <3>3 DEF Decode, Outside
  <2>4. escaped' = (mode' = "esc")
    <3>1. CASE Inside(c)
      BY <1>1, <2>1, <3>1 DEF Inside, CheckDepth, Escape
    <3>2. CASE Escaped(c)
      BY <1>1, <3>2 DEF Escaped, CheckDepth, Escape
    <3>3. CASE Digits(c)
      <4>1. c \in Hex /\ mode' # "esc"
        BY <3>3 DEF Digits
      <4> QED BY <4>1 DEF CheckDepth, Escape, Hex
    <3> QED BY <1>3, <3>1, <3>2, <3>3 DEF Decode, Outside
  <2> QED BY <1>1, <2>1, <2>2, <2>3, <2>4 DEF InStep, CheckDepth
<1> QED BY <1>2, <1>3 DEF Decode, Outside, Inside, Escaped, Digits

LEMMA DepthNext == DepthInv /\ [TextNext]_textVars => DepthInv'
<1> SUFFICES ASSUME DepthInv, [TextNext]_textVars PROVE DepthInv'
  OBVIOUS
<1>1. ASSUME NEW c \in Chars, ReadChar(c) PROVE DepthInv'
  BY <1>1, KindsStep, InStepStep DEF ReadChar, DepthInv, InStep
<1>2. CASE EndText
  BY <1>2 DEF EndText, scanner, DepthInv, Kinds, InStep
<1>3. CASE UNCHANGED textVars
  BY <1>3 DEF textVars, DepthInv, Kinds, InStep
<1> QED BY <1>1, <1>2, <1>3 DEF TextNext

\* A document is turned away for its depth exactly when the parser would nest
\* deeper than the limit, whatever the limit is and whatever its strings hold.
THEOREM DepthTheorem == TextSpec => []DepthIsNesting
<1>1. DepthInv => DepthIsNesting
  BY DEF DepthInv, InStep, DepthIsNesting
<1> QED BY <1>1, DepthInit, DepthNext, PTL DEF TextSpec

-----------------------------------------------------------------------------
(***************************************************************************)
(* validateStrings and the decoder.  Between two refusals the look-ahead   *)
(* holds exactly the escape, or the pair of escapes, the decoder is in: at *)
(* most one half of a pair is pending, and then the look-ahead is past it. *)
(***************************************************************************)
AtOut == ahead = << >> /\ quoted = FALSE /\ mode = "out" /\ half = FALSE /\ digits = << >>
AtIn  == ahead = << >> /\ quoted = TRUE /\ mode = "in" /\ half = FALSE /\ digits = << >>
AtHalf ==
  Len(ahead) = 6 /\ quoted = TRUE /\ mode = "in" /\ half = TRUE /\ digits = << >>
AtEscape(n, h) ==
  Len(ahead) = n /\ quoted = TRUE /\ mode = "esc" /\ half = h /\ digits = << >>
AtDigits(n, h) ==
  /\ quoted = TRUE /\ mode = "hex" /\ half = h
  /\ Len(ahead) = Len(digits) + n
  /\ \A k \in 1 .. Len(digits) : digits[k] = ahead[k + n]

Together ==
  \/ AtOut \/ AtIn \/ AtHalf
  \/ AtEscape(1, FALSE) \/ AtEscape(7, TRUE)
  \/ AtDigits(2, FALSE) \/ AtDigits(8, TRUE)

Agreed ==
  \/ refused = TRUE /\ coerced = TRUE
  \/ refused = FALSE /\ coerced = FALSE /\ Together

StringInv == Kinds /\ ahead \in Seq(Chars) /\ (~malformed => Agreed)

\* What Append leaves in place.
LEMMA Appended ==
  ASSUME NEW S, NEW s \in Seq(S), NEW e \in S
  PROVE  /\ Append(s, e) \in Seq(S) /\ Len(s) \in Nat /\ Len(Append(s, e)) = Len(s) + 1
         /\ Append(s, e)[Len(s) + 1] = e
         /\ \A k \in 1 .. Len(s) : Append(s, e)[k] = s[k]
BY AppendProperties, LenProperties

\* Inside an escape the look-ahead grows, or is done with it.
LEMMA LookAhead ==
  ASSUME NEW c \in Chars, ValidateStrings(c), ahead # << >> \/ (quoted = TRUE /\ c = "back")
  PROVE  /\ Steps(Append(ahead, c)) => ahead' = << >>
         /\ ~Steps(Append(ahead, c)) => ahead' = Append(ahead, c)
         /\ quoted' = quoted
         /\ refused' = (c = "bad" \/ Refuses(Append(ahead, c)))
<1>1. (ahead # << >> \/ (quoted /\ c = "back")) = TRUE
  OBVIOUS
<1> QED BY <1>1, Zenon DEF ValidateStrings

\* Outside of one it stays empty.
LEMMA NoLookAhead ==
  ASSUME NEW c \in Chars, ValidateStrings(c), ahead = << >>, quoted = FALSE \/ c # "back"
  PROVE  /\ ahead' = << >>
         /\ quoted' = IF c = "quote" THEN ~quoted ELSE quoted
         /\ refused' = (c = "bad")
<1>1. (ahead # << >> \/ (quoted /\ c = "back")) = FALSE
  OBVIOUS
<1> QED BY <1>1, Zenon DEF ValidateStrings

LEMMA AheadKinds ==
  ASSUME ahead \in Seq(Chars), NEW c \in Chars, ValidateStrings(c)
  PROVE  ahead' \in Seq(Chars)
<1>1. Append(ahead, c) \in Seq(Chars) /\ << >> \in Seq(Chars)
  BY Appended, EmptySeq
<1>2. ahead' = Append(ahead, c) \/ ahead' = << >>
  BY Zenon DEF ValidateStrings
<1> QED BY <1>1, <1>2

LEMMA FromOut ==
  ASSUME AtOut, coerced = FALSE, NEW c \in Chars, ValidateStrings(c), Decode(c), ~malformed'
  PROVE  Agreed'
<1>1. Outside(c)
  BY DEF AtOut, Decode, Outside, Inside, Escaped, Digits
<1>2. c # "bad" /\ c # "back"
  BY <1>1 DEF Outside
<1>3. ahead' = << >> /\ quoted' = (c = "quote") /\ refused' = FALSE
  BY <1>2, NoLookAhead DEF AtOut
<1>4. half' = FALSE /\ coerced' = FALSE /\ digits' = << >>
  BY <1>1 DEF Outside, AtOut
<1>5. CASE c = "quote"
  BY <1>1, <1>3, <1>4, <1>5 DEF Outside, Agreed, Together, AtIn
<1>6. CASE c # "quote"
  BY <1>1, <1>3, <1>4, <1>6 DEF Outside, Agreed, Together, AtOut
<1> QED BY <1>5, <1>6

LEMMA FromIn ==
  ASSUME AtIn, coerced = FALSE, NEW c \in Chars, ValidateStrings(c), Decode(c)
  PROVE  Agreed'
<1>1. Inside(c)
  BY DEF AtIn, Decode, Outside, Inside, Escaped, Digits
<1>2. half' = FALSE /\ coerced' = (c = "bad") /\ digits' = << >>
  BY <1>1 DEF Inside, AtIn
<1>3. CASE c = "back"
  <2>1. Append(ahead, c) = <<c>>
    BY DEF AtIn
  <2>2. Len(Append(ahead, c)) = 1
    BY <2>1
  <2>3. ~Steps(Append(ahead, c)) /\ ~Refuses(Append(ahead, c))
    BY <2>2 DEF Steps, Refuses
  <2>4. ahead' = Append(ahead, c) /\ quoted' = TRUE /\ refused' = FALSE
    BY <1>3, <2>3, LookAhead DEF AtIn
  <2>5. mode' = "esc"
    BY <1>1, <1>3 DEF Inside
  <2> QED BY <1>2, <1>3, <2>2, <2>4, <2>5 DEF Agreed, Together, AtEscape
<1>4. CASE c # "back"
  <2>1. ahead' = << >> /\ quoted' = (c # "quote") /\ refused' = (c = "bad")
    BY <1>4, NoLookAhead DEF AtIn
  <2>2. CASE c = "bad"
    BY <1>2, <2>1, <2>2 DEF Agreed
  <2>3. CASE c = "quote"
    BY <1>1, <1>2, <2>1, <2>3 DEF Inside, Agreed, Together, AtOut
  <2>4. CASE c # "bad" /\ c # "quote"
    BY <1>1, <1>2, <1>4, <2>1, <2>4 DEF Inside, Agreed, Together, AtIn
  <2> QED BY <2>2, <2>3, <2>4
<1> QED BY <1>3, <1>4

\* Inside an escape: what the two steps look like.
LEMMA AheadMoves ==
  ASSUME ahead \in Seq(Chars), ahead # << >>, quoted = TRUE, NEW c \in Chars, ValidateStrings(c)
  PROVE  /\ Len(Append(ahead, c)) = Len(ahead) + 1 /\ Append(ahead, c)[Len(ahead) + 1] = c
         /\ \A k \in 1 .. Len(ahead) : Append(ahead, c)[k] = ahead[k]
         /\ Len(ahead) \in Nat /\ quoted' = TRUE
         /\ Steps(Append(ahead, c)) => ahead' = << >>
         /\ ~Steps(Append(ahead, c)) => ahead' = Append(ahead, c)
         /\ Refuses(Append(ahead, c)) => refused' = TRUE
         /\ c # "bad" /\ ~Refuses(Append(ahead, c)) => refused' = FALSE
<1>1. /\ Len(Append(ahead, c)) = Len(ahead) + 1 /\ Append(ahead, c)[Len(ahead) + 1] = c
      /\ \A k \in 1 .. Len(ahead) : Append(ahead, c)[k] = ahead[k]
      /\ Len(ahead) \in Nat
  BY Appended
<1>2. refused' = (c = "bad" \/ Refuses(Append(ahead, c)))
  BY LookAhead
<1>3. /\ Refuses(Append(ahead, c)) => refused' = TRUE
      /\ c # "bad" /\ ~Refuses(Append(ahead, c)) => refused' = FALSE
  BY <1>2, Zenon
<1> QED BY <1>1, <1>3, LookAhead

LEMMA NotEmpty ==
  ASSUME Len(ahead) # 0
  PROVE  ahead # << >>
BY EmptySeq

LEMMA FromEscape ==
  ASSUME ahead \in Seq(Chars), AtEscape(1, FALSE), coerced = FALSE,
         NEW c \in Chars, ValidateStrings(c), Decode(c), ~malformed'
  PROVE  Agreed'
<1> DEFINE w == Append(ahead, c)
<1>1. Escaped(c)
  BY DEF AtEscape, Decode, Outside, Inside, Escaped, Digits
<1>2. c # "bad" /\ half' = FALSE /\ coerced' = FALSE /\ digits' = << >>
  BY <1>1 DEF Escaped, AtEscape
<1>a. Len(ahead) = 1 /\ quoted = TRUE /\ ahead # << >>
  BY NotEmpty DEF AtEscape
<1>b. /\ Len(w) = Len(ahead) + 1 /\ w[Len(ahead) + 1] = c /\ quoted' = TRUE
      /\ (Steps(w) => ahead' = << >>) /\ (~Steps(w) => ahead' = w)
      /\ (c # "bad" /\ ~Refuses(w) => refused' = FALSE)
  BY <1>a, AheadMoves, Zenon
<1>3. Len(w) = 2 /\ w[2] = c
  BY <1>a, <1>b
<1>4. refused' = FALSE
  <2>1. ~Refuses(w)
    BY <1>3 DEF Refuses
  <2> QED BY <1>2, <1>b, <2>1
<1>5. CASE c = "u"
  <2>1. ahead' = w /\ Len(ahead') = 2
    BY <1>3, <1>5, <1>b DEF Steps
  <2>2. mode' = "hex"
    BY <1>1, <1>5 DEF Escaped
  <2>3. Len(digits') = 0
    BY <1>2
  <2>4. AtDigits(2, FALSE)'
    BY <1>2, <1>b, <1>3, <2>1, <2>2, <2>3 DEF AtDigits
  <2> QED BY <1>2, <1>4, <2>4 DEF Agreed, Together
<1>6. CASE c # "u"
  <2>1. ahead' = << >>
    BY <1>3, <1>6, <1>b DEF Steps
  <2>2. mode' = "in"
    BY <1>1, <1>6 DEF Escaped
  <2> QED BY <1>2, <1>b, <1>4, <2>1, <2>2 DEF Agreed, Together, AtIn
<1> QED BY <1>5, <1>6

LEMMA FromHalf ==
  ASSUME ahead \in Seq(Chars), AtHalf, coerced = FALSE,
         NEW c \in Chars, ValidateStrings(c), Decode(c)
  PROVE  Agreed'
<1> DEFINE w == Append(ahead, c)
<1>1. Inside(c)
  BY DEF AtHalf, Decode, Outside, Inside, Escaped, Digits
<1>a. Len(ahead) = 6 /\ quoted = TRUE /\ ahead # << >>
  BY NotEmpty DEF AtHalf
<1>b. /\ Len(w) = Len(ahead) + 1 /\ w[Len(ahead) + 1] = c /\ quoted' = TRUE
      /\ (~Steps(w) => ahead' = w) /\ (Refuses(w) => refused' = TRUE)
      /\ (c # "bad" /\ ~Refuses(w) => refused' = FALSE)
  BY <1>a, AheadMoves, Zenon
<1>2. Len(w) = 7 /\ w[7] = c
  BY <1>a, <1>b
<1>3. refused' = (c # "back")
  <2>1. c = "back" => ~Refuses(w)
    BY <1>2 DEF Refuses
  <2>2. c # "back" => Refuses(w)
    BY <1>2 DEF Refuses
  <2>3. CASE c = "back"
    BY <1>b, <2>1, <2>3
  <2>4. CASE c # "back"
    BY <1>b, <2>2, <2>4
  <2> QED BY <2>3, <2>4
<1>4. CASE c = "back"
  <2>0. ~Steps(w)
    BY <1>2 DEF Steps
  <2>1. ahead' = w /\ Len(ahead') = 7
    BY <1>b, <1>2, <2>0
  <2>2. mode' = "esc" /\ half' = TRUE /\ coerced' = FALSE /\ digits' = << >>
    BY <1>1, <1>4 DEF Inside, AtHalf
  <2> QED BY <1>b, <1>3, <1>4, <2>1, <2>2 DEF Agreed, Together, AtEscape
<1>5. CASE c # "back"
  <2>1. coerced' = TRUE
    BY <1>1, <1>5 DEF Inside, AtHalf
  <2> QED BY <1>3, <1>5, <2>1 DEF Agreed
<1> QED BY <1>4, <1>5

LEMMA FromSecondEscape ==
  ASSUME ahead \in Seq(Chars), AtEscape(7, TRUE), coerced = FALSE,
         NEW c \in Chars, ValidateStrings(c), Decode(c), ~malformed'
  PROVE  Agreed'
<1> DEFINE w == Append(ahead, c)
<1>1. Escaped(c)
  BY DEF AtEscape, Decode, Outside, Inside, Escaped, Digits
<1>2. c # "bad" /\ digits' = << >>
  BY <1>1 DEF Escaped, AtEscape
<1>a. Len(ahead) = 7 /\ quoted = TRUE /\ ahead # << >>
  BY NotEmpty DEF AtEscape
<1>b. /\ Len(w) = Len(ahead) + 1 /\ w[Len(ahead) + 1] = c /\ quoted' = TRUE
      /\ (~Steps(w) => ahead' = w) /\ (Refuses(w) => refused' = TRUE)
      /\ (c # "bad" /\ ~Refuses(w) => refused' = FALSE)
  BY <1>a, AheadMoves, Zenon
<1>3. Len(w) = 8 /\ w[8] = c
  BY <1>a, <1>b
<1>4. refused' = (c # "u")
  <2>1. c = "u" => ~Refuses(w)
    BY <1>3 DEF Refuses
  <2>2. c # "u" => Refuses(w)
    BY <1>3 DEF Refuses
  <2>3. CASE c = "u"
    BY <1>2, <1>b, <2>1, <2>3
  <2>4. CASE c # "u"
    BY <1>b, <2>2, <2>4
  <2> QED BY <2>3, <2>4
<1>5. CASE c = "u"
  <2>0. ~Steps(w)
    BY <1>3 DEF Steps
  <2>1. ahead' = w /\ Len(ahead') = 8
    BY <1>b, <1>3, <2>0
  <2>2. mode' = "hex" /\ half' = TRUE /\ coerced' = FALSE
    BY <1>1, <1>5 DEF Escaped, AtEscape
  <2>3. Len(digits') = 0
    BY <1>2
  <2>4. AtDigits(8, TRUE)'
    BY <1>b, <2>1, <2>2, <2>3 DEF AtDigits
  <2> QED BY <1>4, <1>5, <2>2, <2>4 DEF Agreed, Together
<1>6. CASE c # "u"
  <2>1. coerced' = TRUE
    BY <1>1, <1>6 DEF Escaped, AtEscape
  <2> QED BY <1>4, <1>6, <2>1 DEF Agreed
<1> QED BY <1>5, <1>6

\* A digit of an escape that began n characters into the look-ahead.
LEMMA DigitMoves ==
  ASSUME Kinds, ahead \in Seq(Chars), NEW n \in {2, 8}, NEW h \in BOOLEAN, AtDigits(n, h),
         NEW c \in Chars, ValidateStrings(c), Decode(c), ~malformed'
  PROVE  LET w == Append(ahead, c)
             d == Append(digits, c)
         IN  /\ Digits(c) /\ c \in Hex /\ quoted' = TRUE
             /\ Len(digits) \in 0 .. 3 /\ Len(d) = Len(digits) + 1 /\ Len(w) = Len(d) + n
             /\ w[Len(w)] = c
             /\ \A k \in 1 .. Len(d) : d[k] = w[k + n]
             /\ Steps(w) => ahead' = << >>
             /\ ~Steps(w) => ahead' = w
             /\ Refuses(w) => refused' = TRUE
             /\ ~Refuses(w) => refused' = FALSE
<1> DEFINE w == Append(ahead, c)
           d == Append(digits, c)
<1>1. Digits(c) /\ c \in Hex /\ c # "bad"
  BY DEF AtDigits, Decode, Outside, Inside, Escaped, Digits, Hex
<1>2. /\ digits \in Seq(Chars) /\ Len(digits) \in Nat /\ Len(digits) < 4 /\ Len(d) = Len(digits) + 1
      /\ d[Len(digits) + 1] = c /\ \A k \in 1 .. Len(digits) : d[k] = digits[k]
  BY Appended DEF Kinds
<1>3. Len(ahead) = Len(digits) + n /\ quoted = TRUE /\ \A k \in 1 .. Len(digits) : digits[k] = ahead[k + n]
  BY DEF AtDigits
<1>4. ahead # << >>
  <2> \A i \in Nat : i + n # 0
    OBVIOUS
  <2> QED BY <1>2, <1>3, NotEmpty
<1>5. /\ Len(w) = Len(ahead) + 1 /\ w[Len(ahead) + 1] = c
      /\ \A k \in 1 .. Len(ahead) : w[k] = ahead[k]
      /\ Len(ahead) \in Nat /\ quoted' = TRUE
      /\ (Steps(w) => ahead' = << >>) /\ (~Steps(w) => ahead' = w)
      /\ (Refuses(w) => refused' = TRUE) /\ (~Refuses(w) => refused' = FALSE)
  BY <1>1, <1>3, <1>4, AheadMoves
<1>6. Len(w) = Len(d) + n /\ w[Len(w)] = c
  BY <1>2, <1>3, <1>5
<1>7. ASSUME NEW k \in 1 .. Len(d) PROVE d[k] = w[k + n]
  <2>1. CASE k = Len(d)
    BY <1>2, <1>5, <1>6, <2>1
  <2>2. CASE k # Len(d)
    <3>1. k \in 1 .. Len(digits) /\ k + n \in 1 .. Len(ahead)
      BY <1>2, <1>3, <2>2
    <3> QED BY <1>2, <1>3, <1>5, <3>1
  <2> QED BY <2>1, <2>2
<1>8. Len(digits) \in 0 .. 3
  <2> \A i \in Nat : i < 4 => i \in 0 .. 3
    OBVIOUS
  <2> QED BY <1>2
<1> QED BY <1>1, <1>2, <1>5, <1>6, <1>7, <1>8

\* A digit that is not the last of its four.
LEMMA DigitTaken ==
  ASSUME Kinds, ahead \in Seq(Chars), NEW n \in {2, 8}, NEW h \in BOOLEAN, AtDigits(n, h),
         coerced = FALSE, NEW c \in Chars, ValidateStrings(c), Decode(c), ~malformed',
         Len(Append(digits, c)) # 4
  PROVE  refused' = FALSE /\ coerced' = FALSE /\ AtDigits(n, h)'
<1> DEFINE w == Append(ahead, c)
           d == Append(digits, c)
<1>1. /\ Digits(c) /\ c \in Hex /\ quoted' = TRUE
      /\ Len(digits) \in 0 .. 3 /\ Len(d) = Len(digits) + 1 /\ Len(w) = Len(d) + n
      /\ w[Len(w)] = c
      /\ \A k \in 1 .. Len(d) : d[k] = w[k + n]
      /\ (~Steps(w) => ahead' = w) /\ (~Refuses(w) => refused' = FALSE)
  BY DigitMoves
<1>2. Len(d) \in 1 .. 3
  <2> \A i \in 0 .. 3 : i + 1 # 4 => i + 1 \in 1 .. 3
    OBVIOUS
  <2>1. Len(d) # 4 /\ Len(d) = Len(digits) + 1 /\ Len(digits) \in 0 .. 3
    BY <1>1
  <2> QED BY <2>1, Zenon
<1>3. Len(w) \in 3 .. 5 \/ Len(w) \in 9 .. 11
  BY <1>1, <1>2
<1>4. ~Steps(w) /\ ~Refuses(w)
  BY <1>1, <1>3 DEF Steps, Refuses
<1>5. digits' = d /\ mode' = "hex" /\ half' = h /\ coerced' = FALSE
  BY <1>1 DEF Digits, AtDigits
<1>6. AtDigits(n, h)'
  BY <1>1, <1>4, <1>5 DEF AtDigits
<1> QED BY <1>1, <1>4, <1>5, <1>6

\* The last digit of a first escape: half a pair is pending or is not.
LEMMA FirstEscapeRead ==
  ASSUME Kinds, ahead \in Seq(Chars), AtDigits(2, FALSE),
         coerced = FALSE, NEW c \in Chars, ValidateStrings(c), Decode(c), ~malformed',
         Len(Append(digits, c)) = 4
  PROVE  Agreed'
<1> DEFINE w == Append(ahead, c)
           d == Append(digits, c)
<1>a. 2 \in {2, 8} /\ FALSE \in BOOLEAN
  OBVIOUS
<1>b. /\ Digits(c) /\ c \in Hex /\ quoted' = TRUE /\ Len(w) = Len(d) + 2
      /\ w[Len(w)] = c
      /\ \A k \in 1 .. Len(d) : d[k] = w[k + 2]
      /\ (Steps(w) => ahead' = << >>) /\ (~Steps(w) => ahead' = w)
      /\ (Refuses(w) => refused' = TRUE) /\ (~Refuses(w) => refused' = FALSE)
  BY <1>a, DigitMoves, Zenon
<1>c. Len(d) = 4 /\ Len(w) = 6
  BY <1>b
<1>1. /\ Digits(c) /\ c \in Hex /\ quoted' = TRUE /\ Len(d) = 4 /\ Len(w) = 6
      /\ w[Len(w)] = c
      /\ \A k \in 1 .. 4 : d[k] = w[k + 2]
      /\ (Steps(w) => ahead' = << >>) /\ (~Steps(w) => ahead' = w)
      /\ (Refuses(w) => refused' = TRUE) /\ (~Refuses(w) => refused' = FALSE)
  BY <1>b, <1>c, Zenon
<1>2. d[1] = w[3] /\ d[2] = w[4]
  BY <1>1
<1>3. digits' = << >> /\ mode' = "in" /\ half' = Upper(d, 1) /\ coerced' = Lower(d, 1)
  BY <1>1 DEF Digits, AtDigits, Lower
<1>4. Refuses(w) <=> Lower(d, 1)
  BY <1>1, <1>2 DEF Refuses, Lower
<1>5. Steps(w) <=> ~Upper(d, 1)
  BY <1>1, <1>2 DEF Steps, Upper
<1>6. CASE Lower(d, 1)
  <2>1. coerced' = TRUE
    BY <1>3, <1>6 DEF Lower
  <2> QED BY <1>1, <1>4, <1>6, <2>1 DEF Agreed
<1>7. CASE ~Lower(d, 1)
  <2>1. refused' = FALSE /\ coerced' = FALSE
    BY <1>1, <1>3, <1>4, <1>7 DEF Lower
  <2>2. CASE Upper(d, 1)
    <3>1. half' = TRUE
      BY <1>3, <2>2 DEF Upper
    <3>2. ahead' = w /\ Len(ahead') = 6
      BY <1>1, <1>5, <2>2
    <3> QED BY <1>1, <1>3, <2>1, <3>1, <3>2 DEF Agreed, Together, AtHalf
  <2>3. CASE ~Upper(d, 1)
    <3>1. half' = FALSE
      BY <1>3, <2>3 DEF Upper
    <3>2. ahead' = << >>
      BY <1>1, <1>5, <2>3
    <3> QED BY <1>1, <1>3, <2>1, <3>1, <3>2 DEF Agreed, Together, AtIn
  <2> QED BY <2>2, <2>3
<1> QED BY <1>6, <1>7

\* The last digit of a second escape: it is the other half or both refuse it.
LEMMA SecondEscapeRead ==
  ASSUME Kinds, ahead \in Seq(Chars), AtDigits(8, TRUE),
         coerced = FALSE, NEW c \in Chars, ValidateStrings(c), Decode(c), ~malformed',
         Len(Append(digits, c)) = 4
  PROVE  Agreed'
<1> DEFINE w == Append(ahead, c)
           d == Append(digits, c)
<1>a. 8 \in {2, 8} /\ TRUE \in BOOLEAN
  OBVIOUS
<1>b. /\ Digits(c) /\ c \in Hex /\ quoted' = TRUE /\ Len(w) = Len(d) + 8
      /\ w[Len(w)] = c
      /\ \A k \in 1 .. Len(d) : d[k] = w[k + 8]
      /\ (Steps(w) => ahead' = << >>)
      /\ (Refuses(w) => refused' = TRUE) /\ (~Refuses(w) => refused' = FALSE)
  BY <1>a, DigitMoves, Zenon
<1>c. Len(d) = 4 /\ Len(w) = 12
  BY <1>b
<1>1. /\ Digits(c) /\ c \in Hex /\ quoted' = TRUE /\ Len(d) = 4 /\ Len(w) = 12
      /\ w[Len(w)] = c
      /\ \A k \in 1 .. 4 : d[k] = w[k + 8]
      /\ (Steps(w) => ahead' = << >>)
      /\ (Refuses(w) => refused' = TRUE) /\ (~Refuses(w) => refused' = FALSE)
  BY <1>b, <1>c, Zenon
<1>2. d[1] = w[9] /\ d[2] = w[10]
  BY <1>1
<1>3. digits' = << >> /\ mode' = "in" /\ half' = Upper(d, 1) /\ coerced' = (~Lower(d, 1))
  BY <1>1 DEF Digits, AtDigits, Lower
<1>4. Refuses(w) <=> ~Lower(d, 1)
  BY <1>1, <1>2 DEF Refuses, Lower
<1>5. CASE ~Lower(d, 1)
  BY <1>1, <1>3, <1>4, <1>5 DEF Agreed
<1>6. CASE Lower(d, 1)
  <2>1. refused' = FALSE /\ coerced' = FALSE
    BY <1>1, <1>3, <1>4, <1>6
  <2>2. half' = FALSE
    BY <1>3, <1>6 DEF Upper, Lower
  <2>3. Steps(w)
    BY <1>1 DEF Steps
  <2>4. ahead' = << >>
    BY <1>1, <2>3
  <2> QED BY <1>1, <1>3, <2>1, <2>2, <2>4 DEF Agreed, Together, AtIn
<1> QED BY <1>5, <1>6

LEMMA StringStep ==
  ASSUME StringInv, NEW c \in Chars, ReadChar(c)
  PROVE  StringInv'
<1>1. /\ Kinds /\ ahead \in Seq(Chars) /\ ~malformed /\ refused = FALSE /\ coerced = FALSE /\ Together
      /\ CheckDepth(c) /\ ValidateStrings(c) /\ Decode(c)
  BY DEF StringInv, ReadChar, Agreed
<1>2. Kinds' /\ ahead' \in Seq(Chars)
  BY <1>1, KindsStep, AheadKinds
<1>3. ASSUME ~malformed' PROVE Agreed'
  <2>1. CASE AtOut \/ AtIn \/ AtHalf
    BY <1>1, <1>3, <2>1, FromOut, FromIn, FromHalf
  <2>2. CASE AtEscape(1, FALSE) \/ AtEscape(7, TRUE)
    BY <1>1, <1>3, <2>2, FromEscape, FromSecondEscape
  <2>3. CASE AtDigits(2, FALSE) \/ AtDigits(8, TRUE)
    <3>1. CASE Len(Append(digits, c)) = 4
      BY <1>1, <1>3, <2>3, <3>1, FirstEscapeRead, SecondEscapeRead
    <3>2. CASE Len(Append(digits, c)) # 4
      BY <1>1, <1>3, <2>3, <3>2, DigitTaken DEF Agreed, Together
    <3> QED BY <3>1, <3>2
  <2> QED BY <1>1, <2>1, <2>2, <2>3 DEF Together
<1> QED BY <1>2, <1>3 DEF StringInv

LEMMA StringNext == StringInv /\ [TextNext]_textVars => StringInv'
<1> SUFFICES ASSUME StringInv, [TextNext]_textVars PROVE StringInv'
  OBVIOUS
<1>1. CASE \E c \in Chars : ReadChar(c)
  BY <1>1, StringStep
<1>2. CASE EndText
  <2>1. Kinds' /\ ahead' \in Seq(Chars)
    BY <1>2 DEF EndText, scanner, StringInv, Kinds
  <2>2. ~malformed /\ refused = FALSE /\ coerced = FALSE /\ Together
    BY <1>2 DEF EndText, StringInv, Agreed
  <2>3. ASSUME ~malformed' PROVE Agreed'
    <3>1. mode = "out"
      BY <1>2, <2>3 DEF EndText
    <3>2. AtOut
      BY <2>2, <3>1 DEF Together, AtIn, AtHalf, AtEscape, AtDigits
    <3> QED BY <1>2, <2>2, <3>2 DEF EndText, AtOut, Agreed, Together
  <2> QED BY <2>1, <2>3 DEF StringInv
<1>3. CASE UNCHANGED textVars
  BY <1>3 DEF textVars, StringInv, Kinds, Agreed, Together, AtOut, AtIn, AtHalf, AtEscape, AtDigits
<1> QED BY <1>1, <1>2, <1>3 DEF TextNext

\* A text the decoder reads is refused exactly when the decoder would have
\* replaced a character of it, for every text of any length.
THEOREM StringsTheorem == TextSpec => []StringsExact
<1>1. TextInit => StringInv
  BY DepthInit, EmptySeq DEF TextInit, DepthInv, StringInv, Agreed, Together, AtOut
<1>2. StringInv => StringsExact
  BY DEF StringInv, Agreed, StringsExact
<1> QED BY <1>1, <1>2, StringNext, PTL DEF TextSpec
=============================================================================
