-------------------------- MODULE TimedLog_proofs ---------------------------
(***************************************************************************)
(* Proofs of what the verifier's time and span checks mean of the log a    *)
(* bundle was cut from.                                                    *)
(*                                                                         *)
(* The log's beats are numbered and counted without a hole (BeatsInv) and  *)
(* keep the schedule while the clock is left alone (ScheduleInv); an       *)
(* anchor is of the log as it still stands (LedgerInv); a bundle is a      *)
(* window whose anchors stay what they were (BundleInv); and the report    *)
(* is the checks' judgement of the bundle (ReportInv).                     *)
(***************************************************************************)
EXTENDS TimedLog, SequenceTheorems, FunctionTheorems, FiniteSetTheorems, TLAPS

Claims ==
  [kind : {"span", "event"}, at : Int, stream : {"", "chain", "other"},
   beat : Int, count : Int, cadence : Int,
   path : {<< >>} \union (Int \X Int \X Int), variant : BOOLEAN]

LogSpans == {n \in DOMAIN log : log[n].kind = "span"}

\* The producer's side: what it writes, and the figures it keeps.
WellWritten(c) ==
  IF c.kind = "span"
    THEN /\ c.path = SpanPath(c) /\ c.stream = "chain" /\ ~c.variant
         /\ c.beat >= 1 /\ c.count >= 0 /\ c.cadence \in Cadences
    ELSE c.path = << >>

LogInv ==
  /\ profile \in Profiles
  /\ log \in Seq(Claims) /\ Len(log) <= MaxEntries
  /\ \A n \in DOMAIN log : WellWritten(log[n])
  /\ ticks \in Seq(Nat) /\ Len(ticks) <= Len(log)
  /\ clock \in Int /\ due \in Int /\ backs \in 0 .. MaxBacks

\* m is the last beat of the log.
LastIs(m) == m \in LogSpans /\ \A n \in LogSpans : n <= m

BeatsInv ==
  /\ LogSpans = {} => ticks = << >>
  /\ ticks = << >> => LogSpans = {}
  /\ ticks # << >> => \E m \in DOMAIN log : LastIs(m) /\ log[m].beat = Len(ticks)
  /\ \A n \in LogSpans : log[n].beat <= Len(ticks)
  /\ \A m, n \in LogSpans : m < n => log[m].beat < log[n].beat
  /\ \A n \in LogSpans : log[n].beat = 1 => log[n].count = n - 1
  /\ \A n \in LogSpans : log[n].beat > 1 =>
       \E m \in LogSpans : m < n /\ log[m].beat = log[n].beat - 1 /\ log[n].count = n - m - 1

\* Less than half of any cadence, one way or the other.
Slight(d) == \A c \in Cadences : 2 * d < c * Second /\ -(c * Second) < 2 * d

OnSchedule(m, n) ==
  Slight(log[n].at - log[m].at
           - (ticks[log[n].beat] - ticks[log[m].beat]) * (log[m].cadence * Second))

ScheduleInv ==
  /\ \A i, j \in DOMAIN ticks : i < j => ticks[i] < ticks[j]
  /\ backs = 0 =>
       /\ \A n \in DOMAIN log : log[n].at <= clock
       /\ \A m \in DOMAIN log : LastIs(m) => 0 <= log[m].at - due /\ Slight(log[m].at - due)
       /\ \A m, n \in LogSpans : log[n].beat = log[m].beat + 1 => OnSchedule(m, n)

\* Anchor a is of the log as it stands up to a's position.
OfLog(a) ==
  /\ a = [seq |-> a.seq, link |-> a.link, entries |-> a.entries, type |-> a.type,
          lag |-> a.lag, time |-> a.time, holds |-> a.holds]
  /\ a.seq \in DOMAIN log
  /\ a.link = LinkAt(profile, log, a.seq)
  /\ \A k \in 1 .. a.seq : a.entries[k] = log[k]
  /\ a.type \in {"rfc3161", "git"} /\ a.lag \in Int /\ a.time \in Int /\ a.holds \in BOOLEAN

LedgerInv ==
  /\ IsFiniteSet(ledger) /\ Cardinality(ledger) <= MaxTokens
  /\ ledger # {} => profile \in Linear
  /\ \A a \in ledger : OfLog(a) /\ a.holds
  /\ backs = 0 => \A a \in ledger : log[a.seq].at <= a.time + a.lag

\* The file.
WindowInv ==
  /\ bundle = [profile |-> profile, entries |-> bundle.entries, from |-> bundle.from,
               to |-> bundle.to, top |-> bundle.top, anchors |-> bundle.anchors,
               created |-> bundle.created]
  /\ bundle.entries \in Seq(Claims)
  /\ bundle.from \in Nat /\ bundle.to \in Nat /\ bundle.top \in Nat
  /\ 1 <= bundle.from /\ bundle.from <= bundle.to /\ bundle.to <= bundle.top
  /\ bundle.top <= Len(bundle.entries)
  /\ IsFiniteSet(bundle.anchors) /\ \A a \in bundle.anchors : OfLog(a)
  /\ bundle.anchors # {} => ledger # {}
  /\ bundle.created \in Int

GenuineInv ==
  /\ bundle.entries = log
  /\ bundle.anchors \subseteq ledger
  /\ \A a \in bundle.anchors : a.seq \in (bundle.from .. bundle.to) \union {bundle.top}

BundleInv ==
  /\ phase \in {"idle", "transit", "done"} /\ genuine \in BOOLEAN /\ edits \in 0 .. MaxEdits
  /\ phase # "idle" => WindowInv
  /\ phase # "idle" /\ genuine => GenuineInv

Passes(b) == AnchorsOK(b) /\ (CheckSpan(b).present => CheckSpan(b).ok)

ReportInv ==
  /\ phase # "done" => report = NoReport
  /\ phase = "done" =>
       report = [ok |-> Passes(bundle), span |-> CheckSpan(bundle),
                 anchored |-> IF Passes(bundle) THEN AnchoredWord(bundle) ELSE "no",
                 spanned |-> Passes(bundle) /\ Spanned(bundle),
                 age |-> AttestationAge(bundle), window |-> UnanchoredWindow(bundle)]

TimedInv == LogInv /\ BeatsInv /\ ScheduleInv /\ LedgerInv /\ BundleInv /\ ReportInv

-----------------------------------------------------------------------------
(* The log. *)

LEMMA LogClaims ==
  ASSUME LogInv
  PROVE  /\ DOMAIN log = 1 .. Len(log) /\ Len(log) \in Nat
         /\ \A n \in DOMAIN log :
              /\ log[n] \in Claims /\ log[n].kind \in {"span", "event"}
              /\ log[n].at \in Int /\ log[n].beat \in Int /\ log[n].count \in Int
              /\ log[n].cadence \in Int
<1>1. log \in Seq(Claims)
  BY DEF LogInv
<1>2. DOMAIN log = 1 .. Len(log) /\ Len(log) \in Nat /\ \A n \in DOMAIN log : log[n] \in Claims
  BY <1>1
<1>3. \A c \in Claims : /\ c.kind \in {"span", "event"} /\ c.at \in Int /\ c.beat \in Int
                        /\ c.count \in Int /\ c.cadence \in Int
  BY DEF Claims
<1> QED BY <1>2, <1>3

\* The last beat is the one with no beat after it.
LEMMA LastBeatIs ==
  ASSUME NEW m, LastIs(m), LogInv
  PROVE  LastBeat = m
<1> DEFINE S == {n \in DOMAIN log : log[n].kind = "span"}
<1>1. m \in S /\ (\A n \in S : n <= m) /\ S \subseteq Int
  BY DEF LastIs, LogSpans, LogInv
<1>2. LastBeat = IF S = {} THEN 0 ELSE CHOOSE x \in S : \A y \in S : x >= y
  BY DEF LastBeat, Max
<1>3. \A x \in S : (\A y \in S : x >= y) => x = m
  <2> HIDE DEF S
  <2> QED BY <1>1
<1>4. \A y \in S : m >= y
  <2> HIDE DEF S
  <2> QED BY <1>1
<1> QED
  <2> HIDE DEF S
  <2>1. (CHOOSE x \in S : \A y \in S : x >= y) = m
    BY <1>1, <1>3, <1>4
  <2> QED BY <1>1, <1>2, <2>1

LEMMA LastBeatWritten ==
  ASSUME LogInv, BeatsInv
  PROVE  /\ ticks = << >> => LogSpans = {} /\ LastBeat = 0
         /\ ticks # << >> => /\ LastIs(LastBeat) /\ LastBeat \in DOMAIN log
                             /\ log[LastBeat].beat = Len(ticks)
<1>1. ASSUME ticks = << >> PROVE LogSpans = {} /\ LastBeat = 0
  <2>1. LogSpans = {}
    BY <1>1 DEF BeatsInv
  <2> QED BY <2>1 DEF LastBeat, LogSpans
<1>2. ASSUME ticks # << >>
      PROVE  LastIs(LastBeat) /\ LastBeat \in DOMAIN log /\ log[LastBeat].beat = Len(ticks)
  <2>1. PICK m \in DOMAIN log : LastIs(m) /\ log[m].beat = Len(ticks)
    BY <1>2 DEF BeatsInv
  <2> QED BY <2>1, LastBeatIs
<1> QED BY <1>1, <1>2

LEMMA EventIs ==
  ASSUME NEW t \in Int
  PROVE  /\ Event(t) \in Claims /\ WellWritten(Event(t))
         /\ Event(t).kind = "event" /\ Event(t).at = t
<1>1. Event(t) \in Claims
  BY DEF Event, Claims, NoInt
<1>2. Event(t).kind = "event" /\ Event(t).at = t /\ Event(t).path = << >>
  BY DEF Event
<1> QED BY <1>1, <1>2 DEF WellWritten

LEMMA WithPath ==
  ASSUME NEW q, NEW v,
         q = [kind |-> q.kind, at |-> q.at, stream |-> q.stream, beat |-> q.beat,
              count |-> q.count, cadence |-> q.cadence, path |-> q.path, variant |-> q.variant]
  PROVE  [q EXCEPT !.path = v]
           = [kind |-> q.kind, at |-> q.at, stream |-> q.stream, beat |-> q.beat,
              count |-> q.count, cadence |-> q.cadence, path |-> v, variant |-> q.variant]
  OBVIOUS

LEMMA BeatIs ==
  ASSUME LogInv, BeatsInv, NEW t \in Int, NEW c \in Cadences
  PROVE  /\ Beat(t, c) \in Claims /\ WellWritten(Beat(t, c))
         /\ Beat(t, c).kind = "span" /\ Beat(t, c).at = t
         /\ Beat(t, c).beat = Len(ticks) + 1 /\ Beat(t, c).cadence = c
         /\ Beat(t, c).count = Len(log) - LastBeat
<1> DEFINE b == Len(ticks) + 1
           k == Len(log) - LastBeat
           r == [kind |-> "span", at |-> t, stream |-> "chain", beat |-> b, count |-> k,
                 cadence |-> c, path |-> <<b, k, c>>, variant |-> FALSE]
<1>1. b \in Int /\ b >= 1
  BY DEF LogInv
<1>2. k \in Int /\ k >= 0
  <2>1. CASE ticks = << >>
    BY <2>1, LastBeatWritten DEF LogInv
  <2>2. CASE ticks # << >>
    <3>1. LastBeat \in 1 .. Len(log) /\ Len(log) \in Nat
      BY <2>2, LastBeatWritten DEF LogInv
    <3> QED BY <3>1
  <2> QED BY <2>1, <2>2
<1>3. c \in Int /\ c \in Cadences
  BY ScheduleAssumption, TicksAssumption
<1>4. Beat(t, c) = r
  <2> DEFINE q == [kind |-> "span", at |-> t, stream |-> "chain", beat |-> b, count |-> k,
                   cadence |-> c, path |-> << >>, variant |-> FALSE]
  <2>1. Beat(t, c) = [q EXCEPT !.path = SpanPath(q)]
    BY DEF Beat, EntriesSince
  <2> HIDE DEF b, k
  <2>2. SpanPath(q) = <<b, k, c>>
    BY DEF SpanPath
  <2>3. [q EXCEPT !.path = <<b, k, c>>] = r
    <3>1. /\ q = [kind |-> q.kind, at |-> q.at, stream |-> q.stream, beat |-> q.beat,
                  count |-> q.count, cadence |-> q.cadence, path |-> q.path, variant |-> q.variant]
          /\ q.kind = "span" /\ q.at = t /\ q.stream = "chain" /\ q.beat = b /\ q.count = k
          /\ q.cadence = c /\ q.variant = FALSE
      OBVIOUS
    <3> HIDE DEF q
    <3>2. [q EXCEPT !.path = <<b, k, c>>]
            = [kind |-> q.kind, at |-> q.at, stream |-> q.stream, beat |-> q.beat,
               count |-> q.count, cadence |-> q.cadence, path |-> <<b, k, c>>, variant |-> q.variant]
      BY <3>1, WithPath
    <3> QED BY <3>1, <3>2
  <2>4. [q EXCEPT !.path = SpanPath(q)] = [q EXCEPT !.path = <<b, k, c>>]
    BY <2>2
  <2> QED BY <2>1, <2>3, <2>4
<1> HIDE DEF b, k
<1>5. r.path = SpanPath(r)
  BY DEF SpanPath
<1>6. r \in Claims
  BY <1>1, <1>2, <1>3 DEF Claims
<1>7. r.kind = "span" /\ r.at = t /\ r.beat = b /\ r.cadence = c /\ r.count = k /\ r.stream = "chain" /\ ~r.variant
  OBVIOUS
<1> HIDE DEF r
<1>8. WellWritten(r)
  BY <1>1, <1>2, <1>3, <1>5, <1>7 DEF WellWritten
<1> QED BY <1>4, <1>6, <1>7, <1>8 DEF b, k

\* The log with an entry more.
LEMMA LogGrows ==
  ASSUME LogInv, NEW e \in Claims, WellWritten(e), log' = Append(log, e)
  PROVE  /\ DOMAIN log = 1 .. Len(log) /\ Len(log) \in Nat
         /\ Len(log') = Len(log) + 1 /\ DOMAIN log' = 1 .. Len(log) + 1
         /\ log' \in Seq(Claims)
         /\ log'[Len(log) + 1] = e
         /\ \A n \in DOMAIN log : log'[n] = log[n]
         /\ \A n \in DOMAIN log' : WellWritten(log'[n])
         /\ LogSpans' = IF e.kind = "span" THEN LogSpans \union {Len(log) + 1} ELSE LogSpans
<1>1. log \in Seq(Claims)
  BY DEF LogInv
<1>2. /\ DOMAIN log = 1 .. Len(log) /\ Len(log) \in Nat
      /\ Len(log') = Len(log) + 1 /\ DOMAIN log' = 1 .. Len(log) + 1
      /\ log' \in Seq(Claims)
      /\ log'[Len(log) + 1] = e
      /\ \A n \in DOMAIN log : log'[n] = log[n]
  BY <1>1
<1>3. \A n \in DOMAIN log' : WellWritten(log'[n])
  BY <1>2 DEF LogInv
<1>4. LogSpans' = {n \in DOMAIN log' : log'[n].kind = "span"}
  BY DEF LogSpans
<1>5. LogSpans' = IF e.kind = "span" THEN LogSpans \union {Len(log) + 1} ELSE LogSpans
  BY <1>2, <1>4 DEF LogSpans
<1> QED BY <1>2, <1>3, <1>5

LEMMA SlightZero == Slight(0)
  BY ScheduleAssumption, TicksAssumption DEF Slight

-----------------------------------------------------------------------------
(* The steps of the producer keep its invariants. *)

LEMMA RecordKeeps ==
  ASSUME LogInv, BeatsInv, ScheduleInv, Record
  PROVE  LogInv' /\ BeatsInv' /\ ScheduleInv'
<1>1. PICK p \in Pauses : clock' = clock + p
  BY DEF Record
<1>2. p \in Nat /\ clock \in Int /\ clock' \in Int
  BY <1>1, ScheduleAssumption DEF LogInv
<1> DEFINE e == Event(clock')
<1>3. e \in Claims /\ WellWritten(e) /\ e.kind = "event" /\ e.at = clock'
  BY <1>2, EventIs
<1>4. log' = Append(log, e) /\ Len(log) < MaxEntries
  BY DEF Record
<1>5. UNCHANGED <<profile, due, ticks, backs>>
  BY DEF Record
<1> HIDE DEF e
<1>6. /\ DOMAIN log = 1 .. Len(log) /\ Len(log) \in Nat
      /\ Len(log') = Len(log) + 1 /\ DOMAIN log' = 1 .. Len(log) + 1
      /\ log' \in Seq(Claims)
      /\ log'[Len(log) + 1] = e
      /\ \A n \in DOMAIN log : log'[n] = log[n]
      /\ \A n \in DOMAIN log' : WellWritten(log'[n])
      /\ LogSpans' = LogSpans
  BY <1>3, <1>4, LogGrows
<1>7. LogSpans \subseteq DOMAIN log
  BY DEF LogSpans
<1>8. LogInv'
  <2>1. Len(log') <= MaxEntries /\ Len(ticks') <= Len(log')
    BY <1>4, <1>5, <1>6, BoundsAssumption DEF LogInv
  <2> QED BY <2>1, <1>2, <1>5, <1>6 DEF LogInv
<1>9. \A m : LastIs(m)' <=> LastIs(m)
  BY <1>6 DEF LastIs
<1>10. \A n \in LogSpans : log'[n] = log[n]
  BY <1>6, <1>7
<1>11. BeatsInv'
  <2>1. ticks # << >> => \E m \in DOMAIN log' : LastIs(m)' /\ log'[m].beat = Len(ticks)
    BY <1>6, <1>9 DEF BeatsInv
  <2>2. (LogSpans' = {} => ticks' = << >>) /\ (ticks' = << >> => LogSpans' = {})
    BY <1>5, <1>6 DEF BeatsInv
  <2>3. /\ \A n \in LogSpans : log'[n].beat <= Len(ticks)
        /\ \A m, n \in LogSpans : m < n => log'[m].beat < log'[n].beat
        /\ \A n \in LogSpans : log'[n].beat = 1 => log'[n].count = n - 1
    BY <1>10 DEF BeatsInv
  <2>4. \A n \in LogSpans : log'[n].beat > 1 =>
          \E m \in LogSpans : m < n /\ log'[m].beat = log'[n].beat - 1 /\ log'[n].count = n - m - 1
    BY <1>10 DEF BeatsInv
  <2> HIDE DEF LogSpans
  <2> QED BY <2>1, <2>2, <2>3, <2>4, <1>5, <1>6 DEF BeatsInv
<1>12. ScheduleInv'
  <2>1. ASSUME backs = 0, NEW n \in DOMAIN log' PROVE log'[n].at <= clock'
    <3>1. CASE n = Len(log) + 1
      BY <3>1, <1>2, <1>3, <1>6
    <3>2. CASE n \in DOMAIN log
      <4>1. log[n].at <= clock /\ log[n] \in Claims
        BY <2>1, <3>2 DEF ScheduleInv, LogInv
      <4>2. log[n].at \in Int
        BY <4>1 DEF Claims
      <4> QED BY <3>2, <4>1, <4>2, <1>1, <1>2, <1>6
    <3> QED BY <1>6, <3>1, <3>2
  <2>2. ASSUME backs = 0, NEW m \in DOMAIN log', LastIs(m)'
        PROVE  0 <= log'[m].at - due /\ Slight(log'[m].at - due)
    <3>1. LastIs(m) /\ m \in DOMAIN log /\ log'[m] = log[m]
      BY <2>2, <1>6, <1>9 DEF LastIs, LogSpans
    <3> QED BY <3>1, <2>2 DEF ScheduleInv
  <2>3. ASSUME NEW m \in LogSpans, NEW n \in LogSpans
        PROVE  OnSchedule(m, n)' <=> OnSchedule(m, n)
    BY <1>5, <1>10 DEF OnSchedule, Slight
  <2>4. backs' = 0 => \A m \in DOMAIN log' : LastIs(m)' => 0 <= log'[m].at - due' /\ Slight(log'[m].at - due')
    BY <2>2, <1>5 DEF Slight
  <2>5. backs' = 0 => \A m, n \in LogSpans' : log'[n].beat = log'[m].beat + 1 => OnSchedule(m, n)'
    BY <2>3, <1>5, <1>6, <1>10 DEF ScheduleInv
  <2>6. \A i, j \in DOMAIN ticks' : i < j => ticks'[i] < ticks'[j]
    BY <1>5 DEF ScheduleInv
  <2>7. backs' = 0 => \A n \in DOMAIN log' : log'[n].at <= clock'
    BY <2>1, <1>5
  <2> QED
    <3> SUFFICES ASSUME NEW b, b <=> (backs' = 0) PROVE ScheduleInv'
      OBVIOUS
    <3> QED BY <2>4, <2>5, <2>6, <2>7 DEF ScheduleInv, Slight
<1> QED BY <1>8, <1>11, <1>12

\* A beat at the end of the log.
LEMMA BeatGrows ==
  ASSUME LogInv, BeatsInv, Len(log) < MaxEntries,
         NEW t \in Int, NEW c \in Cadences, NEW k \in Nat,
         log' = Append(log, Beat(t, c)), ticks' = Append(ticks, k),
         UNCHANGED <<profile, backs>>, clock' \in Int, due' \in Int
  PROVE  /\ LogInv' /\ BeatsInv'
         /\ DOMAIN log = 1 .. Len(log) /\ Len(log) \in Nat
         /\ DOMAIN log' = 1 .. Len(log) + 1
         /\ LogSpans' = LogSpans \union {Len(log) + 1} /\ LogSpans \subseteq DOMAIN log
         /\ \A n \in DOMAIN log : log'[n] = log[n]
         /\ log'[Len(log) + 1].at = t /\ log'[Len(log) + 1].beat = Len(ticks) + 1
         /\ \A m : LastIs(m)' => m = Len(log) + 1
         /\ Len(ticks) \in Nat /\ DOMAIN ticks = 1 .. Len(ticks)
         /\ DOMAIN ticks' = 1 .. Len(ticks) + 1
         /\ ticks'[Len(ticks) + 1] = k /\ \A i \in DOMAIN ticks : ticks'[i] = ticks[i]
<1> DEFINE e == Beat(t, c)
           l == Len(log)
           b == Len(ticks)
<1>1. /\ e \in Claims /\ WellWritten(e) /\ e.kind = "span" /\ e.at = t
      /\ e.beat = b + 1 /\ e.cadence = c /\ e.count = l - LastBeat
  BY BeatIs
<1>2. log' = Append(log, e)
  OBVIOUS
<1> HIDE DEF e
<1>3. /\ DOMAIN log = 1 .. l /\ l \in Nat
      /\ Len(log') = l + 1 /\ DOMAIN log' = 1 .. l + 1
      /\ log' \in Seq(Claims)
      /\ log'[l + 1] = e
      /\ \A n \in DOMAIN log : log'[n] = log[n]
      /\ \A n \in DOMAIN log' : WellWritten(log'[n])
      /\ LogSpans' = LogSpans \union {l + 1}
  BY <1>1, <1>2, LogGrows
<1>4. /\ b \in Nat /\ DOMAIN ticks = 1 .. b /\ Len(ticks') = b + 1
      /\ DOMAIN ticks' = 1 .. b + 1 /\ ticks' \in Seq(Nat)
      /\ ticks'[b + 1] = k /\ \A i \in DOMAIN ticks : ticks'[i] = ticks[i]
  BY DEF LogInv
<1>5. LogSpans \subseteq DOMAIN log /\ b <= l /\ l < MaxEntries
  BY DEF LogSpans, LogInv
<1> HIDE DEF l, b
<1>6. LogInv'
  <2>1. Len(log') <= MaxEntries /\ Len(ticks') <= Len(log')
    BY <1>3, <1>4, <1>5, BoundsAssumption
  <2> QED BY <2>1, <1>3, <1>4 DEF LogInv
<1>7. \A n \in LogSpans : n \in 1 .. l /\ n \in DOMAIN log /\ log'[n] = log[n] /\ log[n].beat \in Int
  BY <1>3, <1>5, LogClaims
<1>8. \A m \in LogSpans, n \in LogSpans' : n = l + 1 => m < n
  BY <1>3, <1>7
<1>9. \A m : LastIs(m)' <=> m = l + 1
  <2> HIDE DEF LogSpans
  <2>1. l + 1 \in LogSpans' /\ \A n \in LogSpans' : n \in Int /\ n <= l + 1
    BY <1>3, <1>7
  <2>2. \A m : LastIs(m)' <=> m \in LogSpans' /\ \A n \in LogSpans' : n <= m
    BY DEF LastIs
  <2>3. \A m : (m \in LogSpans' /\ \A n \in LogSpans' : n <= m) => l + 1 <= m /\ m <= l + 1 /\ m \in Int
    BY <2>1
  <2> QED BY <2>1, <2>2, <2>3, <1>3
<1>10. \A n \in LogSpans : log[n].beat <= b
  BY DEF BeatsInv, b
<1>11. BeatsInv'
  <2>1. ticks' # << >> /\ LogSpans' # {}
    <3>1. Len(<< >>) = 0 /\ Len(ticks') # 0
      BY <1>4
    <3> QED BY <3>1, <1>3
  <2>2. \E m \in DOMAIN log' : LastIs(m)' /\ log'[m].beat = Len(ticks')
    BY <1>1, <1>3, <1>4, <1>9
  <2>3. \A n \in LogSpans' : log'[n].beat <= Len(ticks')
    BY <1>1, <1>3, <1>4, <1>7, <1>10
  <2>4. ASSUME NEW m \in LogSpans', NEW n \in LogSpans', m < n
        PROVE  log'[m].beat < log'[n].beat
    <3>1. m \in LogSpans
      BY <2>4, <1>3, <1>7
    <3>2. CASE n \in LogSpans
      BY <3>1, <3>2, <2>4, <1>7 DEF BeatsInv
    <3>3. CASE n = l + 1
      <4>1. log'[n].beat = b + 1
        BY <3>3, <1>1, <1>3
      <4>2. log'[m].beat = log[m].beat /\ log[m].beat \in Int /\ log[m].beat <= b
        BY <3>1, <1>7, <1>10
      <4> QED BY <4>1, <4>2, <1>4
    <3> QED BY <3>2, <3>3, <1>3
  <2>5. ASSUME NEW n \in LogSpans', log'[n].beat = 1 PROVE log'[n].count = n - 1
    <3>1. CASE n \in LogSpans
      BY <3>1, <2>5, <1>7 DEF BeatsInv
    <3>2. CASE n = l + 1
      <4>1. b = 0
        BY <3>2, <2>5, <1>1, <1>3, <1>4
      <4>2. ticks = << >>
        BY <4>1 DEF LogInv, b
      <4>3. LastBeat = 0
        BY <4>2, LastBeatWritten
      <4> QED BY <4>3, <3>2, <1>1, <1>3
    <3> QED BY <3>1, <3>2, <1>3
  <2>6. ASSUME NEW n \in LogSpans', log'[n].beat > 1
        PROVE  \E m \in LogSpans' : m < n /\ log'[m].beat = log'[n].beat - 1
                                    /\ log'[n].count = n - m - 1
    <3>1. CASE n \in LogSpans
      <4>1. PICK m \in LogSpans : m < n /\ log[m].beat = log[n].beat - 1 /\ log[n].count = n - m - 1
        BY <3>1, <2>6, <1>7 DEF BeatsInv
      <4> QED BY <4>1, <3>1, <1>3, <1>7
    <3>2. CASE n = l + 1
      <4>1. ticks # << >>
        BY <3>2, <2>6, <1>1, <1>3, <1>4 DEF b
      <4>2. LastBeat \in LogSpans /\ log[LastBeat].beat = b
        BY <4>1, LastBeatWritten DEF LastIs, b
      <4>3. LastBeat < n /\ log'[LastBeat].beat = log'[n].beat - 1 /\ log'[n].count = n - LastBeat - 1
        BY <4>2, <3>2, <1>1, <1>3, <1>4, <1>7
      <4> QED BY <4>2, <4>3, <1>3
    <3> QED BY <3>1, <3>2, <1>3
  <2> HIDE DEF LogSpans
  <2> QED BY <2>1, <2>2, <2>3, <2>4, <2>5, <2>6 DEF BeatsInv
<1> QED BY <1>1, <1>3, <1>4, <1>5, <1>6, <1>9, <1>11 DEF l, b

LEMMA FirstBeatKeeps ==
  ASSUME LogInv, BeatsInv, ScheduleInv, FirstBeat
  PROVE  LogInv' /\ BeatsInv' /\ ScheduleInv'
<1>1. PICK p \in Pauses : \E c \in Cadences : clock' = clock + p /\ log' = Append(log, Beat(clock', c))
  BY DEF FirstBeat
<1>2. PICK c \in Cadences : clock' = clock + p /\ log' = Append(log, Beat(clock', c))
  BY <1>1
<1>3. /\ ticks = << >> /\ ticks' = <<1>> /\ due' = clock' /\ Len(log) < MaxEntries
      /\ UNCHANGED <<profile, backs>>
  BY DEF FirstBeat
<1>4. p \in Nat /\ clock \in Int /\ clock' \in Int
  BY <1>2, ScheduleAssumption DEF LogInv
<1>5. ticks' = Append(ticks, 1)
  BY <1>3
<1>6. /\ LogInv' /\ BeatsInv'
      /\ DOMAIN log = 1 .. Len(log) /\ Len(log) \in Nat
      /\ DOMAIN log' = 1 .. Len(log) + 1
      /\ LogSpans' = LogSpans \union {Len(log) + 1}
      /\ \A n \in DOMAIN log : log'[n] = log[n]
      /\ log'[Len(log) + 1].at = clock' /\ log'[Len(log) + 1].beat = Len(ticks) + 1
      /\ \A m : LastIs(m)' => m = Len(log) + 1
  BY <1>2, <1>3, <1>4, <1>5, BeatGrows
<1>7. LogSpans = {}
  BY <1>3, LastBeatWritten
<1>8. ScheduleInv'
  <2>1. \A i, j \in DOMAIN ticks' : i < j => ticks'[i] < ticks'[j]
    BY <1>3
  <2>2. backs' = 0 => \A n \in DOMAIN log' : log'[n].at <= clock'
    <3> SUFFICES ASSUME backs = 0, NEW n \in DOMAIN log' PROVE log'[n].at <= clock'
      BY <1>3
    <3>1. CASE n = Len(log) + 1
      BY <3>1, <1>4, <1>6
    <3>2. CASE n \in DOMAIN log
      <4>1. log[n].at <= clock /\ log[n].at \in Int
        BY <3>2, LogClaims DEF ScheduleInv
      <4> QED BY <3>2, <4>1, <1>2, <1>4, <1>6
    <3> QED BY <1>6, <3>1, <3>2
  <2>3. \A m \in DOMAIN log' : LastIs(m)' => 0 <= log'[m].at - due' /\ Slight(log'[m].at - due')
    <3>1. clock' - due' = 0
      <4>1. due' = clock'
        BY DEF FirstBeat
      <4>2. \A x, y \in Int : x = y => y - x = 0
        OBVIOUS
      <4> QED BY <4>1, <4>2, <1>4
    <3>2. Slight(clock' - due')
      BY <3>1, SlightZero
    <3> QED BY <3>1, <3>2, <1>6
  <2>4. \A m, n \in LogSpans' : log'[n].beat # log'[m].beat + 1
    BY <1>3, <1>6, <1>7
  <2> QED BY <2>1, <2>2, <2>3, <2>4 DEF ScheduleInv
<1> QED BY <1>6, <1>8

\* A beat the timer fired keeps the numbers and the schedule.
LEMMA NextBeatKeeps ==
  ASSUME LogInv, BeatsInv, ScheduleInv, NextBeat
  PROVE  LogInv' /\ BeatsInv' /\ ScheduleInv'
<1> DEFINE m0 == LastBeat
           l == Len(log)
           b == Len(ticks)
<1>1. PICK k \in 1 .. MaxSkip + 1 : \E late \in Lates, c \in Cadences :
        /\ due' = due + k * log[m0].cadence * Second
        /\ clock' = due' + late /\ clock' >= clock
        /\ log' = Append(log, Beat(clock', c))
        /\ ticks' = Append(ticks, ticks[Len(ticks)] + k)
  BY DEF NextBeat
<1>2. PICK late \in Lates, c \in Cadences :
        /\ due' = due + k * log[m0].cadence * Second
        /\ clock' = due' + late /\ clock' >= clock
        /\ log' = Append(log, Beat(clock', c))
        /\ ticks' = Append(ticks, ticks[Len(ticks)] + k)
  BY <1>1
<1>3. /\ ticks # << >> /\ Len(log) < MaxEntries /\ UNCHANGED <<profile, backs>>
  BY DEF NextBeat
<1>4. LastIs(m0) /\ m0 \in DOMAIN log /\ log[m0].beat = b
  BY <1>3, LastBeatWritten
<1>5. m0 \in LogSpans
  BY <1>4 DEF LastIs
<1>6. k \in Nat /\ k >= 1 /\ late \in Nat
  BY BoundsAssumption, ScheduleAssumption
<1>7. log[m0].cadence \in Int /\ log[m0].at \in Int /\ Second \in Nat /\ clock \in Int /\ due \in Int
  BY <1>4, LogClaims, TicksAssumption DEF LogInv
<1> DEFINE g == log[m0].cadence * Second
<1>8. g \in Int
  BY <1>7
<1>9. k * log[m0].cadence * Second = k * g
  BY <1>6, <1>7
<1> HIDE DEF g
<1> DEFINE kg == k * g
<1>10. due' = due + kg /\ clock' = due' + late /\ kg \in Int /\ due' \in Int /\ clock' \in Int
  <2>1. kg \in Int
    BY <1>6, <1>8
  <2>2. due' = due + kg
    BY <1>2, <1>9
  <2>3. clock' = due' + late
    BY <1>2
  <2> HIDE DEF kg
  <2> QED BY <2>1, <2>2, <2>3, <1>6, <1>7
<1> HIDE DEF kg
<1>11. b \in Nat /\ DOMAIN ticks = 1 .. b /\ b \in DOMAIN ticks /\ ticks[b] \in Nat
  <2>1. ticks \in Seq(Nat)
    BY DEF LogInv
  <2> QED BY <2>1, <1>3
<1>12. ticks[b] + k \in Nat
  BY <1>6, <1>11
<1>13. /\ LogInv' /\ BeatsInv'
       /\ DOMAIN log = 1 .. l /\ l \in Nat
       /\ DOMAIN log' = 1 .. l + 1
       /\ LogSpans' = LogSpans \union {l + 1} /\ LogSpans \subseteq DOMAIN log
       /\ \A n \in DOMAIN log : log'[n] = log[n]
       /\ log'[l + 1].at = clock' /\ log'[l + 1].beat = b + 1
       /\ \A m : LastIs(m)' => m = l + 1
       /\ DOMAIN ticks' = 1 .. b + 1
       /\ ticks'[b + 1] = ticks[b] + k /\ \A i \in DOMAIN ticks : ticks'[i] = ticks[i]
  BY <1>2, <1>3, <1>10, <1>12, BeatGrows
<1> HIDE DEF m0, l, b
<1>14. \A i, j \in DOMAIN ticks' : i < j => ticks'[i] < ticks'[j]
  <2>1. \A i \in DOMAIN ticks : ticks[i] \in Nat /\ i \in 1 .. b
    BY <1>11 DEF LogInv
  <2>2. \A i, j \in DOMAIN ticks : i < j => ticks[i] < ticks[j]
    BY DEF ScheduleInv
  <2> SUFFICES ASSUME NEW i \in DOMAIN ticks', NEW j \in DOMAIN ticks', i < j
               PROVE  ticks'[i] < ticks'[j]
    OBVIOUS
  <2>3. i \in 1 .. b /\ i \in DOMAIN ticks
    BY <1>11, <1>13
  <2>4. CASE j \in DOMAIN ticks
    BY <2>2, <2>3, <2>4, <1>13
  <2>5. CASE j = b + 1
    <3>1. ticks[i] <= ticks[b] /\ ticks[i] \in Nat
      <4>1. CASE i = b
        BY <4>1, <1>11
      <4>2. CASE i < b
        BY <4>2, <2>1, <2>2, <2>3, <1>11
      <4> QED BY <4>1, <4>2, <2>3, <1>11
    <3>2. ticks'[i] = ticks[i] /\ ticks'[j] = ticks[b] + k
      BY <2>3, <2>5, <1>13
    <3> QED BY <3>1, <3>2, <1>6, <1>11
  <2> QED BY <2>4, <2>5, <1>11, <1>13
<1>15. ASSUME backs = 0, NEW n \in DOMAIN log' PROVE log'[n].at <= clock'
  <2>1. CASE n = l + 1
    BY <2>1, <1>10, <1>13
  <2>2. CASE n \in DOMAIN log
    <3>1. log[n].at <= clock /\ log[n].at \in Int
      BY <1>15, <2>2, LogClaims DEF ScheduleInv
    <3>2. log'[n].at = log[n].at /\ clock <= clock'
      BY <2>2, <1>2, <1>7, <1>10, <1>13
    <3> QED BY <3>1, <3>2, <1>7, <1>10
  <2> QED BY <1>13, <2>1, <2>2
<1>16. Slight(late) /\ clock' - due' = late
  <2>1. \A c2 \in Cadences : 2 * late < c2 * Second /\ c2 * Second \in Nat
    BY ScheduleAssumption, TicksAssumption
  <2> QED BY <2>1, <1>2, <1>6, <1>10 DEF Slight
<1>17. \A m \in DOMAIN log' : LastIs(m)' => 0 <= log'[m].at - due' /\ Slight(log'[m].at - due')
  BY <1>6, <1>13, <1>16
<1>18. ASSUME backs = 0, NEW m \in LogSpans', NEW n \in LogSpans', log'[n].beat = log'[m].beat + 1
       PROVE  Slight(log'[n].at - log'[m].at
                       - (ticks'[log'[n].beat] - ticks'[log'[m].beat]) * (log'[m].cadence * Second))
  <2>1. \A x \in LogSpans : /\ log'[x] = log[x] /\ log[x].beat \in 1 .. b /\ log[x].at \in Int
                            /\ x \in DOMAIN log
    <3>1. \A x \in LogSpans : x \in DOMAIN log /\ log'[x] = log[x]
      BY <1>13
    <3>2. \A x \in LogSpans : log[x].beat \in Int /\ log[x].beat >= 1 /\ log[x].at \in Int
      BY <3>1, LogClaims DEF LogInv, WellWritten, LogSpans
    <3>3. \A x \in LogSpans : log[x].beat <= b
      BY DEF BeatsInv, b
    <3> QED BY <3>1, <3>2, <3>3, <1>11
  <2>2. CASE n \in LogSpans
    <3>1. m \in LogSpans
      BY <2>1, <2>2, <1>11, <1>13, <1>18
    <3>2. log[n].beat = log[m].beat + 1 /\ log[n].beat \in DOMAIN ticks /\ log[m].beat \in DOMAIN ticks
      BY <2>1, <2>2, <3>1, <1>11, <1>18
    <3>3. OnSchedule(m, n)
      BY <2>2, <3>1, <3>2, <1>18 DEF ScheduleInv
    <3>4. ticks'[log[n].beat] = ticks[log[n].beat] /\ ticks'[log[m].beat] = ticks[log[m].beat]
      BY <3>2, <1>13
    <3> QED BY <2>1, <2>2, <3>1, <3>3, <3>4 DEF OnSchedule
  <2>3. CASE n = l + 1
    <3>1. m \in LogSpans /\ log[m].beat = b
      BY <2>1, <2>3, <1>11, <1>13, <1>18
    <3>2. m = m0
      <4>1. m \in Int /\ m0 \in Int /\ m <= m0
        BY <3>1, <2>1, <1>4, <1>13 DEF LastIs
      <4>2. m < m0 => log[m].beat < log[m0].beat
        BY <3>1, <1>5 DEF BeatsInv
      <4> QED BY <4>1, <4>2, <3>1, <1>4, <1>11
    <3>3. 0 <= log[m0].at - due /\ Slight(log[m0].at - due)
      BY <1>4, <1>18 DEF ScheduleInv
    <3>4. /\ ticks'[log'[n].beat] - ticks'[log'[m].beat] = k
          /\ log'[n].at = clock' /\ log'[m].at = log[m0].at /\ log'[m].cadence * Second = g
      <4>1. log'[n].beat = b + 1 /\ log'[m] = log[m0] /\ log'[m].beat = b
        BY <2>1, <2>3, <3>1, <3>2, <1>13
      <4> QED BY <4>1, <2>3, <1>6, <1>11, <1>13 DEF g
    <3> DEFINE w == log[m0].at - due
    <3>5. log'[n].at - log'[m].at - kg = late - w /\ w \in Int
      <4>1. log'[n].at = clock' /\ log'[m].at = log[m0].at
        BY <3>4
      <4> QED BY <4>1, <1>6, <1>7, <1>10
    <3>6. 0 <= w /\ Slight(w)
      BY <3>3
    <3> HIDE DEF w
    <3>7. Slight(late - w)
      <4>1. ASSUME NEW c2 \in Cadences
            PROVE  2 * (late - w) < c2 * Second /\ -(c2 * Second) < 2 * (late - w)
        <5>1. c2 * Second \in Int
          BY ScheduleAssumption, TicksAssumption
        <5>2. 2 * late < c2 * Second /\ 2 * w < c2 * Second
          BY <1>16, <3>6 DEF Slight
        <5> QED BY <5>1, <5>2, <1>6, <3>5, <3>6
      <4> QED BY <4>1 DEF Slight
    <3> QED
      <4>1. kg = k * g
        BY DEF kg
      <4> QED BY <3>4, <3>5, <3>7, <4>1
  <2> QED BY <2>2, <2>3, <1>13
<1>19. ScheduleInv'
  <2>1. backs' = 0 => \A m, n \in LogSpans' : log'[n].beat = log'[m].beat + 1 => OnSchedule(m, n)'
    BY <1>3, <1>18 DEF OnSchedule
  <2>2. backs' = 0 => \A n \in DOMAIN log' : log'[n].at <= clock'
    BY <1>3, <1>15
  <2> QED BY <1>14, <1>17, <2>1, <2>2 DEF ScheduleInv
<1> QED BY <1>13, <1>19

LEMMA SetBackKeeps ==
  ASSUME LogInv, BeatsInv, ScheduleInv, SetBack
  PROVE  LogInv' /\ BeatsInv' /\ ScheduleInv'
<1>1. PICK c \in Cadences : clock' = clock - 2 * c * Second /\ due' = due - 2 * c * Second
  BY DEF SetBack
<1>2. /\ UNCHANGED <<profile, log, ticks>> /\ backs' = backs + 1 /\ backs < MaxBacks
  BY DEF SetBack
<1>3. clock' \in Int /\ due' \in Int
  <2>1. c \in Int /\ Second \in Int /\ clock \in Int /\ due \in Int
    BY ScheduleAssumption, TicksAssumption DEF LogInv
  <2> DEFINE s == 2 * c * Second
  <2>2. s \in Int
    BY <2>1
  <2>3. clock' = clock - s /\ due' = due - s
    BY <1>1
  <2> HIDE DEF s
  <2> QED BY <2>1, <2>2, <2>3
<1>4. backs' \in 0 .. MaxBacks /\ backs' # 0
  BY <1>2, BoundsAssumption DEF LogInv
<1>5. LogInv'
  BY <1>2, <1>3, <1>4 DEF LogInv
<1>6. LogSpans' = LogSpans /\ \A m : LastIs(m)' <=> LastIs(m)
  BY <1>2 DEF LogSpans, LastIs
<1>7. BeatsInv'
  BY <1>2, <1>6 DEF BeatsInv
<1>8. ScheduleInv'
  BY <1>2, <1>4 DEF ScheduleInv
<1> QED BY <1>5, <1>7, <1>8

LEMMA ProducerRests ==
  ASSUME LogInv, BeatsInv, ScheduleInv, UNCHANGED <<profile, log, clock, due, ticks, backs>>
  PROVE  LogInv' /\ BeatsInv' /\ ScheduleInv'
<1>1. LogSpans' = LogSpans /\ \A m : LastIs(m)' <=> LastIs(m)
  BY DEF LogSpans, LastIs
<1>2. \A m, n : OnSchedule(m, n)' <=> OnSchedule(m, n)
  BY DEF OnSchedule
<1>3. LogInv'
  BY DEF LogInv
<1>4. BeatsInv'
  BY <1>1 DEF BeatsInv
<1>5. ScheduleInv'
  BY <1>1, <1>2 DEF ScheduleInv
<1> QED BY <1>3, <1>4, <1>5

-----------------------------------------------------------------------------
(* The anchors. *)

\* An anchor stays of the log when the log grows, and when it rests.
LEMMA OfLogKept ==
  ASSUME LogInv, NEW a, OfLog(a), UNCHANGED profile,
         \A n \in DOMAIN log : n \in DOMAIN log' /\ log'[n] = log[n]
  PROVE  OfLog(a)'
<1>1. a.seq \in DOMAIN log /\ a.link = LinkAt(profile, log, a.seq)
  BY DEF OfLog
<1>2. \A k \in 1 .. a.seq : k \in DOMAIN log
  BY <1>1, LogClaims
<1>3. LinkAt(profile, log, a.seq) = LinkAt(profile, log', a.seq)
  BY <1>2 DEF LinkAt
<1>4. \A k \in 1 .. a.seq : a.entries[k] = log'[k]
  BY <1>2 DEF OfLog
<1>5. a.seq \in DOMAIN log' /\ a.link = LinkAt(profile', log', a.seq)
  BY <1>1, <1>3
<1> QED BY <1>4, <1>5 DEF OfLog

\* The anchor a third party takes of the newest link.
LEMMA AnchorKeeps ==
  ASSUME LogInv, LedgerInv, Anchor, ScheduleInv
  PROVE  LedgerInv'
<1>1. PICK x \in [type : {"rfc3161"}, lag : Lags] \union [type : {"git"}, lag : {0}] :
        ledger' = ledger \union
         {[seq |-> Len(log), link |-> LinkAt(profile, log, Len(log)), entries |-> log,
           type |-> x.type, lag |-> x.lag, time |-> clock - x.lag, holds |-> TRUE]}
  BY DEF Anchor
<1>2. /\ log # << >> /\ Cardinality(ledger) < MaxTokens /\ profile \in Linear
      /\ UNCHANGED <<profile, log, clock, due, ticks, backs>>
  BY DEF Anchor
<1>3. x.type \in {"rfc3161", "git"} /\ x.lag \in Int
  <2>1. CASE x \in [type : {"rfc3161"}, lag : Lags]
    BY <2>1, ScheduleAssumption
  <2>2. CASE x \in [type : {"git"}, lag : {0}]
    BY <2>2
  <2> QED BY <2>1, <2>2
<1> DEFINE t == clock - x.lag
           a == [seq |-> Len(log), link |-> LinkAt(profile, log, Len(log)), entries |-> log,
                 type |-> x.type, lag |-> x.lag, time |-> t, holds |-> TRUE]
<1>4. t \in Int
  BY <1>3 DEF LogInv
<1>5. DOMAIN log = 1 .. Len(log) /\ Len(log) \in DOMAIN log
  <2>1. log \in Seq(Claims)
    BY DEF LogInv
  <2> QED BY <2>1, <1>2
<1> HIDE DEF t
<1>6. /\ a.seq = Len(log) /\ a.link = LinkAt(profile, log, Len(log)) /\ a.entries = log
      /\ a.type = x.type /\ a.lag = x.lag /\ a.time = t /\ a.holds = TRUE
      /\ a = [seq |-> a.seq, link |-> a.link, entries |-> a.entries, type |-> a.type,
              lag |-> a.lag, time |-> a.time, holds |-> a.holds]
  OBVIOUS
<1>7. ledger' = ledger \union {a}
  BY <1>1 DEF t
<1> HIDE DEF a
<1>8. OfLog(a)
  <2>1. \A k \in 1 .. a.seq : a.entries[k] = log[k]
    BY <1>6
  <2> QED BY <1>3, <1>4, <1>5, <1>6, <2>1 DEF OfLog
<1>9. \A y \in ledger' : OfLog(y)' /\ y.holds
  <2>1. \A y \in ledger' : OfLog(y) /\ y.holds
    BY <1>6, <1>7, <1>8 DEF LedgerInv
  <2>2. \A n \in DOMAIN log : n \in DOMAIN log' /\ log'[n] = log[n]
    BY <1>2
  <2> QED BY <1>2, <2>1, <2>2, OfLogKept
<1>10. IsFiniteSet(ledger') /\ Cardinality(ledger') <= MaxTokens
  <2>1. /\ IsFiniteSet(ledger) /\ Cardinality(ledger) \in Nat /\ Cardinality(ledger) < MaxTokens
        /\ MaxTokens \in Nat
    BY <1>2, FS_CardinalityType, BoundsAssumption DEF LedgerInv
  <2>2. /\ IsFiniteSet(ledger \union {a})
        /\ Cardinality(ledger \union {a}) = IF a \in ledger THEN Cardinality(ledger) ELSE Cardinality(ledger) + 1
    BY <2>1, FS_AddElement
  <2> QED BY <1>7, <2>1, <2>2
<1>11. ASSUME backs = 0, NEW y \in ledger' PROVE log[y.seq].at <= y.time + y.lag
  <2>1. CASE y \in ledger
    BY <1>11, <2>1 DEF LedgerInv
  <2>2. CASE y = a
    <3>1. t + x.lag = clock
      BY <1>3 DEF t, LogInv
    <3>2. log[Len(log)].at <= clock
      BY <1>5, <1>11 DEF ScheduleInv
    <3> QED BY <2>2, <3>1, <3>2, <1>6
  <2> QED BY <1>7, <2>1, <2>2
<1>12. backs' = 0 => \A y \in ledger' : log'[y.seq].at <= y.time + y.lag
  BY <1>2, <1>11
<1> QED BY <1>2, <1>9, <1>10, <1>12 DEF LedgerInv

\* The ledger rests while the log grows; the clock may be set back.
LEMMA LedgerKept ==
  ASSUME LogInv, LedgerInv, UNCHANGED <<profile, ledger>>, backs' = 0 => backs = 0,
         \A n \in DOMAIN log : n \in DOMAIN log' /\ log'[n] = log[n]
  PROVE  LedgerInv'
<1>1. \A a \in ledger : OfLog(a)' /\ a.holds
  BY OfLogKept DEF LedgerInv
<1>2. \A a \in ledger : log'[a.seq] = log[a.seq]
  BY DEF LedgerInv, OfLog
<1>3. backs' = 0 => \A a \in ledger : log'[a.seq].at <= a.time + a.lag
  BY <1>2 DEF LedgerInv
<1> QED BY <1>1, <1>3 DEF LedgerInv

\* No step of the producer takes an entry back.
LEMMA LogOnlyGrows ==
  ASSUME LogInv, BeatsInv, Record \/ FirstBeat \/ NextBeat
  PROVE  \A n \in DOMAIN log : n \in DOMAIN log' /\ log'[n] = log[n]
<1>1. \E e : log' = Append(log, e)
  <2>1. CASE Record
    BY <2>1 DEF Record
  <2>2. CASE FirstBeat
    BY <2>2 DEF FirstBeat
  <2>3. CASE NextBeat
    BY <2>3 DEF NextBeat
  <2> QED BY <2>1, <2>2, <2>3
<1>2. PICK e : log' = Append(log, e)
  BY <1>1
<1>3. log \in Seq(Claims \union {e})
  BY DEF LogInv
<1> QED BY <1>2, <1>3

-----------------------------------------------------------------------------
(* The file. *)

FileRecord(b) ==
  b = [profile |-> b.profile, entries |-> b.entries, from |-> b.from, to |-> b.to,
       top |-> b.top, anchors |-> b.anchors, created |-> b.created]

LEMMA ExportKeeps ==
  ASSUME LogInv, LedgerInv, Export
  PROVE  WindowInv' /\ (genuine' => GenuineInv') /\ genuine' \in BOOLEAN
<1>1. PICK from \in DOMAIN log : \E to \in from .. Len(log) : \E top \in {to, Len(log)} :
        \E anchors \in SUBSET ledger :
         /\ bundle' = [profile |-> profile, entries |-> log, from |-> from, to |-> to,
                       top |-> top, anchors |-> anchors, created |-> clock]
         /\ genuine' = \A a \in anchors : a.seq \in (from .. to) \union {top}
  BY DEF Export
<1>2. PICK to \in from .. Len(log) : \E top \in {to, Len(log)} : \E anchors \in SUBSET ledger :
         /\ bundle' = [profile |-> profile, entries |-> log, from |-> from, to |-> to,
                       top |-> top, anchors |-> anchors, created |-> clock]
         /\ genuine' = \A a \in anchors : a.seq \in (from .. to) \union {top}
  BY <1>1
<1>3. PICK top \in {to, Len(log)}, anchors \in SUBSET ledger :
         /\ bundle' = [profile |-> profile, entries |-> log, from |-> from, to |-> to,
                       top |-> top, anchors |-> anchors, created |-> clock]
         /\ genuine' = \A a \in anchors : a.seq \in (from .. to) \union {top}
  BY <1>2
<1>4. UNCHANGED <<profile, log, ledger>>
  BY DEF Export, producerVars
<1>5. DOMAIN log = 1 .. Len(log) /\ Len(log) \in Nat
  BY LogClaims
<1>6. /\ from \in Nat /\ to \in Nat /\ top \in Nat
      /\ 1 <= from /\ from <= to /\ to <= top /\ top <= Len(log)
  <2> DEFINE l == Len(log)
  <2>1. from \in 1 .. l /\ to \in from .. l /\ top \in {to, l} /\ l \in Nat
    BY <1>5
  <2> HIDE DEF l
  <2>2. from \in Nat /\ to \in Nat /\ 1 <= from /\ from <= to /\ to <= l
    BY <2>1
  <2>3. top = to \/ top = l
    BY <2>1
  <2>4. top \in Nat /\ to <= top /\ top <= l
    BY <2>1, <2>2, <2>3
  <2> QED BY <2>2, <2>4 DEF l
<1>7. /\ bundle'.profile = profile /\ bundle'.entries = log /\ bundle'.from = from
      /\ bundle'.to = to /\ bundle'.top = top /\ bundle'.anchors = anchors
      /\ bundle'.created = clock
  BY <1>3
<1>8. FileRecord(bundle)'
  BY <1>3 DEF FileRecord
<1>9. IsFiniteSet(anchors)
  BY FS_Subset DEF LedgerInv
<1>10. \A a \in anchors : OfLog(a)'
  <2>1. \A n \in DOMAIN log : n \in DOMAIN log' /\ log'[n] = log[n]
    BY <1>4
  <2> QED BY <1>4, <2>1, OfLogKept DEF LedgerInv
<1>11. WindowInv'
  BY <1>4, <1>6, <1>7, <1>8, <1>9, <1>10 DEF WindowInv, LogInv, FileRecord
<1>12. ASSUME genuine' PROVE GenuineInv'
  <2>1. \A a \in anchors : a.seq \in (from .. to) \union {top}
    BY <1>3, <1>12
  <2> QED BY <2>1, <1>4, <1>7 DEF GenuineInv
<1>13. genuine' \in BOOLEAN
  BY <1>3
<1> QED BY <1>11, <1>12, <1>13

\* The window moves with the producer at rest.
LEMMA OfLogRests ==
  ASSUME LogInv, NEW a, OfLog(a), UNCHANGED <<profile, log>>
  PROVE  OfLog(a)'
<1>1. \A n \in DOMAIN log : n \in DOMAIN log' /\ log'[n] = log[n]
  OBVIOUS
<1> QED BY <1>1, OfLogKept

\* Another value for the entries, other bounds.
LEMMA PutEntries ==
  ASSUME LogInv, WindowInv, UNCHANGED producerVars, NEW es \in Seq(Claims), NEW from \in Nat,
         NEW to \in Nat, NEW top \in Nat, 1 <= from, from <= to, to <= top, top <= Len(es),
         bundle' = [profile |-> bundle.profile, entries |-> es, from |-> from, to |-> to,
                    top |-> top, anchors |-> bundle.anchors, created |-> bundle.created]
  PROVE  WindowInv'
<1>1. /\ bundle'.profile = bundle.profile /\ bundle'.entries = es /\ bundle'.from = from
      /\ bundle'.to = to /\ bundle'.top = top /\ bundle'.anchors = bundle.anchors
      /\ bundle'.created = bundle.created
  OBVIOUS
<1>2. bundle.profile = profile
  BY DEF WindowInv
<1>3. FileRecord(bundle)'
  BY DEF FileRecord
<1>4. UNCHANGED <<profile, log, ledger>>
  BY DEF producerVars
<1>5. \A a \in bundle'.anchors : OfLog(a)'
  BY <1>1, <1>4, OfLogRests DEF WindowInv
<1> QED BY <1>1, <1>2, <1>3, <1>4, <1>5 DEF WindowInv, FileRecord

LEMMA BundleFields ==
  ASSUME WindowInv, NEW es
  PROVE  [bundle EXCEPT !.entries = es]
           = [profile |-> bundle.profile, entries |-> es, from |-> bundle.from,
              to |-> bundle.to, top |-> bundle.top, anchors |-> bundle.anchors,
              created |-> bundle.created]
<1>1. FileRecord(bundle)
  BY DEF WindowInv, FileRecord
<1> QED BY <1>1 DEF FileRecord

\* One entry in the place of another.
LEMMA PutEntry ==
  ASSUME LogInv, WindowInv, UNCHANGED producerVars, NEW n \in SpansShown(bundle) \union Shown, NEW c \in Claims,
         bundle' = [bundle EXCEPT !.entries[n] = c]
  PROVE  WindowInv'
<1> DEFINE es == [bundle.entries EXCEPT ![n] = c]
<1>1. bundle.entries \in Seq(Claims)
  BY DEF WindowInv
<1>2. es \in Seq(Claims) /\ Len(es) = Len(bundle.entries)
  <2> DEFINE s == bundle.entries
             l == Len(s)
  <2>1. s \in [1 .. l -> Claims] /\ l \in Nat
    BY <1>1
  <2> HIDE DEF s, l
  <2>2. [s EXCEPT ![n] = c] \in [1 .. l -> Claims]
    BY <2>1
  <2>3. [s EXCEPT ![n] = c] \in Seq(Claims) /\ Len([s EXCEPT ![n] = c]) = l
    BY <2>1, <2>2
  <2> QED BY <2>3 DEF s, l
<1>3. bundle' = [bundle EXCEPT !.entries = es]
  OBVIOUS
<1> HIDE DEF es
<1>4. bundle' = [profile |-> bundle.profile, entries |-> es, from |-> bundle.from,
                 to |-> bundle.to, top |-> bundle.top, anchors |-> bundle.anchors,
                 created |-> bundle.created]
  BY <1>3, BundleFields
<1>5. /\ bundle.from \in Nat /\ bundle.to \in Nat /\ bundle.top \in Nat
      /\ 1 <= bundle.from /\ bundle.from <= bundle.to /\ bundle.to <= bundle.top
      /\ bundle.top <= Len(es)
  BY <1>2 DEF WindowInv
<1> QED BY <1>2, <1>4, <1>5, PutEntries

LEMMA ShownClaims ==
  ASSUME WindowInv
  PROVE  /\ \A n \in Shown : n \in Nat /\ n >= 1 /\ bundle.entries[n] \in Claims
         /\ SpansShown(bundle) \subseteq Shown
<1>1. bundle.entries \in Seq(Claims)
  BY DEF WindowInv
<1>2. /\ bundle.from \in Nat /\ bundle.to \in Nat /\ bundle.top \in Nat
      /\ 1 <= bundle.from /\ bundle.from <= bundle.to /\ bundle.to <= bundle.top
      /\ bundle.top <= Len(bundle.entries)
  BY DEF WindowInv
<1>3. DOMAIN bundle.entries = 1 .. Len(bundle.entries) /\ Len(bundle.entries) \in Nat
  BY <1>1
<1>4. \A n \in Shown : n \in 1 .. Len(bundle.entries)
  <2> DEFINE l == Len(bundle.entries)
  <2> HIDE DEF l
  <2> QED BY <1>2, <1>3 DEF l, Shown
<1>5. \A n \in 1 .. Len(bundle.entries) : bundle.entries[n] \in Claims
  BY <1>1, <1>3
<1> QED BY <1>4, <1>5 DEF SpansShown, Shown

\* What a claim may become under Rewrite, Retype and Retime is a claim.
LEMMA ClaimAltered ==
  ASSUME NEW c \in Claims
  PROVE  /\ \A x \in Int : /\ [c EXCEPT !.beat = x] \in Claims /\ [c EXCEPT !.count = x] \in Claims
                           /\ [c EXCEPT !.cadence = x] \in Claims /\ [c EXCEPT !.at = x] \in Claims
         /\ [c EXCEPT !.stream = "other"] \in Claims /\ [c EXCEPT !.variant = TRUE] \in Claims
         /\ [c EXCEPT !.kind = "event"] \in Claims
         /\ SpanPath(c) \in Int \X Int \X Int
         /\ \A p \in {c.path} \union (Int \X Int \X Int) : [c EXCEPT !.path = p] \in Claims
         /\ c.beat \in Int /\ c.count \in Int /\ c.cadence \in Int /\ c.at \in Int
  BY DEF Claims, SpanPath

LEMMA RewriteKeeps ==
  ASSUME LogInv, WindowInv, Rewrite
  PROVE  WindowInv'
<1>1. PICK n \in SpansShown(bundle) :
        \E e \in {[bundle.entries[n] EXCEPT !.beat = @ - 1], [bundle.entries[n] EXCEPT !.count = @ + 1],
                  [bundle.entries[n] EXCEPT !.count = @ - 1], [bundle.entries[n] EXCEPT !.cadence = 2 * @],
                  [bundle.entries[n] EXCEPT !.cadence = Year + 1], [bundle.entries[n] EXCEPT !.beat = NoInt],
                  [bundle.entries[n] EXCEPT !.stream = "other"], [bundle.entries[n] EXCEPT !.variant = TRUE]} :
          \E path \in {bundle.entries[n].path, SpanPath(e)} :
            bundle' = [bundle EXCEPT !.entries[n] = [e EXCEPT !.path = path]]
  BY DEF Rewrite
<1> DEFINE c == bundle.entries[n]
<1>2. c \in Claims
  BY ShownClaims
<1>3. UNCHANGED producerVars
  BY DEF Rewrite, Edited
<1>4. PICK e \in {[c EXCEPT !.beat = @ - 1], [c EXCEPT !.count = @ + 1],
                  [c EXCEPT !.count = @ - 1], [c EXCEPT !.cadence = 2 * @],
                  [c EXCEPT !.cadence = Year + 1], [c EXCEPT !.beat = NoInt],
                  [c EXCEPT !.stream = "other"], [c EXCEPT !.variant = TRUE]} :
          \E path \in {c.path, SpanPath(e)} :
            bundle' = [bundle EXCEPT !.entries[n] = [e EXCEPT !.path = path]]
  BY <1>1
<1>5. PICK path \in {c.path, SpanPath(e)} :
            bundle' = [bundle EXCEPT !.entries[n] = [e EXCEPT !.path = path]]
  BY <1>4
<1> HIDE DEF c
<1>6. e \in Claims /\ e.path = c.path
  <2>1. \A x \in Int : /\ [c EXCEPT !.beat = x] \in Claims /\ [c EXCEPT !.count = x] \in Claims
                       /\ [c EXCEPT !.cadence = x] \in Claims
    BY <1>2, ClaimAltered
  <2>2. [c EXCEPT !.stream = "other"] \in Claims /\ [c EXCEPT !.variant = TRUE] \in Claims
    BY <1>2, ClaimAltered
  <2>3. c.beat - 1 \in Int /\ c.count + 1 \in Int /\ c.count - 1 \in Int /\ 2 * c.cadence \in Int
        /\ Year + 1 \in Int /\ NoInt \in Int
    <3>1. c.beat \in Int /\ c.count \in Int /\ c.cadence \in Int
      BY <1>2, ClaimAltered
    <3>2. Year + 1 \in Int /\ NoInt \in Int
      BY TicksAssumption DEF NoInt
    <3> QED BY <3>1, <3>2
  <2>4. e \in Claims
    BY <1>4, <2>1, <2>2, <2>3
  <2>5. \A x : /\ [c EXCEPT !.beat = x].path = c.path /\ [c EXCEPT !.count = x].path = c.path
               /\ [c EXCEPT !.cadence = x].path = c.path /\ [c EXCEPT !.stream = x].path = c.path
               /\ [c EXCEPT !.variant = x].path = c.path
    BY <1>2 DEF Claims
  <2> QED BY <1>4, <2>4, <2>5
<1>7. [e EXCEPT !.path = path] \in Claims
  <2>1. path \in {e.path} \union (Int \X Int \X Int)
    BY <1>5, <1>6, ClaimAltered
  <2> QED BY <1>6, <2>1, ClaimAltered
<1> QED BY <1>3, <1>5, <1>7, PutEntry

LEMMA RetypeKeeps ==
  ASSUME LogInv, WindowInv, Retype
  PROVE  WindowInv'
<1>1. PICK n \in SpansShown(bundle) : bundle' = [bundle EXCEPT !.entries[n].kind = "event"]
  BY DEF Retype
<1>2. bundle.entries[n] \in Claims
  BY ShownClaims
<1>3. [bundle.entries[n] EXCEPT !.kind = "event"] \in Claims
  BY <1>2, ClaimAltered
<1>4. bundle' = [bundle EXCEPT !.entries[n] = [bundle.entries[n] EXCEPT !.kind = "event"]]
  BY <1>1
<1>5. UNCHANGED producerVars
  BY DEF Retype, Edited
<1> QED BY <1>3, <1>4, <1>5, PutEntry

LEMMA RetimeKeeps ==
  ASSUME LogInv, WindowInv, Retime
  PROVE  WindowInv'
<1>1. PICK n \in Shown, s \in {-Second, Second} : bundle' = [bundle EXCEPT !.entries[n].at = @ + s]
  BY DEF Retime
<1>2. bundle.entries[n] \in Claims
  BY ShownClaims
<1> DEFINE t == bundle.entries[n].at + s
<1>3. t \in Int
  <2>1. bundle.entries[n].at \in Int
    BY <1>2, ClaimAltered
  <2>2. s \in Int
    BY TicksAssumption
  <2> QED BY <2>1, <2>2
<1>4. bundle' = [bundle EXCEPT !.entries[n] = [bundle.entries[n] EXCEPT !.at = t]]
  BY <1>1
<1> HIDE DEF t
<1>5. [bundle.entries[n] EXCEPT !.at = t] \in Claims
  BY <1>2, <1>3, ClaimAltered
<1>6. UNCHANGED producerVars
  BY DEF Retime, Edited
<1> QED BY <1>4, <1>5, <1>6, PutEntry

\* A sequence with an entry taken out.
LEMMA WithoutOne ==
  ASSUME NEW S, NEW s \in Seq(S), NEW n \in 1 .. Len(s)
  PROVE  RemoveAt(s, n) \in Seq(S) /\ Len(RemoveAt(s, n)) = Len(s) - 1
<1> DEFINE l == Len(s)
           p == SubSeq(s, 1, n - 1)
           q == SubSeq(s, n + 1, l)
<1>1. l \in Nat /\ \A i \in 1 .. l : s[i] \in S
  OBVIOUS
<1> HIDE DEF l
<1>2. n \in 1 .. l
  BY DEF l
<1>3. p \in Seq(S) /\ Len(p) = n - 1
  <2>1. \A i \in 1 .. n - 1 : s[i] \in S
    BY <1>1, <1>2
  <2>2. 1 \in Int /\ n - 1 \in Int
    BY <1>2
  <2>3. Len(p) = IF 1 <= n - 1 THEN (n - 1) - 1 + 1 ELSE 0
    BY <2>1, <2>2, SubSeqProperties
  <2>4. p \in Seq(S)
    BY <2>1, <2>2, SubSeqProperties
  <2> QED BY <2>3, <2>4, <1>2
<1>4. q \in Seq(S) /\ Len(q) = l - n
  <2>1. \A i \in n + 1 .. l : s[i] \in S
    BY <1>1, <1>2
  <2>2. n + 1 \in Int /\ l \in Int
    BY <1>1, <1>2
  <2>3. Len(q) = IF n + 1 <= l THEN l - (n + 1) + 1 ELSE 0
    BY <2>1, <2>2, SubSeqProperties
  <2>4. q \in Seq(S)
    BY <2>1, <2>2, SubSeqProperties
  <2> QED BY <2>3, <2>4, <1>1, <1>2
<1> HIDE DEF p, q
<1>5. p \o q \in Seq(S) /\ Len(p \o q) = Len(p) + Len(q)
  BY <1>3, <1>4, ConcatProperties
<1>6. Len(p \o q) = l - 1
  BY <1>1, <1>2, <1>3, <1>4, <1>5
<1> QED BY <1>5, <1>6 DEF RemoveAt, p, q, l

LEMMA TakeOutKeeps ==
  ASSUME LogInv, WindowInv, TakeOut
  PROVE  WindowInv'
<1>1. PICK n \in 1 .. bundle.to :
        LET from == IF n < bundle.from THEN bundle.from - 1 ELSE bundle.from IN
        /\ from <= bundle.to - 1
        /\ bundle' = [bundle EXCEPT !.entries = RemoveAt(@, n), !.from = from,
                                    !.to = @ - 1, !.top = @ - 1]
  BY DEF TakeOut
<1> DEFINE from == IF n < bundle.from THEN bundle.from - 1 ELSE bundle.from
           es == RemoveAt(bundle.entries, n)
           l == Len(bundle.entries)
<1>2. /\ bundle.entries \in Seq(Claims)
      /\ bundle.from \in Nat /\ bundle.to \in Nat /\ bundle.top \in Nat
      /\ 1 <= bundle.from /\ bundle.from <= bundle.to /\ bundle.to <= bundle.top /\ bundle.top <= l
  BY DEF WindowInv
<1>3. l \in Nat
  BY <1>2
<1>4. n \in 1 .. l
  <2> HIDE DEF l
  <2> QED BY <1>2, <1>3
<1>5. es \in Seq(Claims) /\ Len(es) = l - 1
  BY <1>2, <1>4, WithoutOne
<1>6. /\ from <= bundle.to - 1
      /\ bundle' = [bundle EXCEPT !.entries = es, !.from = from,
                                  !.to = bundle.to - 1, !.top = bundle.top - 1]
  BY <1>1
<1> HIDE DEF es, l
<1>7. /\ from \in Nat /\ bundle.to - 1 \in Nat /\ bundle.top - 1 \in Nat /\ 1 <= from
      /\ from <= bundle.to - 1 /\ bundle.to - 1 <= bundle.top - 1 /\ bundle.top - 1 <= Len(es)
  BY <1>2, <1>3, <1>4, <1>5, <1>6
<1> HIDE DEF from
<1>8. FileRecord(bundle)
  BY DEF WindowInv, FileRecord
<1>9. bundle' = [profile |-> bundle.profile, entries |-> es, from |-> from, to |-> bundle.to - 1,
                 top |-> bundle.top - 1, anchors |-> bundle.anchors, created |-> bundle.created]
  BY <1>6, <1>8 DEF FileRecord
<1>10. UNCHANGED producerVars
  BY DEF TakeOut, Edited
<1> QED BY <1>5, <1>7, <1>9, <1>10, PutEntries

LEMMA SpoilTokenKeeps ==
  ASSUME LogInv, WindowInv, SpoilToken
  PROVE  WindowInv'
<1>1. PICK a \in bundle.anchors :
        bundle' = [bundle EXCEPT !.anchors = (@ \ {a}) \union {[a EXCEPT !.holds = FALSE]}]
  BY DEF SpoilToken
<1>2. UNCHANGED <<profile, log, ledger>>
  BY DEF SpoilToken, Edited, producerVars
<1> DEFINE z == [a EXCEPT !.holds = FALSE]
           as == (bundle.anchors \ {a}) \union {z}
<1>3. OfLog(z)
  <2>1. OfLog(a)
    BY DEF WindowInv
  <2>2. /\ z.seq = a.seq /\ z.link = a.link /\ z.entries = a.entries /\ z.type = a.type
        /\ z.lag = a.lag /\ z.time = a.time /\ z.holds = FALSE
        /\ z = [seq |-> a.seq, link |-> a.link, entries |-> a.entries, type |-> a.type,
                lag |-> a.lag, time |-> a.time, holds |-> FALSE]
    <3> DEFINE v == FALSE
    <3>1. z = [a EXCEPT !.holds = v]
      OBVIOUS
    <3> HIDE DEF v, z
    <3>2. a = [seq |-> a.seq, link |-> a.link, entries |-> a.entries, type |-> a.type,
               lag |-> a.lag, time |-> a.time, holds |-> a.holds]
      BY <2>1 DEF OfLog
    <3>3. /\ z.seq = a.seq /\ z.link = a.link /\ z.entries = a.entries /\ z.type = a.type
          /\ z.lag = a.lag /\ z.time = a.time /\ z.holds = v
          /\ z = [seq |-> a.seq, link |-> a.link, entries |-> a.entries, type |-> a.type,
                  lag |-> a.lag, time |-> a.time, holds |-> v]
      BY <3>1, <3>2
    <3> QED BY <3>3 DEF v
  <2> HIDE DEF z
  <2>3. z = [seq |-> z.seq, link |-> z.link, entries |-> z.entries, type |-> z.type,
             lag |-> z.lag, time |-> z.time, holds |-> z.holds]
    BY <2>2
  <2> QED BY <2>1, <2>2, <2>3 DEF OfLog
<1> HIDE DEF z
<1>4. IsFiniteSet(as)
  <2>1. IsFiniteSet(bundle.anchors \ {a})
    BY FS_RemoveElement DEF WindowInv
  <2> QED BY <2>1, FS_AddElement
<1>5. \A x \in as : OfLog(x)'
  <2>1. \A x \in as : OfLog(x)
    BY <1>3 DEF WindowInv
  <2> QED BY <1>2, <2>1, OfLogRests
<1>6. bundle' = [bundle EXCEPT !.anchors = as]
  BY <1>1 DEF z
<1> HIDE DEF as
<1>7. FileRecord(bundle)
  BY DEF WindowInv, FileRecord
<1>8. /\ bundle' = [profile |-> bundle.profile, entries |-> bundle.entries, from |-> bundle.from,
                    to |-> bundle.to, top |-> bundle.top, anchors |-> as, created |-> bundle.created]
  BY <1>6, <1>7 DEF FileRecord
<1>9. FileRecord(bundle)' /\ bundle'.anchors = as /\ bundle'.profile = bundle.profile
      /\ bundle'.entries = bundle.entries /\ bundle'.from = bundle.from /\ bundle'.to = bundle.to
      /\ bundle'.top = bundle.top /\ bundle'.created = bundle.created
  BY <1>8 DEF FileRecord
<1>10. bundle.anchors # {}
  OBVIOUS
<1>11. ledger' # {}
  BY <1>2, <1>10 DEF WindowInv
<1>12. FileRecord(bundle)' /\ bundle'.profile = profile'
  BY <1>2, <1>9 DEF WindowInv
<1>13. /\ bundle'.entries \in Seq(Claims)
       /\ bundle'.from \in Nat /\ bundle'.to \in Nat /\ bundle'.top \in Nat
       /\ 1 <= bundle'.from /\ bundle'.from <= bundle'.to /\ bundle'.to <= bundle'.top
       /\ bundle'.top <= Len(bundle'.entries) /\ bundle'.created \in Int
  BY <1>9 DEF WindowInv
<1>14. IsFiniteSet(bundle'.anchors) /\ \A x \in bundle'.anchors : OfLog(x)'
  BY <1>4, <1>5, <1>9
<1> QED BY <1>11, <1>12, <1>13, <1>14 DEF WindowInv, FileRecord

-----------------------------------------------------------------------------
(* The invariant of the whole. *)

LEMMA InitHolds == Init => TimedInv
<1> SUFFICES ASSUME Init PROVE TimedInv
  OBVIOUS
<1>1. /\ profile \in Profiles /\ log = << >> /\ clock = 0 /\ due = 0 /\ ticks = << >> /\ backs = 0
      /\ ledger = {} /\ phase = "idle" /\ edits = 0 /\ genuine = FALSE /\ report = NoReport
  BY DEF Init
<1>2. DOMAIN log = {} /\ LogSpans = {}
  BY <1>1 DEF LogSpans
<1>3. LogInv
  <2>1. Len(log) = 0 /\ Len(ticks) = 0 /\ log \in Seq(Claims) /\ ticks \in Seq(Nat)
    BY <1>1
  <2> QED BY <1>1, <1>2, <2>1, BoundsAssumption DEF LogInv
<1>4. BeatsInv
  BY <1>1, <1>2 DEF BeatsInv
<1>5. ScheduleInv
  <2>1. DOMAIN ticks = {}
    BY <1>1
  <2> QED BY <1>2, <2>1 DEF ScheduleInv
<1>6. LedgerInv
  <2>1. IsFiniteSet(ledger) /\ Cardinality(ledger) = 0
    BY <1>1, FS_EmptySet
  <2> QED BY <1>1, <2>1, BoundsAssumption DEF LedgerInv
<1>7. BundleInv
  <2>1. 0 \in 0 .. MaxEdits
    BY BoundsAssumption
  <2> QED BY <1>1, <2>1, Zenon DEF BundleInv
<1>8. ReportInv
  BY <1>1 DEF ReportInv
<1> QED BY <1>3, <1>4, <1>5, <1>6, <1>7, <1>8 DEF TimedInv

\* A file at rest beside a producer at rest.
LEMMA WindowRests ==
  ASSUME LogInv, WindowInv, UNCHANGED <<producerVars, bundle>>
  PROVE  WindowInv' /\ (GenuineInv => GenuineInv')
<1>1. UNCHANGED <<profile, log, ledger>>
  BY DEF producerVars
<1>2. \A a \in bundle.anchors : OfLog(a)'
  BY <1>1, OfLogRests DEF WindowInv
<1>3. WindowInv'
  BY <1>1, <1>2 DEF WindowInv
<1> QED BY <1>1, <1>3 DEF GenuineInv

LEMMA ProducerStep ==
  ASSUME TimedInv, Record \/ FirstBeat \/ NextBeat \/ SetBack \/ Anchor
  PROVE  TimedInv'
<1>1. LogInv /\ BeatsInv /\ ScheduleInv /\ LedgerInv /\ BundleInv /\ ReportInv
  BY DEF TimedInv
<1>2. /\ phase = "idle" /\ UNCHANGED <<phase, genuine, edits, report>>
      /\ backs' = 0 => backs = 0
  <2>1. backs \in Nat
    BY <1>1, BoundsAssumption DEF LogInv
  <2> QED BY <2>1 DEF Record, FirstBeat, NextBeat, SetBack, Anchor
<1>3. LogInv' /\ BeatsInv' /\ ScheduleInv'
  <2>1. CASE Record
    BY <1>1, <2>1, RecordKeeps
  <2>2. CASE FirstBeat
    BY <1>1, <2>2, FirstBeatKeeps
  <2>3. CASE NextBeat
    BY <1>1, <2>3, NextBeatKeeps
  <2>4. CASE SetBack
    BY <1>1, <2>4, SetBackKeeps
  <2>5. CASE Anchor
    <3>1. UNCHANGED <<profile, log, clock, due, ticks, backs>>
      BY <2>5 DEF Anchor
    <3> QED BY <1>1, <3>1, ProducerRests
  <2> QED BY <2>1, <2>2, <2>3, <2>4, <2>5
<1>4. LedgerInv'
  <2>1. CASE Record \/ FirstBeat \/ NextBeat
    <3>1. UNCHANGED <<profile, ledger>>
      BY <2>1 DEF Record, FirstBeat, NextBeat
    <3> QED BY <1>1, <1>2, <2>1, <3>1, LogOnlyGrows, LedgerKept
  <2>2. CASE SetBack
    <3>1. UNCHANGED <<profile, ledger, log>>
      BY <2>2 DEF SetBack
    <3> QED BY <1>1, <1>2, <3>1, LedgerKept
  <2>3. CASE Anchor
    BY <1>1, <2>3, AnchorKeeps
  <2> QED BY <2>1, <2>2, <2>3
<1>5. BundleInv'
  BY <1>1, <1>2 DEF BundleInv
<1>6. ReportInv'
  BY <1>1, <1>2 DEF ReportInv
<1> QED BY <1>3, <1>4, <1>5, <1>6 DEF TimedInv

LEMMA FileStep ==
  ASSUME TimedInv, Export \/ TakeOut \/ Rewrite \/ Retype \/ Retime \/ SpoilToken
  PROVE  TimedInv'
<1>1. LogInv /\ BeatsInv /\ ScheduleInv /\ LedgerInv /\ BundleInv /\ ReportInv
  BY DEF TimedInv
<1>2. UNCHANGED producerVars
  BY DEF Export, TakeOut, Rewrite, Retype, Retime, SpoilToken, Edited
<1>3. UNCHANGED <<profile, log, clock, due, ticks, backs, ledger>>
  BY <1>2 DEF producerVars
<1>4. LogInv' /\ BeatsInv' /\ ScheduleInv'
  BY <1>1, <1>3, ProducerRests
<1>5. LedgerInv'
  BY <1>1, <1>3, LedgerKept
<1>6. phase' = "transit" /\ report' = report /\ phase # "done" /\ edits' \in 0 .. MaxEdits
  <2>1. edits \in 0 .. MaxEdits /\ MaxEdits \in Nat
    BY <1>1, BoundsAssumption DEF BundleInv
  <2>2. CASE Export
    BY <2>1, <2>2 DEF Export
  <2>3. CASE TakeOut \/ Rewrite \/ Retype \/ Retime \/ SpoilToken
    <3>1. Edited
      BY <2>3 DEF TakeOut, Rewrite, Retype, Retime, SpoilToken
    <3>2. phase = "transit" /\ edits < MaxEdits /\ edits' = edits + 1 /\ UNCHANGED <<phase, report>>
      BY <3>1 DEF Edited
    <3> QED BY <2>1, <3>2
  <2> QED BY <2>2, <2>3
<1>7. BundleInv'
  <2>1. CASE Export
    <3>1. WindowInv' /\ (genuine' => GenuineInv') /\ genuine' \in BOOLEAN
      BY <1>1, <2>1, ExportKeeps
    <3> QED BY <1>6, <3>1 DEF BundleInv
  <2>2. CASE TakeOut \/ Rewrite \/ Retype \/ Retime \/ SpoilToken
    <3>1. phase = "transit" /\ genuine' = FALSE
      BY <2>2 DEF TakeOut, Rewrite, Retype, Retime, SpoilToken, Edited
    <3>2. WindowInv
      BY <1>1, <3>1 DEF BundleInv
    <3>3. WindowInv'
      BY <1>1, <2>2, <3>2, TakeOutKeeps, RewriteKeeps, RetypeKeeps, RetimeKeeps, SpoilTokenKeeps
    <3> QED BY <1>6, <3>1, <3>3 DEF BundleInv
  <2> QED BY <2>1, <2>2
<1>8. ReportInv'
  BY <1>1, <1>6 DEF ReportInv
<1> QED BY <1>4, <1>5, <1>7, <1>8 DEF TimedInv

LEMMA ReaderStep ==
  ASSUME TimedInv, Verify \/ Discard \/ UNCHANGED vars
  PROVE  TimedInv'
<1>1. LogInv /\ BeatsInv /\ ScheduleInv /\ LedgerInv /\ BundleInv /\ ReportInv
  BY DEF TimedInv
<1>2. UNCHANGED producerVars
  BY DEF Verify, Discard, vars, producerVars
<1>3. UNCHANGED <<profile, log, clock, due, ticks, backs, ledger>>
  BY <1>2 DEF producerVars
<1>4. LogInv' /\ BeatsInv' /\ ScheduleInv'
  BY <1>1, <1>3, ProducerRests
<1>5. LedgerInv'
  BY <1>1, <1>3, LedgerKept
<1>6. BundleInv' /\ ReportInv'
  <2>1. CASE Verify
    <3>1. phase = "transit" /\ phase' = "done" /\ UNCHANGED <<bundle, edits, genuine>>
      BY <2>1 DEF Verify
    <3>2. WindowInv /\ (genuine => GenuineInv)
      BY <1>1, <3>1 DEF BundleInv
    <3>3. WindowInv' /\ (GenuineInv => GenuineInv')
      BY <1>1, <1>2, <3>1, <3>2, WindowRests
    <3>4. BundleInv'
      BY <1>1, <3>1, <3>2, <3>3 DEF BundleInv
    <3>5. report' = [ok |-> Passes(bundle), span |-> CheckSpan(bundle),
                 anchored |-> IF Passes(bundle) THEN AnchoredWord(bundle) ELSE "no",
                 spanned |-> Passes(bundle) /\ Spanned(bundle),
                 age |-> AttestationAge(bundle), window |-> UnanchoredWindow(bundle)]
      BY <2>1 DEF Verify, Passes
    <3>6. ReportInv'
      BY <3>1, <3>5 DEF ReportInv
    <3> QED BY <3>4, <3>6
  <2>2. CASE Discard
    <3>1. phase' = "idle" /\ edits' = 0 /\ genuine' = FALSE /\ report' = NoReport
      BY <2>2 DEF Discard
    <3>2. 0 \in 0 .. MaxEdits
      BY BoundsAssumption
    <3>3. BundleInv'
      BY <3>1, <3>2, Zenon DEF BundleInv
    <3>4. ReportInv'
      BY <3>1 DEF ReportInv
    <3> QED BY <3>3, <3>4
  <2>3. CASE UNCHANGED vars
    <3>1. UNCHANGED <<phase, bundle, edits, genuine, report>>
      BY <2>3 DEF vars
    <3>2. phase # "idle" => WindowInv' /\ (GenuineInv => GenuineInv')
      BY <1>1, <1>2, <3>1, WindowRests DEF BundleInv
    <3>3. BundleInv'
      BY <1>1, <3>1, <3>2 DEF BundleInv
    <3>4. ReportInv'
      BY <1>1, <3>1 DEF ReportInv
    <3> QED BY <3>3, <3>4
  <2> QED BY <2>1, <2>2, <2>3
<1> QED BY <1>4, <1>5, <1>6 DEF TimedInv

LEMMA TimedInvHolds == Spec => []TimedInv
<1>1. ASSUME TimedInv, [Next]_vars PROVE TimedInv'
  BY <1>1, ProducerStep, FileStep, ReaderStep DEF Next
<1> QED BY InitHolds, <1>1, PTL DEF Spec

-----------------------------------------------------------------------------
(* What checkSpan and the anchor checks say. *)

SpansHold(b) ==
  /\ b.profile # NoChain
  /\ \A n \in SpansShown(b) : Usable(b, n)
  /\ ~FirstFalse(b)
  /\ \A p \in Pairs(b) : ~PairFails(b, p)

LEMMA CheckSpanIs ==
  ASSUME NEW b
  PROVE  /\ CheckSpan(b).present \in BOOLEAN /\ CheckSpan(b).ok \in BOOLEAN
         /\ CheckSpan(b).present <=> SpansShown(b) # {}
         /\ CheckSpan(b).ok <=> SpansShown(b) # {} /\ b.profile # Merkle /\ SpansHold(b)
         /\ SpansShown(b) = {} \/ b.profile = Merkle =>
              CheckSpan(b).beats = 0 /\ CheckSpan(b).windows = 0
         /\ SpansShown(b) # {} /\ b.profile # Merkle =>
              /\ CheckSpan(b).beats = Cardinality(Spans(b))
              /\ CheckSpan(b).gaps = Gaps(b)
              /\ CheckSpan(b).windows = Cardinality(Spans(b)) + Cardinality(Missed(b))
<1> DEFINE q == b.profile # NoChain /\ (\A n \in SpansShown(b) : Usable(b, n))
                /\ ~FirstFalse(b) /\ \A p \in Pairs(b) : ~PairFails(b, p)
           v == <<Cardinality(Spans(b)), Gaps(b), Cardinality(Spans(b)) + Cardinality(Missed(b))>>
           r == [present |-> TRUE, ok |-> q, beats |-> v[1], gaps |-> v[2], windows |-> v[3]]
<1>1. q <=> SpansHold(b)
  BY DEF SpansHold
<1>2. CheckSpan(b) = IF SpansShown(b) = {} THEN NoSpan
                     ELSE IF b.profile = Merkle THEN [NoSpan EXCEPT !.present = TRUE] ELSE r
  BY DEF CheckSpan
<1>3. q \in BOOLEAN
  OBVIOUS
<1> HIDE DEF q
<1>4. /\ v[1] = Cardinality(Spans(b)) /\ v[2] = Gaps(b)
      /\ v[3] = Cardinality(Spans(b)) + Cardinality(Missed(b))
  OBVIOUS
<1> HIDE DEF v
<1>5. r.present = TRUE /\ r.ok = q /\ r.beats = v[1] /\ r.gaps = v[2] /\ r.windows = v[3]
  BY Zenon
<1>6. /\ NoSpan.present = FALSE /\ NoSpan.ok = FALSE /\ NoSpan.beats = 0 /\ NoSpan.windows = 0
  BY DEF NoSpan
<1> DEFINE s == [NoSpan EXCEPT !.present = TRUE]
<1>7. s.present = TRUE /\ s.ok = FALSE /\ s.beats = 0 /\ s.windows = 0
  BY DEF NoSpan
<1> HIDE DEF r, s
<1>8. CheckSpan(b) = IF SpansShown(b) = {} THEN NoSpan ELSE IF b.profile = Merkle THEN s ELSE r
  BY <1>2 DEF r, s
<1>9. CASE SpansShown(b) = {}
  <2>1. CheckSpan(b) = NoSpan
    BY <1>8, <1>9
  <2> QED BY <2>1, <1>6, <1>9, Zenon
<1>10. CASE SpansShown(b) # {} /\ b.profile = Merkle
  <2>1. CheckSpan(b) = s
    BY <1>8, <1>10
  <2> QED BY <2>1, <1>7, <1>10, Zenon
<1>11. CASE SpansShown(b) # {} /\ b.profile # Merkle
  <2>1. CheckSpan(b) = r
    BY <1>8, <1>11
  <2> QED BY <2>1, <1>1, <1>3, <1>4, <1>5, <1>11, Zenon
<1> QED BY <1>9, <1>10, <1>11

\* The report of a file that was judged.
LEMMA ReportIs ==
  ASSUME TimedInv, phase = "done"
  PROVE  /\ report.ok \in BOOLEAN
         /\ report.ok <=> Passes(bundle)
         /\ report.span = CheckSpan(bundle)
         /\ report.anchored = IF Passes(bundle) THEN AnchoredWord(bundle) ELSE "no"
         /\ report.spanned \in BOOLEAN
         /\ report.spanned <=> Passes(bundle) /\ Spanned(bundle)
         /\ report.age = AttestationAge(bundle) /\ report.window = UnanchoredWindow(bundle)
         /\ WindowInv
<1> DEFINE p == Passes(bundle)
           q == Passes(bundle) /\ Spanned(bundle)
           w == IF Passes(bundle) THEN AnchoredWord(bundle) ELSE "no"
<1>1. report = [ok |-> p, span |-> CheckSpan(bundle), anchored |-> w, spanned |-> q,
                age |-> AttestationAge(bundle), window |-> UnanchoredWindow(bundle)]
  BY DEF TimedInv, ReportInv
<1>2. p \in BOOLEAN /\ q \in BOOLEAN
  BY DEF Passes
<1> HIDE DEF p, q, w
<1>3. /\ report.ok = p /\ report.span = CheckSpan(bundle) /\ report.anchored = w
      /\ report.spanned = q /\ report.age = AttestationAge(bundle)
      /\ report.window = UnanchoredWindow(bundle)
  BY <1>1, Zenon
<1>4. WindowInv
  BY DEF TimedInv, BundleInv
<1>5. (p <=> Passes(bundle)) /\ (q <=> Passes(bundle) /\ Spanned(bundle))
  BY DEF p, q
<1> QED BY <1>2, <1>3, <1>4, <1>5, Zenon DEF w

\* Under a verdict that holds, a file with a span claim is of a linear profile,
\* and each of its span claims reads.
LEMMA PassingSpans ==
  ASSUME LogInv, WindowInv, Passes(bundle), SpansShown(bundle) # {}
  PROVE  profile \in Linear /\ SpansHold(bundle)
<1>1. CheckSpan(bundle).ok
  BY CheckSpanIs, Zenon DEF Passes
<1>2. bundle.profile # Merkle /\ SpansHold(bundle)
  BY <1>1, CheckSpanIs, Zenon
<1>3. bundle.profile # NoChain /\ bundle.profile = profile
  BY <1>2 DEF SpansHold, WindowInv
<1>4. profile \in Linear \union {Merkle, NoChain}
  BY ScheduleAssumption DEF LogInv
<1> QED BY <1>2, <1>3, <1>4

\* A claim of the file under a matched anchor commits what the log's entry does.
LEMMA MatchedCommits ==
  ASSUME LogInv, WindowInv, NEW a \in Matched(bundle), NEW n \in Shown, n <= a.seq
  PROVE  /\ a \in bundle.anchors /\ n \in DOMAIN log /\ a.entries[n] = log[n]
         /\ CommittedPart(profile, bundle.entries[n]) = CommittedPart(profile, log[n])
<1>1. a \in bundle.anchors /\ a.link = LinkAt(profile, bundle.entries, a.seq)
  BY DEF Matched, Matches, WindowInv
<1>2. OfLog(a)
  BY <1>1 DEF WindowInv
<1>3. a.seq \in DOMAIN log /\ a.link = LinkAt(profile, log, a.seq) /\ \A k \in 1 .. a.seq : a.entries[k] = log[k]
  BY <1>2 DEF OfLog
<1>4. n \in Nat /\ n >= 1
  BY ShownClaims
<1>5. n \in 1 .. a.seq /\ n \in DOMAIN log
  BY <1>3, <1>4, LogClaims
<1>6. /\ LinkAt(profile, bundle.entries, a.seq)[n] = CommittedPart(profile, bundle.entries[n])
      /\ LinkAt(profile, log, a.seq)[n] = CommittedPart(profile, log[n])
  BY <1>5 DEF LinkAt
<1> QED BY <1>1, <1>3, <1>5, <1>6

LEMMA MembersHold ==
  ASSUME TimedInv
  PROVE  MembersMeanLog
<1> SUFFICES ASSUME phase = "done", report.anchored # "no", NEW a \in Matched(bundle),
                    NEW n \in SpansShown(bundle), n <= a.seq
             PROVE  /\ a.entries[n].kind = "span"
                    /\ <<bundle.entries[n].beat, bundle.entries[n].count, bundle.entries[n].cadence>>
                         = <<a.entries[n].beat, a.entries[n].count, a.entries[n].cadence>>
  BY DEF MembersMeanLog, Done
<1> DEFINE c == bundle.entries[n]
           w == a.entries[n]
<1>1. LogInv /\ WindowInv /\ Passes(bundle)
  BY ReportIs, Zenon DEF TimedInv
<1>2. profile \in Linear /\ SpansHold(bundle)
  BY <1>1, PassingSpans
<1>3. n \in Shown /\ c.kind = "span" /\ bundle.profile = profile
  BY <1>1, ShownClaims DEF SpansShown, WindowInv
<1>4. CommittedPart(profile, c) = CommittedPart(profile, w) /\ n \in DOMAIN log /\ w = log[n]
  BY <1>1, <1>3, MatchedCommits
<1>5. WellWritten(w) /\ w \in Claims
  BY <1>1, <1>4, LogClaims DEF LogInv
<1>6. CASE profile = "switchtender-audit-v1"
  <2>1. c.path = w.path
    BY <1>4, <1>6 DEF CommittedPart
  <2>2. c.path = <<c.beat, c.count, c.cadence>>
    <3>1. Usable(bundle, n)
      BY <1>2 DEF SpansHold
    <3>2. PathHolds(c)
      BY <3>1, <1>3, <1>6 DEF Usable
    <3> QED BY <3>2 DEF PathHolds, SpanPath
  <2>3. w.kind = "span"
    <3>1. c.path # << >>
      BY <2>2
    <3>2. w.kind # "span" => w.path = << >>
      BY <1>5 DEF WellWritten
    <3> QED BY <2>1, <3>1, <3>2
  <2>4. w.path = <<w.beat, w.count, w.cadence>>
    BY <2>3, <1>5 DEF WellWritten, SpanPath
  <2> QED BY <2>1, <2>2, <2>3, <2>4
<1>7. CASE profile # "switchtender-audit-v1"
  <2>1. c = w
    BY <1>4, <1>7 DEF CommittedPart
  <2> QED BY <2>1, <1>3
<1> QED BY <1>6, <1>7

\* The span claims up to a recorded anchor read as the log wrote them
\* (checkSpanPath): no beat of an anchored bundle is renumbered and no event
\* passes for a beat, although the switchtender link leaves the members out.
THEOREM MembersAreAsWritten == Spec => []MembersMeanLog
<1>1. TimedInv => MembersMeanLog
  BY MembersHold
<1> QED BY TimedInvHolds, <1>1, PTL

-----------------------------------------------------------------------------
(* Greatest and least elements. *)

IsMax(S, m) == m \in S /\ \A x \in S : x <= m

LEMMA MaxIs ==
  ASSUME NEW S, NEW m, IsMax(S, m), S \subseteq Int
  PROVE  Max(S) = m
<1>1. Max(S) = CHOOSE x \in S : \A y \in S : x >= y
  BY DEF Max
<1>2. m \in S /\ \A y \in S : m >= y
  BY DEF IsMax
<1>3. \A x \in S : (\A y \in S : x >= y) => x = m
  BY <1>2
<1> QED BY <1>1, <1>2, <1>3

LEMMA MaxOfTwo ==
  ASSUME NEW x \in Int, NEW y \in Int
  PROVE  Max({x, y}) = IF x >= y THEN x ELSE y
<1>1. IsMax({x, y}, IF x >= y THEN x ELSE y)
  BY DEF IsMax
<1> QED BY <1>1, MaxIs

\* A finite set of integers has a greatest element: of the subsets that had none,
\* a smallest one would lose one by losing an element.
LEMMA HasMax ==
  ASSUME NEW S, IsFiniteSet(S), S \subseteq Int, S # {}
  PROVE  \E m : IsMax(S, m)
<1> DEFINE Bad(U) == U \subseteq S /\ U # {} /\ IsFiniteSet(U) /\ \A m : ~IsMax(U, m)
           K == {k \in Nat : \E U : Bad(U) /\ Cardinality(U) = k}
<1> SUFFICES ASSUME ~\E m : IsMax(S, m) PROVE FALSE
  OBVIOUS
<1>1. Cardinality(S) \in K
  <2>1. Bad(S) /\ Cardinality(S) \in Nat
    BY FS_CardinalityType
  <2> HIDE DEF Bad
  <2> QED BY <2>1
<1>2. \E k \in K : \A j \in K : ~(j < k)
  <2>1. IsWellFoundedOn(OpToRel(<, Nat), Nat) /\ K \subseteq Nat /\ K # {}
    BY <1>1, NatLessThanWellFounded
  <2> HIDE DEF K
  <2>2. PICK x \in K : \A y \in K : ~ (<<y, x>> \in OpToRel(<, Nat))
    BY <2>1, WFMin, Zenon
  <2>3. \A y \in K : ~(y < x)
    BY <2>1, <2>2 DEF OpToRel
  <2> QED BY <2>2, <2>3
<1>3. PICK k \in K : \A j \in K : ~(j < k)
  BY <1>2
<1>4. PICK U : Bad(U) /\ Cardinality(U) = k
  OBVIOUS
<1>5. PICK x : x \in U
  BY <1>4
<1> DEFINE V == U \ {x}
<1>6. IsFiniteSet(V) /\ Cardinality(V) = k - 1 /\ k \in Nat /\ Cardinality(V) \in Nat
  <2>1. IsFiniteSet(U)
    BY <1>4
  <2>2. IsFiniteSet(V) /\ Cardinality(V) = Cardinality(U) - 1
    BY <2>1, <1>5, FS_RemoveElement
  <2> QED BY <2>2, <1>4, FS_CardinalityType
<1>7. ~Bad(V)
  <2> SUFFICES ASSUME Bad(V) PROVE FALSE
    OBVIOUS
  <2>1. k - 1 \in K
    <3> HIDE DEF Bad, V
    <3> QED BY <1>6
  <2>2. k - 1 < k
    BY <1>6
  <2> HIDE DEF K
  <2> QED BY <1>3, <2>1, <2>2
<1>8. U \subseteq Int /\ x \in Int /\ V \subseteq U /\ V \subseteq S
  BY <1>4, <1>5
<1>9. CASE V = {}
  <2>1. IsMax(U, x)
    BY <1>5, <1>8, <1>9 DEF IsMax
  <2> QED BY <2>1, <1>4
<1>10. CASE V # {}
  <2>1. PICK m : IsMax(V, m)
    BY <1>6, <1>7, <1>8, <1>10
  <2>2. m \in V /\ \A y \in V : y <= m
    BY <2>1 DEF IsMax
  <2>3. \A y \in U : y = x \/ y \in V
    OBVIOUS
  <2> HIDE DEF V
  <2>4. m \in Int
    BY <1>8, <2>2
  <2>5. IsMax(U, IF x >= m THEN x ELSE m)
    BY <1>5, <1>8, <2>2, <2>3, <2>4 DEF IsMax
  <2> QED BY <2>5, <1>4
<1> QED BY <1>9, <1>10

LEMMA MaxIn ==
  ASSUME NEW S, IsFiniteSet(S), S \subseteq Int, S # {}
  PROVE  Max(S) \in S /\ \A x \in S : x <= Max(S)
<1>1. PICK m : IsMax(S, m)
  BY HasMax
<1>2. Max(S) = m
  BY <1>1, MaxIs
<1> QED BY <1>1, <1>2 DEF IsMax

\* The greatest value a function takes on a finite set.
LEMMA MaxOfValues ==
  ASSUME NEW S, IsFiniteSet(S), S # {}, NEW f \in [S -> Int]
  PROVE  \E x \in S : Max({f[y] : y \in S}) = f[x] /\ \A y \in S : f[y] <= f[x]
<1> DEFINE T == {f[y] : y \in S}
<1>1. f \in [S -> T] /\ \A t \in T : \E x \in S : f[x] = t
  OBVIOUS
<1>2. f \in Surjection(S, T)
  BY <1>1 DEF Surjection
<1>3. IsFiniteSet(T)
  BY <1>2, FS_Surjection
<1>4. T \subseteq Int /\ T # {}
  OBVIOUS
<1>5. \A y \in S : f[y] \in T
  OBVIOUS
<1>6. Max(T) \in T /\ \A t \in T : t <= Max(T)
  BY <1>3, <1>4, MaxIn
<1>7. PICK x \in S : f[x] = Max(T)
  BY <1>1, <1>6
<1>8. \A y \in S : f[y] <= f[x]
  <2> HIDE DEF T
  <2> QED BY <1>5, <1>6, <1>7
<1> QED BY <1>7, <1>8

-----------------------------------------------------------------------------
(* How stale a bundle is. *)

LEMMA AnchorSets ==
  ASSUME WindowInv
  PROVE  /\ IsFiniteSet(Matched(bundle)) /\ IsFiniteSet(Opened(bundle)) /\ IsFiniteSet(Holding(bundle))
         /\ Holding(bundle) \subseteq Opened(bundle) /\ Opened(bundle) \subseteq Matched(bundle)
         /\ Matched(bundle) \subseteq bundle.anchors
         /\ \A a \in Matched(bundle) : a.seq \in Shown /\ a.seq \in Nat /\ a.time \in Int
<1>1. /\ Holding(bundle) \subseteq Opened(bundle) /\ Opened(bundle) \subseteq Matched(bundle)
      /\ Matched(bundle) \subseteq bundle.anchors
  BY DEF Holding, Opened, Matched
<1>2. IsFiniteSet(bundle.anchors)
  BY DEF WindowInv
<1>3. IsFiniteSet(Matched(bundle)) /\ IsFiniteSet(Opened(bundle)) /\ IsFiniteSet(Holding(bundle))
  BY <1>1, <1>2, FS_Subset
<1>4. ASSUME NEW a \in Matched(bundle) PROVE a.seq \in Shown /\ a.seq \in Nat /\ a.time \in Int
  <2>1. a.seq \in Shown /\ OfLog(a)
    BY <1>4 DEF Matched, Matches, Shown, WindowInv
  <2> QED BY <2>1, ShownClaims DEF OfLog
<1> QED BY <1>1, <1>3, <1>4

\* Rounding to the second moves a span by half a second at most.
LEMMA SecondIs ==
  ASSUME NEW d \in Nat
  PROVE  Rounded(d) \in Nat /\ 2 * (d - Rounded(d)) <= Second
<1> DEFINE r == d % Second
           q == d \div Second
           m == Second
<1>1. m \in Nat /\ m > 0
  BY TicksAssumption
<1>2. r \in 0 .. m - 1 /\ q \in Nat /\ d = m * q + r
  BY <1>1
<1>3. r \in Nat /\ r < m /\ d - r \in Nat
  <2>1. m * q \in Nat
    BY <1>1, <1>2
  <2> DEFINE z == m * q
  <2> HIDE DEF z, r, m
  <2>2. z \in Nat /\ d = z + r /\ r \in 0 .. m - 1
    BY <1>2, <2>1 DEF z
  <2> QED BY <2>2, <1>1
<1>4. Rounded(d) = IF 2 * r < m THEN d - r ELSE d + m - r
  BY DEF Rounded
<1> HIDE DEF r, q, m
<1>5. Rounded(d) \in Nat /\ 2 * (d - Rounded(d)) <= m
  BY <1>1, <1>3, <1>4
<1> QED BY <1>5 DEF m

\* What a figure states covers the span it was made of, and any shorter one.
LEMMA FigureIs ==
  ASSUME NEW d \in Int
  PROVE  /\ Figure(d) \in Nat \union {NoFigure}
         /\ \A e \in Int : e <= d => Covers(Figure(d), e)
<1>1. CASE d > 0
  <2>1. d \in Nat /\ Figure(d) = Rounded(d)
    BY <1>1 DEF Figure
  <2> DEFINE f == Rounded(d)
  <2>2. f \in Nat /\ 2 * (d - f) <= Second
    BY <2>1, SecondIs
  <2>3. Figure(d) = f /\ f # NoFigure
    BY <2>1, <2>2 DEF NoFigure
  <2> HIDE DEF f
  <2>4. \A e \in Int : e <= d => 2 * (e - f) <= Second
    BY <2>2, TicksAssumption
  <2> QED BY <2>2, <2>3, <2>4 DEF Covers
<1>2. CASE ~(d > 0)
  <2>1. Figure(d) = NoFigure
    BY <1>2 DEF Figure
  <2>2. \A e \in Int : e <= d => ~(e > 0)
    BY <1>2
  <2> QED BY <2>1, <2>2 DEF Covers
<1> QED BY <1>1, <1>2

LEMMA AgeIs ==
  ASSUME WindowInv
  PROVE  /\ AttestationAge(bundle) \in Nat \union {NoFigure}
         /\ Holding(bundle) # {} =>
              \E a \in Holding(bundle) : /\ \A x \in Holding(bundle) : x.time <= a.time
                                         /\ Covers(AttestationAge(bundle), bundle.created - a.time)
<1> DEFINE H == Holding(bundle)
<1>1. CASE H = {}
  BY <1>1 DEF AttestationAge
<1>2. CASE H # {}
  <2> DEFINE f == [a \in H |-> a.time]
  <2>1. f \in [H -> Int] /\ IsFiniteSet(H)
    BY AnchorSets
  <2>2. {f[a] : a \in H} = {a.time : a \in H}
    OBVIOUS
  <2>3. PICK a \in H : Max({f[y] : y \in H}) = f[a] /\ \A y \in H : f[y] <= f[a]
    <3> HIDE DEF f, H
    <3> QED BY <2>1, <1>2, MaxOfValues
  <2>4. NewestToken(bundle) = a.time /\ a.time \in Int /\ \A y \in H : y.time <= a.time
    BY <2>1, <2>2, <2>3 DEF NewestToken
  <2> DEFINE d == bundle.created - a.time
  <2>5. d \in Int
    BY <2>4 DEF WindowInv
  <2>6. AttestationAge(bundle) = Figure(d)
    BY <1>2, <2>4 DEF AttestationAge
  <2> HIDE DEF d
  <2>7. d <= d
    BY <2>5
  <2>8. Figure(d) \in Nat \union {NoFigure} /\ Covers(Figure(d), d)
    BY <2>5, <2>7, FigureIs
  <2> QED BY <2>4, <2>6, <2>8 DEF d
<1> QED BY <1>1, <1>2

LEMMA WindowIs ==
  ASSUME WindowInv
  PROVE  /\ UnanchoredWindow(bundle) \in Nat \union {NoFigure}
         /\ \A a \in Matched(bundle) : (\A x \in Matched(bundle) : x.seq <= a.seq) =>
              \A n \in a.seq + 1 .. bundle.to :
                \A e \in Int : e <= bundle.entries[n].at - bundle.entries[a.seq].at =>
                  Covers(UnanchoredWindow(bundle), e)
<1> DEFINE M == Matched(bundle)
           to == bundle.to
           th == Through(bundle)
           E(n) == bundle.entries[n].at
<1>0. /\ to \in Nat /\ IsFiniteSet(M) /\ \A a \in M : a.seq \in Shown /\ a.seq \in Nat
      /\ \A a \in M : a.seq >= 1 /\ a.seq <= to
      /\ \A n \in Shown : E(n) \in Int
  <2>1. bundle.from \in Nat /\ to \in Nat /\ 1 <= bundle.from
    BY DEF WindowInv
  <2>2. \A a \in M : a.seq \in Shown /\ a.seq \in Nat
    BY AnchorSets
  <2>3. \A n \in Shown : E(n) \in Int
    BY ShownClaims DEF Claims
  <2>4. \A n \in Shown : n >= 1 /\ n <= to
    BY <2>1 DEF Shown
  <2> HIDE DEF M, to
  <2> QED BY <2>1, <2>2, <2>3, <2>4, AnchorSets DEF M
<1>1. CASE M = {}
  <2>1. th = 0
    BY <1>1 DEF Through
  <2>2. UnanchoredWindow(bundle) = NoFigure
    BY <2>1 DEF UnanchoredWindow
  <2> QED BY <1>1, <2>2
<1>2. CASE M # {}
  <2> DEFINE f == [a \in M |-> a.seq]
  <2>1. f \in [M -> Int] /\ {f[a] : a \in M} = {a.seq : a \in M}
    BY <1>0
  <2>2. PICK a \in M : Max({f[y] : y \in M}) = f[a] /\ \A y \in M : f[y] <= f[a]
    <3> HIDE DEF f, M
    <3> QED BY <2>1, <1>0, <1>2, MaxOfValues
  <2>3. th = a.seq /\ \A y \in M : y.seq <= a.seq
    BY <1>2, <2>1, <2>2 DEF Through
  <2>4. th \in Shown /\ th \in Nat /\ th >= 1 /\ th <= to
    BY <1>0, <2>3
  <2>5. \A x \in M : (\A y \in M : y.seq <= x.seq) => x.seq = th
    BY <1>0, <2>3
  <2>6. CASE th = to
    <3>1. UnanchoredWindow(bundle) = NoFigure
      BY <2>6 DEF UnanchoredWindow
    <3>2. \A n : ~(n \in th + 1 .. to)
      <4> HIDE DEF th, to
      <4> QED BY <2>4, <2>6
    <3> QED BY <2>5, <3>1, <3>2
  <2>7. CASE th # to
    <3> DEFINE N == th + 1 .. to
               g == [n \in N |-> E(n)]
               d == Max({g[n] : n \in N}) - E(th)
    <3>1. N # {} /\ IsFiniteSet(N) /\ N \subseteq Shown
      <4>1. bundle.from \in Nat /\ bundle.from <= th
        BY <2>4 DEF Shown, WindowInv
      <4>2. Shown = bundle.from .. to
        BY DEF Shown
      <4> HIDE DEF th, to
      <4>3. to \in N
        BY <2>4, <2>7, <1>0
      <4>4. IsFiniteSet(N)
        <5>1. th + 1 \in Int /\ to \in Int
          BY <2>4, <1>0
        <5> QED BY <5>1, FS_Interval
      <4>5. N \subseteq Shown
        BY <2>4, <1>0, <4>1, <4>2
      <4> QED BY <4>3, <4>4, <4>5
    <3>2. g \in [N -> Int] /\ {g[n] : n \in N} = {E(n) : n \in N}
      BY <1>0, <3>1
    <3>3. PICK m \in N : Max({g[n] : n \in N}) = g[m] /\ \A n \in N : g[n] <= g[m]
      <4> HIDE DEF g, N
      <4> QED BY <3>1, <3>2, MaxOfValues
    <3>4. g[m] \in Int /\ E(th) \in Int /\ d \in Int /\ d = g[m] - E(th)
      <4>1. g[m] \in Int /\ E(th) \in Int
        BY <3>2, <1>0, <2>4
      <4>2. d = g[m] - E(th)
        BY <3>3
      <4> HIDE DEF d
      <4> QED BY <4>1, <4>2
    <3>5. th \notin {0, to}
      <4> HIDE DEF th, to
      <4> QED BY <2>4, <2>7
    <3>6. UnanchoredWindow(bundle) = Figure(d)
      BY <3>2, <3>5 DEF UnanchoredWindow
    <3> DEFINE u == UnanchoredWindow(bundle)
    <3>8. u \in Nat \union {NoFigure} /\ \A e \in Int : e <= d => Covers(u, e)
      <4>1. u = Figure(d)
        BY <3>6
      <4> HIDE DEF d, u
      <4> QED BY <3>4, <4>1, FigureIs
    <3>9. \A n \in N : \A e \in Int : e <= E(n) - E(th) => Covers(u, e)
      <4>1. \A n \in N : g[n] = E(n) /\ g[n] \in Int /\ g[n] <= g[m]
        BY <3>2, <3>3
      <4> DEFINE s == E(th)
      <4>2. d = g[m] - s /\ s \in Int /\ g[m] \in Int
        BY <3>4
      <4>3. ASSUME NEW n \in N, NEW e \in Int, e <= E(n) - s PROVE e <= d
        <5>1. g[n] \in Int /\ g[n] <= g[m] /\ e <= g[n] - s
          BY <4>1, <4>3
        <5> HIDE DEF g, s, d, N
        <5> QED BY <4>2, <5>1
      <4> QED BY <4>3, <3>8
    <3> QED BY <2>5, <3>8, <3>9
  <2> QED BY <2>6, <2>7
<1> QED BY <1>1, <1>2

\* Under a passing verdict the tokens on shown claims are the ones that held.
LEMMA TokensHold ==
  ASSUME WindowInv, AnchorsOK(bundle)
  PROVE  /\ {a \in bundle.anchors : a.type = "rfc3161" /\ a.seq <= bundle.to} = Holding(bundle)
         /\ Matched(bundle) = {a \in bundle.anchors : a.seq <= bundle.to}
<1>1. /\ bundle.from \in Nat /\ bundle.to \in Nat /\ bundle.top \in Nat
  BY DEF WindowInv
<1>2. \A a \in bundle.anchors : Matches(bundle, a) \/ Declared(bundle, a)
  BY DEF AnchorsOK
<1>3. Opened(bundle) \subseteq Holding(bundle)
  BY DEF AnchorsOK
<1>4. \A a \in bundle.anchors : a.seq <= bundle.to => Matches(bundle, a)
  <2>1. \A a \in bundle.anchors : Declared(bundle, a) => bundle.top > bundle.to /\ a.seq = bundle.top
    BY DEF Declared
  <2>2. ~(bundle.top > bundle.to /\ bundle.top <= bundle.to)
    BY <1>1
  <2> QED BY <1>2, <2>1, <2>2
<1>5. \A a \in bundle.anchors : Matches(bundle, a) => a.seq <= bundle.to
  BY <1>1 DEF Matches
<1>6. Matched(bundle) = {a \in bundle.anchors : a.seq <= bundle.to}
  BY <1>4, <1>5 DEF Matched
<1>7. Opened(bundle) = Holding(bundle)
  BY <1>3 DEF Holding
<1> QED BY <1>6, <1>7 DEF Opened

LEMMA StalenessHolds ==
  ASSUME TimedInv
  PROVE  StalenessNotFlattered
<1> DEFINE tokens == {a \in bundle.anchors : a.type = "rfc3161" /\ a.seq <= bundle.to}
<1> SUFFICES ASSUME phase = "done", report.ok, tokens # {}
             PROVE  /\ \E a \in tokens : \A x \in tokens :
                         Covers(report.age, bundle.created - a.time) /\ a.time >= x.time
                    /\ \A a \in tokens : (\A x \in bundle.anchors : x.seq <= a.seq \/ x.seq > bundle.to) =>
                         \A n \in a.seq + 1 .. bundle.to :
                           Covers(report.window, bundle.entries[n].at - a.time - Skew)
  BY DEF StalenessNotFlattered, Done
<1>1. WindowInv /\ AnchorsOK(bundle)
  BY ReportIs, Zenon DEF Passes
<1>2. report.age = AttestationAge(bundle) /\ report.window = UnanchoredWindow(bundle)
  BY ReportIs
<1>3. tokens = Holding(bundle) /\ Matched(bundle) = {a \in bundle.anchors : a.seq <= bundle.to}
  BY <1>1, TokensHold
<1>4. tokens \subseteq Opened(bundle) /\ tokens \subseteq Matched(bundle)
      /\ \A a \in tokens : a.time \in Int /\ a.seq \in Shown /\ a.seq \in Nat
  BY <1>1, <1>3, AnchorSets
<1> HIDE DEF tokens
<1>5. \E a \in tokens : \A x \in tokens :
        Covers(report.age, bundle.created - a.time) /\ a.time >= x.time
  <2>1. PICK a \in tokens : /\ \A x \in tokens : x.time <= a.time
                            /\ Covers(report.age, bundle.created - a.time)
    BY <1>1, <1>2, <1>3, AgeIs
  <2> QED BY <2>1, <1>4
<1>6. ASSUME NEW a \in tokens, \A x \in bundle.anchors : x.seq <= a.seq \/ x.seq > bundle.to,
             NEW n \in a.seq + 1 .. bundle.to
      PROVE  Covers(report.window, bundle.entries[n].at - a.time - Skew)
  <2> DEFINE e == bundle.entries[n].at
             s == bundle.entries[a.seq].at
             t == a.time
             u == report.window
  <2>1. bundle.to \in Nat /\ bundle.from \in Nat
    BY <1>1 DEF WindowInv
  <2>2. \A x \in Matched(bundle) : x.seq <= a.seq
    <3>1. \A x \in Matched(bundle) : x \in bundle.anchors /\ x.seq <= bundle.to /\ x.seq \in Nat
      BY <1>1, <1>3, AnchorSets
    <3>2. \A y \in Nat : ~(y <= bundle.to /\ y > bundle.to)
      BY <2>1
    <3> QED BY <1>6, <3>1, <3>2
  <2>3. \A x \in Int : x <= e - s => Covers(u, x)
    BY <1>1, <1>2, <1>4, <1>6, <2>2, WindowIs
  <2>4. t >= s - Skew
    <3>1. ~Precedes(bundle, a)
      BY <1>3 DEF Holding
    <3>2. s \in Int /\ t \in Int
      BY <1>1, <1>4, ShownClaims DEF Claims
    <3>3. ~(t < s - Skew)
      BY <3>1 DEF Precedes
    <3> HIDE DEF s, t
    <3> QED BY <3>2, <3>3, TicksAssumption
  <2>5. e \in Int /\ s \in Int /\ t \in Int
    <3>1. n \in Shown
      <4>1. a.seq \in Nat /\ a.seq >= bundle.from
        BY <1>4, <2>1 DEF Shown
      <4> QED BY <2>1, <4>1 DEF Shown
    <3> QED BY <3>1, <1>1, <1>4, ShownClaims DEF Claims
  <2> HIDE DEF e, s, t, u
  <2>6. e - t - Skew \in Int /\ e - t - Skew <= e - s
    BY <2>4, <2>5, TicksAssumption
  <2>7. Covers(u, e - t - Skew)
    BY <2>3, <2>6
  <2> QED BY <2>7 DEF e, t, u
<1> QED BY <1>5, <1>6

\* A passing bundle cannot be made to look fresher by leaving things out
\* (measureAttestationAge, measureUnanchored): its age covers the time since the
\* newest token on a shown claim, and its window what lies between the moment the
\* last anchor was signed and any entry past it, but for the skew of two clocks;
\* each is there when it should be, and rounding takes half a second at most.
THEOREM FiguresNotFlattered == Spec => []StalenessNotFlattered
<1>1. TimedInv => StalenessNotFlattered
  BY StalenessHolds
<1> QED BY TimedInvHolds, <1>1, PTL

-----------------------------------------------------------------------------
(* The span claims of a window. *)

LEMMA SpansAre ==
  ASSUME WindowInv
  PROVE  /\ Spans(bundle) \subseteq Shown /\ Spans(bundle) \subseteq Nat
         /\ IsFiniteSet(Spans(bundle)) /\ IsFiniteSet(Shown)
         /\ \A n \in Spans(bundle) :
              /\ n >= 1 /\ bundle.entries[n] \in Claims /\ bundle.entries[n].kind = "span"
              /\ bundle.entries[n].beat \in Int /\ bundle.entries[n].beat >= 1
              /\ bundle.entries[n].count \in Int /\ bundle.entries[n].at \in Int
              /\ bundle.entries[n].cadence \in Int /\ bundle.entries[n].cadence >= 1
<1>1. Spans(bundle) \subseteq SpansShown(bundle) /\ SpansShown(bundle) \subseteq Shown
  BY ShownClaims DEF Spans
<1>2. IsFiniteSet(Shown)
  <2>1. bundle.from \in Int /\ bundle.to \in Int
    BY DEF WindowInv
  <2> QED BY <2>1, FS_Interval DEF Shown
<1>3. IsFiniteSet(Spans(bundle))
  BY <1>1, <1>2, FS_Subset
<1>4. ASSUME NEW n \in Spans(bundle)
      PROVE  /\ n \in Nat /\ n >= 1 /\ bundle.entries[n] \in Claims /\ bundle.entries[n].kind = "span"
             /\ bundle.entries[n].beat \in Int /\ bundle.entries[n].beat >= 1
             /\ bundle.entries[n].count \in Int /\ bundle.entries[n].at \in Int
             /\ bundle.entries[n].cadence \in Int /\ bundle.entries[n].cadence >= 1
  <2>1. n \in Nat /\ n >= 1 /\ bundle.entries[n] \in Claims
    BY <1>1, <1>4, ShownClaims
  <2>2. bundle.entries[n].kind = "span"
    BY <1>4 DEF Spans, SpansShown
  <2>3. /\ bundle.entries[n].beat \in Int /\ bundle.entries[n].count \in Int
        /\ bundle.entries[n].at \in Int /\ bundle.entries[n].cadence \in Int
    BY <2>1 DEF Claims
  <2>4. bundle.entries[n].beat >= 1 /\ bundle.entries[n].cadence \in 1 .. Year
    BY <1>4 DEF Spans, Usable, Parses
  <2>5. bundle.entries[n].cadence >= 1
    BY <2>4, TicksAssumption
  <2> QED BY <2>1, <2>2, <2>3, <2>4, <2>5
<1> QED BY <1>1, <1>2, <1>3, <1>4

LEMMA PairsAre ==
  ASSUME NEW b, NEW p \in Pairs(b)
  PROVE  /\ p \in Spans(b) \X Spans(b) /\ p = <<p[1], p[2]>>
         /\ p[1] \in Spans(b) /\ p[2] \in Spans(b) /\ p[1] < p[2]
         /\ \A k \in Spans(b) : k <= p[1] \/ k >= p[2]
<1>1. /\ p \in Spans(b) \X Spans(b) /\ p[1] < p[2]
      /\ \A k \in Spans(b) : k <= p[1] \/ k >= p[2]
  BY DEF Pairs
<1>2. p = <<p[1], p[2]>> /\ p[1] \in Spans(b) /\ p[2] \in Spans(b)
  BY <1>1
<1> QED BY <1>1, <1>2

\* A span claim is the first shown, or makes a pair with the one before it.
LEMMA FirstOrPaired ==
  ASSUME WindowInv, NEW n \in Spans(bundle)
  PROVE  (\A m \in Spans(bundle) : m >= n) \/ \E m \in Spans(bundle) : <<m, n>> \in Pairs(bundle)
<1> DEFINE S == Spans(bundle)
           T == {m \in S : m < n}
<1>1. S \subseteq Nat /\ n \in S /\ IsFiniteSet(S)
  BY SpansAre
<1> HIDE DEF S
<1>2. CASE T = {}
  <2>1. \A m \in S : m >= n
    BY <1>1, <1>2
  <2> QED BY <2>1 DEF S
<1>3. CASE T # {}
  <2>1. IsFiniteSet(T) /\ T \subseteq Int
    <3>1. \A x \in T : x \in S /\ x \in Int
      BY <1>1
    <3> HIDE DEF T
    <3>2. T \in SUBSET S /\ T \subseteq Int
      BY <3>1
    <3> QED BY <3>2, <1>1, FS_Subset
  <2>2. PICK m : IsMax(T, m)
    <3> HIDE DEF T
    <3> QED BY <1>3, <2>1, HasMax
  <2>3. m \in T /\ \A x \in T : x <= m
    BY <2>2 DEF IsMax
  <2>4. m \in S /\ m < n /\ \A k \in S : k <= m \/ k >= n
    BY <1>1, <2>3
  <2> DEFINE p == <<m, n>>
  <2>5. p \in S \X S /\ p[1] = m /\ p[2] = n
    BY <1>1, <2>4
  <2> HIDE DEF p
  <2>6. p \in Pairs(bundle)
    BY <2>4, <2>5 DEF Pairs, S
  <2> QED BY <2>4, <2>6 DEF p, S
<1> QED BY <1>2, <1>3

\* Where span checks hold, the numbers of a pair follow.
LEMMA PairFollows ==
  ASSUME WindowInv, SpansHold(bundle), NEW p \in Pairs(bundle)
  PROVE  /\ bundle.entries[p[2]].beat = bundle.entries[p[1]].beat + 1
         /\ bundle.entries[p[2]].count = p[2] - p[1] - 1
         /\ Interval(bundle, p) > 0
<1>1. ~PairFails(bundle, p)
  BY DEF SpansHold
<1>2. ~MissingBeat(bundle, p) /\ ~Miscounted(bundle, p) /\ ~Stalled(bundle, p)
  BY <1>1 DEF PairFails
<1>3. Interval(bundle, p) \in Int
  BY PairsAre, SpansAre DEF Interval
<1>4. ~(Interval(bundle, p) <= 0)
  BY <1>2 DEF Stalled
<1> QED BY <1>2, <1>3, <1>4 DEF MissingBeat, Miscounted

\* Beats of the log are told apart by their numbers.
LEMMA BeatsDiffer ==
  ASSUME LogInv, BeatsInv, NEW m \in LogSpans, NEW n \in LogSpans, log[m].beat = log[n].beat
  PROVE  m = n
<1>1. m \in Nat /\ n \in Nat /\ log[m].beat \in Int /\ log[n].beat \in Int
  BY LogClaims DEF LogSpans
<1>2. (m < n => log[m].beat < log[n].beat) /\ (n < m => log[n].beat < log[m].beat)
  BY DEF BeatsInv
<1> QED BY <1>1, <1>2

LEMMA PopulationHolds ==
  ASSUME TimedInv
  PROVE  PopulationKept
<1> DEFINE e == bundle.entries
<1> SUFFICES ASSUME phase = "done", report.ok, report.span.ok,
                    \A n \in Spans(bundle) : e[n] \in ToSet(log)
             PROVE  /\ \A p \in Pairs(bundle) : WrittenAt(e[p[2]]) - WrittenAt(e[p[1]]) = p[2] - p[1]
                    /\ \A n \in Spans(bundle) : e[n].beat = 1 => WrittenAt(e[n]) = n
  BY DEF PopulationKept, Done
<1>1. LogInv /\ BeatsInv /\ WindowInv
  BY ReportIs DEF TimedInv
<1>2. SpansHold(bundle)
  <2>1. CheckSpan(bundle).ok
    BY ReportIs
  <2> QED BY <2>1, CheckSpanIs, Zenon
<1>3. ASSUME NEW n \in Spans(bundle)
      PROVE  /\ WrittenAt(e[n]) \in LogSpans /\ log[WrittenAt(e[n])] = e[n]
             /\ WrittenAt(e[n]) \in Nat
  <2>1. \E k \in DOMAIN log : log[k] = e[n]
    BY <1>3 DEF ToSet
  <2>2. WrittenAt(e[n]) \in DOMAIN log /\ log[WrittenAt(e[n])] = e[n]
    BY <2>1 DEF WrittenAt
  <2>3. e[n].kind = "span"
    BY <1>1, <1>3, SpansAre
  <2> QED BY <1>1, <2>2, <2>3, LogClaims DEF LogSpans
<1>4. ASSUME NEW p \in Pairs(bundle)
      PROVE  WrittenAt(e[p[2]]) - WrittenAt(e[p[1]]) = p[2] - p[1]
  <2> DEFINE v == WrittenAt(e[p[1]])
             w == WrittenAt(e[p[2]])
  <2>1. p[1] \in Spans(bundle) /\ p[2] \in Spans(bundle) /\ p[1] \in Nat /\ p[2] \in Nat
    BY <1>1, PairsAre, SpansAre
  <2>2. /\ v \in LogSpans /\ log[v] = e[p[1]] /\ v \in Nat
        /\ w \in LogSpans /\ log[w] = e[p[2]] /\ w \in Nat
    BY <1>3, <2>1
  <2>3. /\ e[p[2]].beat = e[p[1]].beat + 1 /\ e[p[2]].count = p[2] - p[1] - 1
        /\ e[p[1]].beat \in Int /\ e[p[1]].beat >= 1
    BY <1>1, <1>2, <2>1, PairFollows, SpansAre
  <2> HIDE DEF v, w
  <2>4. log[w].beat > 1 /\ log[w].beat - 1 = log[v].beat
    BY <2>2, <2>3
  <2>5. PICK m \in LogSpans : m < w /\ log[m].beat = log[w].beat - 1 /\ log[w].count = w - m - 1
    BY <1>1, <2>2, <2>4 DEF BeatsInv
  <2>6. m = v
    BY <1>1, <2>2, <2>4, <2>5, BeatsDiffer
  <2>7. w - v - 1 = p[2] - p[1] - 1
    BY <2>2, <2>3, <2>5, <2>6
  <2>8. w - v = p[2] - p[1]
    BY <2>1, <2>2, <2>7
  <2> QED BY <2>8 DEF v, w
<1>5. ASSUME NEW n \in Spans(bundle), e[n].beat = 1 PROVE WrittenAt(e[n]) = n
  <2> DEFINE w == WrittenAt(e[n])
  <2>1. \A m \in Spans(bundle) : m >= n
    <3> SUFFICES ASSUME NEW m \in Spans(bundle), <<m, n>> \in Pairs(bundle) PROVE FALSE
      BY <1>1, FirstOrPaired
    <3> DEFINE p == <<m, n>>
    <3>1. p[1] = m /\ p[2] = n
      OBVIOUS
    <3> HIDE DEF p
    <3>2. p \in Pairs(bundle)
      BY DEF p
    <3>3. e[n].beat = e[m].beat + 1 /\ e[m].beat >= 1 /\ e[m].beat \in Int
      BY <1>1, <1>2, <3>1, <3>2, PairFollows, SpansAre
    <3> QED BY <3>3, <1>5
  <2>2. e[n].count = n - 1
    <3>1. ~FirstFalse(bundle)
      BY <1>2 DEF SpansHold
    <3> QED BY <3>1, <2>1, <1>5 DEF FirstFalse
  <2>3. w \in LogSpans /\ log[w] = e[n] /\ w \in Nat /\ n \in Nat
    BY <1>1, <1>3, SpansAre
  <2> HIDE DEF w
  <2>4. e[n].count = w - 1
    BY <1>1, <1>5, <2>3 DEF BeatsInv
  <2>5. w = n
    BY <2>2, <2>3, <2>4
  <2> QED BY <2>5 DEF w
<1> QED BY <1>4, <1>5

\* The counts of a passing bundle are those of the log it was cut from
\* (checkSpanFirst, checkSpanPairs): with its beats as written, no entry is gone
\* from between two of them, nor a beat from between two others.
THEOREM NothingTakenOut == Spec => []PopulationKept
<1>1. TimedInv => PopulationKept
  BY PopulationHolds
<1> QED BY TimedInvHolds, <1>1, PTL

-----------------------------------------------------------------------------
(* Types. *)

LEMMA DivNat ==
  ASSUME NEW x \in Int, NEW y \in Int, y >= 1
  PROVE  x \div y \in Int
  OBVIOUS

LEMMA CadenceOf ==
  ASSUME WindowInv, NEW p \in Pairs(bundle)
  PROVE  /\ Cadence(bundle, p) \in Int /\ Cadence(bundle, p) >= 1
         /\ Interval(bundle, p) \in Int
<1>1. /\ bundle.entries[p[1]].cadence \in Int /\ bundle.entries[p[1]].cadence >= 1
      /\ bundle.entries[p[1]].at \in Int /\ bundle.entries[p[2]].at \in Int
  BY PairsAre, SpansAre
<1>2. Second \in Int /\ Second >= 1
  BY TicksAssumption
<1>3. \A x, y \in Int : x >= 1 /\ y >= 1 => x * y \in Int /\ x * y >= 1
  OBVIOUS
<1>4. Cadence(bundle, p) \in Int /\ Cadence(bundle, p) >= 1
  BY <1>1, <1>2, <1>3 DEF Cadence
<1>5. Interval(bundle, p) \in Int
  BY <1>1 DEF Interval
<1> QED BY <1>4, <1>5

LEMMA MissedWindowsIs ==
  ASSUME NEW d \in Int, NEW c \in Int, c >= 1
  PROVE  /\ MissedWindows(d, c) \in Nat
         /\ MissedWindows(d, c) = LET w == (d + c \div 2) \div c - 1 IN IF w >= 0 THEN w ELSE 0
<1> DEFINE w == (d + c \div 2) \div c - 1
<1>1. w \in Int
  <2>1. c \div 2 \in Int
    OBVIOUS
  <2>2. d + c \div 2 \in Int
    BY <2>1
  <2>3. (d + c \div 2) \div c \in Int
    BY <2>2, DivNat
  <2> QED BY <2>3
<1>2. MissedWindows(d, c) = Max({w, 0})
  BY DEF MissedWindows
<1> HIDE DEF w
<1>3. Max({w, 0}) = IF w >= 0 THEN w ELSE 0
  BY <1>1, MaxOfTwo
<1>4. MissedWindows(d, c) \in Nat
  BY <1>1, <1>2, <1>3
<1> QED BY <1>2, <1>3, <1>4 DEF w

LEMMA MissedFinite ==
  ASSUME WindowInv
  PROVE  IsFiniteSet(Missed(bundle)) /\ IsFiniteSet(Gaps(bundle))
<1> DEFINE W(p) == MissedWindows(Interval(bundle, p), Cadence(bundle, p))
           R(p) == {p} \X (1 .. W(p))
           F == {R(p) : p \in Gaps(bundle)}
<1>1. IsFiniteSet(Pairs(bundle)) /\ IsFiniteSet(Gaps(bundle))
  <2>1. IsFiniteSet(Spans(bundle) \X Spans(bundle))
    BY SpansAre, FS_Product
  <2>2. Pairs(bundle) \in SUBSET (Spans(bundle) \X Spans(bundle))
    BY PairsAre
  <2>3. Gaps(bundle) \in SUBSET Pairs(bundle)
    BY DEF Gaps
  <2> QED BY <2>1, <2>2, <2>3, FS_Subset
<1>2. IsFiniteSet(F)
  <2> DEFINE f == [p \in Gaps(bundle) |-> R(p)]
  <2>1. f \in [Gaps(bundle) -> F] /\ \A r \in F : \E p \in Gaps(bundle) : f[p] = r
    OBVIOUS
  <2>2. f \in Surjection(Gaps(bundle), F)
    BY <2>1 DEF Surjection
  <2> HIDE DEF f, F
  <2> QED BY <1>1, <2>2, FS_Surjection
<1>3. \A r \in F : IsFiniteSet(r)
  <2> SUFFICES ASSUME NEW p \in Gaps(bundle) PROVE IsFiniteSet(R(p))
    OBVIOUS
  <2>1. p \in Pairs(bundle)
    BY DEF Gaps
  <2>2. W(p) \in Int
    BY <2>1, CadenceOf, MissedWindowsIs
  <2> HIDE DEF W
  <2>3. IsFiniteSet(1 .. W(p))
    BY <2>2, FS_Interval
  <2>4. IsFiniteSet({p})
    BY FS_Singleton
  <2> QED BY <2>3, <2>4, FS_Product
<1>4. Missed(bundle) = UNION F
  BY DEF Missed
<1> HIDE DEF F
<1> QED BY <1>1, <1>2, <1>3, <1>4, FS_UNION

LEMMA TypesHold ==
  ASSUME TimedInv
  PROVE  TypeOK
<1>1. LogInv /\ LedgerInv /\ BundleInv /\ ReportInv
  BY DEF TimedInv
<1>2. profile \in Profiles /\ clock \in Int /\ due \in Int /\ backs \in 0 .. MaxBacks
  BY <1>1 DEF LogInv
<1>3. Len(log) \in 0 .. MaxEntries /\ Len(ticks) \in 0 .. Len(log)
  <2>1. Len(log) \in Nat /\ Len(ticks) \in Nat
    BY <1>1 DEF LogInv
  <2>2. Len(log) <= MaxEntries /\ Len(ticks) <= Len(log)
    BY <1>1 DEF LogInv
  <2> DEFINE l == Len(log)
             t == Len(ticks)
  <2> HIDE DEF l, t
  <2>3. l \in 0 .. MaxEntries /\ t \in 0 .. l
    BY <2>1, <2>2, BoundsAssumption DEF l, t
  <2> QED BY <2>3 DEF l, t
<1>4. Cardinality(ledger) \in 0 .. MaxTokens
  <2>1. Cardinality(ledger) \in Nat /\ Cardinality(ledger) <= MaxTokens
    BY <1>1, FS_CardinalityType DEF LedgerInv
  <2> QED BY <2>1, BoundsAssumption
<1>5. phase \in {"idle", "transit", "done"} /\ genuine \in BOOLEAN /\ edits \in 0 .. MaxEdits
  BY <1>1, Zenon DEF BundleInv
<1> DEFINE ReportTypes ==
             /\ {report.ok, report.spanned, report.span.present, report.span.ok} \subseteq BOOLEAN
             /\ report.anchored \in {"no", "by reference", "proof verified"}
             /\ {report.span.beats, report.span.windows} \subseteq Nat
             /\ {report.age, report.window} \subseteq Nat \union {NoFigure}
<1>6. ASSUME phase # "done" PROVE ReportTypes
  <2>1. report = NoReport
    BY <1>1, <1>6, Zenon DEF ReportInv
  <2>2. /\ report.ok = FALSE /\ report.anchored = "no" /\ report.spanned = FALSE
        /\ report.span = NoSpan /\ report.age = NoFigure /\ report.window = NoFigure
    BY <2>1 DEF NoReport
  <2>3. NoSpan.present = FALSE /\ NoSpan.ok = FALSE /\ NoSpan.beats = 0 /\ NoSpan.windows = 0
    BY DEF NoSpan
  <2>4. /\ report.ok \in BOOLEAN /\ report.spanned \in BOOLEAN
        /\ report.span.present \in BOOLEAN /\ report.span.ok \in BOOLEAN
    BY <2>2, <2>3, Zenon
  <2>5. /\ report.anchored \in {"no", "by reference", "proof verified"}
        /\ report.age \in Nat \union {NoFigure} /\ report.window \in Nat \union {NoFigure}
        /\ report.span.beats \in Nat /\ report.span.windows \in Nat
    BY <2>2, <2>3
  <2> QED BY <2>4, <2>5, Zenon
<1>7. ASSUME phase = "done" PROVE ReportTypes
  <2>1. WindowInv /\ report.span = CheckSpan(bundle)
    BY <1>7, ReportIs
  <2>2. report.ok \in BOOLEAN /\ report.spanned \in BOOLEAN
    BY <1>7, ReportIs, Zenon
  <2>3. report.span.present \in BOOLEAN /\ report.span.ok \in BOOLEAN
    BY <2>1, CheckSpanIs, Zenon
  <2>4. report.anchored \in {"no", "by reference", "proof verified"}
    <3>1. AnchoredWord(bundle) \in {"no", "by reference", "proof verified"}
      BY DEF AnchoredWord
    <3> QED BY <3>1, <1>7, ReportIs, Zenon
  <2>5. report.age \in Nat \union {NoFigure} /\ report.window \in Nat \union {NoFigure}
    BY <2>1, <1>7, ReportIs, AgeIs, WindowIs
  <2>6. report.span.beats \in Nat /\ report.span.windows \in Nat
    <3>1. Cardinality(Spans(bundle)) \in Nat /\ Cardinality(Missed(bundle)) \in Nat
      BY <2>1, SpansAre, MissedFinite, FS_CardinalityType
    <3>2. CASE SpansShown(bundle) = {} \/ bundle.profile = Merkle
      <4>1. CheckSpan(bundle).beats = 0 /\ CheckSpan(bundle).windows = 0
        BY <3>2, CheckSpanIs
      <4> QED BY <4>1, <2>1
    <3>3. CASE SpansShown(bundle) # {} /\ bundle.profile # Merkle
      <4>1. /\ CheckSpan(bundle).beats = Cardinality(Spans(bundle))
            /\ CheckSpan(bundle).windows = Cardinality(Spans(bundle)) + Cardinality(Missed(bundle))
        BY <3>3, CheckSpanIs
      <4> QED BY <4>1, <2>1, <3>1
    <3> QED BY <3>2, <3>3
  <2>7. ReportTypes
    BY <2>2, <2>3, <2>4, <2>5, <2>6, Zenon
  <2> QED BY <2>7, Zenon
<1>8. ReportTypes
  BY <1>6, <1>7, Zenon
<1> HIDE DEF ReportTypes
<1>9. TypeOK <=> /\ profile \in Profiles /\ Len(log) \in 0 .. MaxEntries /\ Len(ticks) \in 0 .. Len(log)
                 /\ {clock, due} \subseteq Int /\ backs \in 0 .. MaxBacks /\ edits \in 0 .. MaxEdits
                 /\ Cardinality(ledger) \in 0 .. MaxTokens
                 /\ phase \in {"idle", "transit", "done"} /\ genuine \in BOOLEAN /\ ReportTypes
  BY DEF TypeOK, ReportTypes
<1>10. {clock, due} \subseteq Int
  BY <1>2
<1> QED BY <1>2, <1>3, <1>4, <1>5, <1>8, <1>9, <1>10, Zenon

\* Every variable of TimedLog has its type, the report's figures among them: no
\* age, window or count of windows is negative, whatever times a bundle states
\* (measureAttestationAge, measureUnanchored, missedWindows).
THEOREM TimedTypes == Spec => []TypeOK
<1>1. TimedInv => TypeOK
  BY TypesHold
<1> QED BY TimedInvHolds, <1>1, PTL

-----------------------------------------------------------------------------
(* A window as it was cut. *)

Honest == LogInv /\ BeatsInv /\ ScheduleInv /\ LedgerInv /\ WindowInv /\ GenuineInv /\ backs = 0

\* Every span claim the producer wrote reads, under a profile that has any.
LEMMA HonestSpans ==
  ASSUME Honest
  PROVE  /\ bundle.entries = log /\ bundle.profile = profile
         /\ SpansShown(bundle) = LogSpans \intersect Shown
         /\ profile # NoChain => Spans(bundle) = SpansShown(bundle)
         /\ \A n \in LogSpans : /\ n \in Nat /\ n \in DOMAIN log
                                /\ log[n].beat \in Int /\ log[n].beat >= 1 /\ log[n].at \in Int
                                /\ log[n].count \in Int /\ log[n].cadence \in Cadences
<1>1. bundle.entries = log /\ bundle.profile = profile /\ LogInv /\ WindowInv
  BY DEF Honest, GenuineInv, WindowInv
<1>2. \A n \in Shown : n \in DOMAIN log
  <2>1. /\ bundle.from \in Nat /\ bundle.to \in Nat /\ bundle.top \in Nat
        /\ 1 <= bundle.from /\ bundle.to <= bundle.top /\ bundle.top <= Len(log)
        /\ DOMAIN log = 1 .. Len(log) /\ Len(log) \in Nat
    BY <1>1, LogClaims DEF WindowInv
  <2> DEFINE l == Len(log)
  <2> HIDE DEF l
  <2>2. \A n \in bundle.from .. bundle.to : n \in 1 .. l
    BY <2>1 DEF l
  <2> QED BY <2>1, <2>2 DEF Shown, l
<1>3. SpansShown(bundle) = LogSpans \intersect Shown
  <2>1. SpansShown(bundle) = {n \in Shown : log[n].kind = "span"}
    BY <1>1 DEF SpansShown, Shown
  <2> QED BY <2>1, <1>2 DEF LogSpans
<1>4. \A n \in LogSpans : /\ n \in Nat /\ n \in DOMAIN log /\ WellWritten(log[n]) /\ log[n].kind = "span"
                          /\ log[n].beat \in Int /\ log[n].at \in Int /\ log[n].count \in Int
  BY <1>1, LogClaims DEF LogSpans, LogInv
<1>5. \A n \in LogSpans : /\ log[n].beat >= 1 /\ log[n].cadence \in Cadences /\ log[n].count >= 0
                          /\ log[n].stream = "chain" /\ ~log[n].variant /\ log[n].path = SpanPath(log[n])
  BY <1>4 DEF WellWritten
<1>6. ASSUME profile # NoChain, NEW n \in SpansShown(bundle) PROVE Usable(bundle, n)
  <2>1. n \in LogSpans
    BY <1>3
  <2>2. Parses(bundle, log[n])
    BY <1>1, <1>5, <1>6, <2>1, ScheduleAssumption DEF Parses
  <2>3. PathHolds(log[n])
    BY <1>5, <2>1 DEF PathHolds
  <2> QED BY <1>1, <2>2, <2>3 DEF Usable
<1> QED BY <1>1, <1>3, <1>4, <1>5, <1>6 DEF Spans

\* Neighbours in a window are neighbours in the log, and on the schedule.
LEMMA HonestPair ==
  ASSUME Honest, profile # NoChain, NEW p \in Pairs(bundle)
  PROVE  LET m == p[1]
             n == p[2]
             k == ticks[log[n].beat] - ticks[log[m].beat]
         IN  /\ m \in LogSpans /\ n \in LogSpans /\ m < n
             /\ log[n].beat = log[m].beat + 1 /\ log[n].count = n - m - 1
             /\ k \in Int /\ k >= 1
             /\ \E d \in Int : Slight(d) /\ Interval(bundle, p) = k * Cadence(bundle, p) + d
<1> DEFINE m == p[1]
           n == p[2]
           k == ticks[log[n].beat] - ticks[log[m].beat]
<1>1. /\ m \in Spans(bundle) /\ n \in Spans(bundle) /\ m < n
      /\ \A x \in Spans(bundle) : x <= m \/ x >= n
  BY PairsAre
<1>2. /\ Spans(bundle) = LogSpans \intersect Shown /\ bundle.entries = log
      /\ m \in LogSpans /\ n \in LogSpans /\ m \in Shown /\ n \in Shown
  BY <1>1, HonestSpans
<1>3. /\ m \in Nat /\ n \in Nat /\ log[m].beat \in Int /\ log[m].beat >= 1
      /\ log[n].beat \in Int /\ log[n].beat >= 1
      /\ log[m].at \in Int /\ log[n].at \in Int /\ log[m].cadence \in Cadences
  BY <1>2, HonestSpans
<1>4. BeatsInv /\ ScheduleInv /\ LogInv /\ backs = 0 /\ WindowInv
  BY DEF Honest
<1> HIDE DEF m, n
<1>5. log[m].beat < log[n].beat
  BY <1>1, <1>2, <1>4 DEF BeatsInv
<1>6. log[n].beat > 1
  BY <1>3, <1>5
<1>7. PICK x \in LogSpans : x < n /\ log[x].beat = log[n].beat - 1 /\ log[n].count = n - x - 1
  BY <1>2, <1>4, <1>6 DEF BeatsInv
<1>8. x = m
  <2>1. x \in Nat /\ log[x].beat \in Int
    BY HonestSpans
  <2>2. ~(x < m)
    <3>1. x < m => log[x].beat < log[m].beat
      BY <1>2, <1>4 DEF BeatsInv
    <3> QED BY <3>1, <2>1, <1>3, <1>5, <1>7
  <2>3. x \in Shown
    <3>1. bundle.from \in Nat /\ bundle.to \in Nat
      BY <1>4 DEF WindowInv
    <3> QED BY <3>1, <2>1, <2>2, <1>2, <1>3, <1>7 DEF Shown
  <2>4. x <= m \/ x >= n
    BY <1>1, <1>2, <2>3
  <2> QED BY <2>1, <2>2, <2>4, <1>3, <1>7
<1>9. log[n].beat = log[m].beat + 1 /\ log[n].count = n - m - 1
  BY <1>3, <1>7, <1>8
<1>10. k \in Int /\ k >= 1
  <2>1. ticks \in Seq(Nat)
    BY <1>4 DEF LogInv
  <2>2. DOMAIN ticks = 1 .. Len(ticks) /\ Len(ticks) \in Nat /\ \A i \in DOMAIN ticks : ticks[i] \in Nat
    BY <2>1
  <2>3. log[n].beat <= Len(ticks)
    BY <1>2, <1>4 DEF BeatsInv
  <2> DEFINE b == Len(ticks)
             i == log[m].beat
             j == log[n].beat
  <2>4. i \in 1 .. b /\ j \in 1 .. b
    <3>1. i \in Int /\ i >= 1 /\ j = i + 1 /\ j <= b /\ b \in Nat
      BY <1>3, <1>9, <2>2, <2>3
    <3> HIDE DEF i, j, b
    <3> QED BY <3>1
  <2>5. ticks[i] \in Nat /\ ticks[j] \in Nat /\ ticks[i] < ticks[j]
    <3>1. i \in DOMAIN ticks /\ j \in DOMAIN ticks /\ i < j
      BY <2>2, <2>4, <1>5
    <3> QED BY <3>1, <2>2, <1>4 DEF ScheduleInv
  <2>6. k = ticks[j] - ticks[i]
    OBVIOUS
  <2> HIDE DEF i, j, k
  <2> QED BY <2>5, <2>6
<1> DEFINE g == log[m].cadence * Second
           d == log[n].at - log[m].at - k * g
<1>11. g \in Int /\ k * g \in Int
  <2>1. log[m].cadence \in Int /\ Second \in Int
    <3>1. Cadences \subseteq 1 .. Year
      BY ScheduleAssumption
    <3>2. Year \in Int /\ Second \in Int
      BY TicksAssumption
    <3>3. \A c \in 1 .. Year : c \in Int
      BY <3>2
    <3> QED BY <3>1, <3>2, <3>3, <1>3
  <2>2. g \in Int
    BY <2>1
  <2> HIDE DEF g, k
  <2>3. k * g \in Int
    BY <2>2, <1>10
  <2> QED BY <2>2, <2>3
<1>12. Slight(d)
  <2>1. OnSchedule(m, n)
    BY <1>2, <1>4, <1>9 DEF ScheduleInv
  <2> QED BY <2>1 DEF OnSchedule
<1>13. Interval(bundle, p) = log[n].at - log[m].at /\ Cadence(bundle, p) = g
  BY <1>2 DEF Interval, Cadence, m, n
<1>14. d \in Int /\ Interval(bundle, p) = k * g + d
  <2> DEFINE kg == k * g
             v == log[n].at
             w == log[m].at
  <2>1. kg \in Int /\ v \in Int /\ w \in Int /\ d = v - w - kg /\ Interval(bundle, p) = v - w
    BY <1>3, <1>11, <1>13
  <2> HIDE DEF kg, v, w, d
  <2>2. d \in Int /\ Interval(bundle, p) = kg + d
    BY <2>1
  <2> QED BY <2>2 DEF kg
<1>15. \E z \in Int : Slight(z) /\ Interval(bundle, p) = k * Cadence(bundle, p) + z
  <2> HIDE DEF d, g, k
  <2> QED BY <1>12, <1>13, <1>14
<1> QED BY <1>1, <1>2, <1>9, <1>10, <1>15 DEF m, n

\* A multiple of a cadence, a little off, is positive, and past the cadence when
\* it is two or more.
LEMMA OffByLittle ==
  ASSUME NEW k \in Int, NEW g \in Int, NEW d \in Int, k >= 1, g >= 1, -g < 2 * d
  PROVE  /\ k * g \in Int /\ k * g + d > 0
         /\ k >= 2 => k * g + d >= g + g + d
<1>1. k * g \in Int
  OBVIOUS
<1>2. (k - 1) * g >= 0 /\ (k - 1) * g = k * g - g
  OBVIOUS
<1>3. k >= 2 => (k - 2) * g >= 0 /\ (k - 2) * g = k * g - g - g
  OBVIOUS
<1> DEFINE kg == k * g
<1>4. kg \in Int /\ kg - g >= 0 /\ (k >= 2 => kg - g - g >= 0)
  BY <1>1, <1>2, <1>3
<1> HIDE DEF kg
<1>5. kg + d > 0 /\ (k >= 2 => kg + d >= g + g + d)
  BY <1>4
<1> QED BY <1>1, <1>5 DEF kg

\* The cadence of a beat the log wrote.
LEMMA HonestCadence ==
  ASSUME Honest, profile # NoChain, NEW p \in Pairs(bundle)
  PROVE  /\ log[p[1]].cadence \in Cadences
         /\ Cadence(bundle, p) = log[p[1]].cadence * Second
         /\ Cadence(bundle, p) \in Int /\ Cadence(bundle, p) >= 1
         /\ Interval(bundle, p) \in Int
<1>1. WindowInv /\ bundle.entries = log
  BY HonestSpans DEF Honest
<1>2. p[1] \in LogSpans
  BY HonestPair
<1> QED BY <1>1, <1>2, CadenceOf, HonestSpans DEF Cadence

LEMMA HonestSpansHold ==
  ASSUME Honest, profile # NoChain
  PROVE  SpansHold(bundle)
<1>1. WindowInv /\ bundle.entries = log /\ bundle.profile = profile
      /\ Spans(bundle) = SpansShown(bundle) /\ SpansShown(bundle) \subseteq LogSpans
  BY HonestSpans DEF Honest
<1>2. \A n \in SpansShown(bundle) : Usable(bundle, n)
  BY <1>1 DEF Spans
<1>3. ~FirstFalse(bundle)
  <2>1. \A n \in Spans(bundle) : log[n].beat = 1 => log[n].count = n - 1
    BY <1>1 DEF Honest, BeatsInv
  <2> QED BY <1>1, <2>1 DEF FirstFalse
<1>4. ASSUME NEW p \in Pairs(bundle) PROVE ~PairFails(bundle, p)
  <2>1. ~MissingBeat(bundle, p) /\ ~Miscounted(bundle, p)
    BY <1>1, HonestPair DEF MissingBeat, Miscounted
  <2> DEFINE k == ticks[log[p[2]].beat] - ticks[log[p[1]].beat]
             g == Cadence(bundle, p)
  <2>2. k \in Int /\ k >= 1
    BY HonestPair
  <2>3. PICK d \in Int : Slight(d) /\ Interval(bundle, p) = k * g + d
    BY HonestPair
  <2>4. g \in Int /\ g >= 1 /\ -g < 2 * d
    BY <2>3, HonestCadence DEF Slight
  <2> HIDE DEF k, g
  <2>5. k * g + d > 0 /\ k * g \in Int
    BY <2>2, <2>3, <2>4, OffByLittle
  <2> DEFINE kg == k * g
  <2>6. ~(Interval(bundle, p) <= 0)
    <3>1. kg \in Int /\ kg + d > 0 /\ Interval(bundle, p) = kg + d
      BY <2>3, <2>5
    <3> HIDE DEF kg
    <3> QED BY <3>1, <2>3
  <2>7. ~Stalled(bundle, p)
    BY <2>6 DEF Stalled
  <2> QED BY <2>1, <2>7 DEF PairFails
<1> QED BY <1>1, <1>2, <1>3, <1>4 DEF SpansHold

\* Every anchor of an honest bundle is matched or declared, and every token on a
\* matched one holds when its authority is no further behind than the skew.
LEMMA HonestAnchors ==
  ASSUME Honest, \A x \in bundle.anchors : x.type = "rfc3161" /\ x.seq <= bundle.to => x.lag <= Skew
  PROVE  /\ AnchorsOK(bundle)
         /\ bundle.anchors # {} => profile \in Linear
<1>1. /\ WindowInv /\ bundle.entries = log /\ bundle.profile = profile
      /\ bundle.anchors \subseteq ledger /\ LedgerInv /\ backs = 0 /\ LogInv
      /\ \A a \in bundle.anchors : a.seq \in (bundle.from .. bundle.to) \union {bundle.top}
  BY HonestSpans DEF Honest, GenuineInv
<1>2. bundle.from \in Nat /\ bundle.to \in Nat /\ bundle.top \in Nat /\ bundle.to <= bundle.top
      /\ bundle.from <= bundle.to
  BY <1>1 DEF WindowInv
<1>3. bundle.anchors # {} => profile \in Linear
  BY <1>1 DEF LedgerInv
<1>4. ASSUME NEW a \in bundle.anchors PROVE Matches(bundle, a) \/ Declared(bundle, a)
  <2>1. a.link = LinkAt(bundle.profile, bundle.entries, a.seq)
    BY <1>1, <1>4 DEF LedgerInv, OfLog
  <2>2. CASE a.seq \in bundle.from .. bundle.to
    BY <2>1, <2>2 DEF Matches
  <2>3. CASE a.seq \notin bundle.from .. bundle.to
    <3>1. a.seq = bundle.top
      BY <1>1, <1>4, <2>3
    <3>2. bundle.top > bundle.to
      BY <1>2, <2>3, <3>1
    <3> QED BY <2>1, <3>1, <3>2 DEF Declared
  <2> QED BY <2>2, <2>3
<1>5. ASSUME NEW a \in Opened(bundle) PROVE a \in Holding(bundle)
  <2>1. a \in bundle.anchors /\ a \in ledger /\ a.type = "rfc3161" /\ a.seq \in bundle.from .. bundle.to
    BY <1>1, <1>5 DEF Opened, Matched, Matches
  <2>2. a.holds /\ a.lag \in Int /\ a.time \in Int /\ a.seq \in DOMAIN log
        /\ log[a.seq].at <= a.time + a.lag
    BY <1>1, <2>1 DEF LedgerInv, OfLog
  <2>3. a.lag <= Skew
    BY <1>2, <2>1
  <2>4. log[a.seq].at \in Int /\ Skew \in Int
    <3>1. log[a.seq].at \in Int
      BY <1>1, <2>2, LogClaims
    <3> QED BY <3>1, TicksAssumption
  <2> DEFINE v == log[a.seq].at
             w == a.time
             z == a.lag
  <2>5. ~(w < v - Skew)
    <3>1. v \in Int /\ w \in Int /\ z \in Int /\ Skew \in Int /\ v <= w + z /\ z <= Skew
      BY <2>2, <2>3, <2>4
    <3> HIDE DEF v, w, z
    <3> QED BY <3>1
  <2>6. ~Precedes(bundle, a)
    BY <1>1, <2>5 DEF Precedes
  <2> QED BY <1>5, <2>2, <2>6 DEF Holding
<1>6. bundle.profile = NoChain => bundle.anchors = {}
  BY <1>1, <1>3 DEF Linear, NoChain
<1> QED BY <1>3, <1>4, <1>5, <1>6 DEF AnchorsOK

LEMMA HonestTimesHold ==
  ASSUME TimedInv
  PROVE  HonestTimesVerify
<1> DEFINE A == {x \in bundle.anchors : x.seq <= bundle.to}
           T == {x \in A : x.type = "rfc3161"}
           beats == \E n \in Shown : log[n].kind = "span"
           lags == \A x \in T : x.lag <= Skew
           c1 == report.ok <=> (profile \in Linear \/ ~beats)
           c2 == report.anchored = IF T # {} THEN "proof verified"
                                   ELSE IF A # {} THEN "by reference" ELSE "no"
           c3 == report.spanned <=> (A # {} /\ beats)
<1>1. ASSUME Done, genuine, backs = 0, lags PROVE c1 /\ c2 /\ c3
  <2>1. Honest
    BY <1>1 DEF Honest, TimedInv, BundleInv, Done
  <2>2. WindowInv /\ phase = "done" /\ LogInv
    BY <1>1, <2>1 DEF Honest, Done
  <2>3. \A x \in bundle.anchors : x.type = "rfc3161" /\ x.seq <= bundle.to => x.lag <= Skew
    BY <1>1
  <2>4. AnchorsOK(bundle) /\ (bundle.anchors # {} => profile \in Linear)
    BY <2>1, <2>3, HonestAnchors
  <2>5. T = Holding(bundle) /\ A = Matched(bundle)
    BY <2>2, <2>4, TokensHold
  <2>6. beats <=> SpansShown(bundle) # {}
    BY <2>1, HonestSpans DEF SpansShown, Shown
  <2>7. bundle.profile = profile
    BY <2>1, HonestSpans
  <2>8. profile \in Linear => profile # NoChain /\ profile # Merkle
    BY DEF Linear, Merkle, NoChain
  <2>9. profile \in Linear \/ profile = Merkle \/ profile = NoChain
    BY <2>2, ScheduleAssumption DEF LogInv
  <2>10. profile \in Linear => SpansHold(bundle)
    BY <2>1, <2>8, HonestSpansHold
  <2>11. profile = NoChain => ~SpansHold(bundle)
    BY <2>7 DEF SpansHold
  <2>12. A \subseteq bundle.anchors
    OBVIOUS
  <2>13. T \subseteq A
    OBVIOUS
  <2>14. AnchoredWord(bundle) = IF T # {} THEN "proof verified"
                                ELSE IF A # {} THEN "by reference" ELSE "no"
    BY <2>5 DEF AnchoredWord
  <2> HIDE DEF A, T, beats
  <2> DEFINE word == IF T # {} THEN "proof verified" ELSE IF A # {} THEN "by reference" ELSE "no"
             present == CheckSpan(bundle).present
             good == CheckSpan(bundle).ok
             lin == profile \in Linear
  <2>15. present <=> beats
    BY <2>6, CheckSpanIs, Zenon
  <2>16. beats => (good <=> lin)
    <3>1. good <=> beats /\ bundle.profile # Merkle /\ SpansHold(bundle)
      BY <2>6, CheckSpanIs, Zenon
    <3>2. lin => bundle.profile # Merkle /\ SpansHold(bundle)
      BY <2>7, <2>8, <2>10, Zenon
    <3>3. ~lin => bundle.profile = Merkle \/ ~SpansHold(bundle)
      BY <2>7, <2>9, <2>11, Zenon
    <3> QED BY <3>1, <3>2, <3>3, Zenon
  <2>17. Passes(bundle) <=> (lin \/ ~beats)
    <3>1. Passes(bundle) <=> (present => good)
      BY <2>4, Zenon DEF Passes
    <3> QED BY <3>1, <2>15, <2>16, Zenon
  <2>18. A # {} => lin
    BY <2>4, <2>12
  <2>19. A = {} => word = "no"
    BY <2>13
  <2>20. A # {} => word # "no"
    OBVIOUS
  <2>21. (lin \/ ~beats) \/ word = "no"
    BY <2>18, <2>19
  <2>22. report.ok <=> Passes(bundle)
    BY <2>2, ReportIs, Zenon
  <2>23. report.anchored = IF Passes(bundle) THEN AnchoredWord(bundle) ELSE "no"
    BY <2>2, ReportIs, Zenon
  <2>24. report.spanned <=> Passes(bundle) /\ Spanned(bundle)
    BY <2>2, ReportIs, Zenon
  <2>25. AnchoredWord(bundle) = word
    BY <2>14
  <2>26. Spanned(bundle) <=> word # "no" /\ present /\ good
    BY <2>25, Zenon DEF Spanned
  <2>27. c1
    BY <2>17, <2>22, Zenon
  <2>28. report.anchored = word
    <3>1. CASE Passes(bundle)
      BY <3>1, <2>23, <2>25, Zenon
    <3>2. CASE ~Passes(bundle)
      <4>1. word = "no"
        BY <3>2, <2>17, <2>21, Zenon
      <4> QED BY <4>1, <3>2, <2>23, Zenon
    <3> QED BY <3>1, <3>2, Zenon
  <2> HIDE DEF word, present, good, lin
  <2>29. c3
    BY <2>15, <2>16, <2>17, <2>18, <2>19, <2>20, <2>24, <2>26, Zenon
  <2> QED BY <2>27, <2>28, <2>29 DEF word
<1> QED BY <1>1 DEF HonestTimesVerify

\* Two clocks do not make a liar of an honest producer: a window cut from a log
\* that kept its schedule passes every check of times and beats, whatever the
\* cadences, the lateness of the timer and the order of the two clocks within
\* the skew, and earns the words its anchors bear (checkAnchors, checkSpan).
THEOREM HonestClocksPass == Spec => []HonestTimesVerify
<1>1. TimedInv => HonestTimesVerify
  BY HonestTimesHold
<1> QED BY TimedInvHolds, <1>1, PTL

-----------------------------------------------------------------------------
(* The schedule. *)

\* A non-empty set of natural numbers has a least element.
LEMMA HasMin ==
  ASSUME NEW S, S \subseteq Nat, S # {}
  PROVE  \E m \in S : \A x \in S : m <= x
<1>1. IsWellFoundedOn(OpToRel(<, Nat), Nat)
  BY NatLessThanWellFounded
<1>2. PICK m \in S : \A y \in S : ~ (<<y, m>> \in OpToRel(<, Nat))
  BY <1>1, WFMin, Zenon
<1>3. \A y \in S : ~(y < m)
  BY <1>2 DEF OpToRel
<1>4. \A y \in S : m <= y
  BY <1>3
<1> QED BY <1>4

LEMMA MinIs ==
  ASSUME NEW S, NEW m \in S, \A x \in S : m <= x, S \subseteq Int
  PROVE  Min(S) = m
<1>1. Min(S) = CHOOSE x \in S : \A y \in S : x =< y
  BY DEF Min
<1>2. \A x \in S : (\A y \in S : x =< y) => x = m
  OBVIOUS
<1> QED BY <1>1, <1>2

\* The neighbours of a set.
Next2(S) == {p \in S \X S : p[1] < p[2] /\ \A k \in S : k <= p[1] \/ k >= p[2]}

\* The numbers an increasing function skips between neighbours.
Skipped(S, t) == UNION {{p} \X (1 .. (t[p[2]] - t[p[1]] - 1)) : p \in Next2(S)}

LEMMA SkippedIs ==
  ASSUME NEW S, NEW t
  PROVE  \A z : z \in Skipped(S, t) <=>
           \E p \in Next2(S) : \E i \in 1 .. (t[p[2]] - t[p[1]] - 1) : z = <<p, i>>
<1> DEFINE R(p) == {p} \X (1 .. (t[p[2]] - t[p[1]] - 1))
<1>1. ASSUME NEW p \in Next2(S), NEW z
      PROVE  z \in R(p) <=> \E i \in 1 .. (t[p[2]] - t[p[1]] - 1) : z = <<p, i>>
  OBVIOUS
<1>2. \A z : z \in Skipped(S, t) <=> \E p \in Next2(S) : z \in R(p)
  <2> HIDE DEF R
  <2>1. Skipped(S, t) = UNION {R(p) : p \in Next2(S)}
    BY DEF Skipped, R
  <2> QED BY <2>1
<1> HIDE DEF R
<1> QED BY <1>1, <1>2

LEMMA NextIs ==
  ASSUME NEW S, NEW p \in Next2(S), S \subseteq Nat
  PROVE  /\ p = <<p[1], p[2]>> /\ p[1] \in S /\ p[2] \in S /\ p[1] < p[2]
         /\ p[1] \in Nat /\ p[2] \in Nat
         /\ \A k \in S : k <= p[1] \/ k >= p[2]
<1>1. p \in S \X S /\ p[1] < p[2] /\ \A k \in S : k <= p[1] \/ k >= p[2]
  BY DEF Next2
<1>2. p = <<p[1], p[2]>> /\ p[1] \in S /\ p[2] \in S
  BY <1>1
<1> QED BY <1>1, <1>2

\* The values of an increasing function and the numbers it skips make up the
\* interval from its least value to its greatest.
LEMMA IntervalCovered ==
  ASSUME NEW S, S \subseteq Nat, IsFiniteSet(S), S # {}, NEW t \in [S -> Int],
         \A m, n \in S : m < n => t[m] < t[n]
  PROVE  /\ IsFiniteSet(Skipped(S, t))
         /\ Cardinality(S) + Cardinality(Skipped(S, t)) = t[Max(S)] - t[Min(S)] + 1
<1>1. PICK lo \in S : \A x \in S : lo <= x
  BY HasMin
<1>2. S \subseteq Int
  OBVIOUS
<1>3. PICK hi : IsMax(S, hi)
  BY <1>2, HasMax
<1>4. Min(S) = lo /\ Max(S) = hi /\ hi \in S /\ \A x \in S : x <= hi
  BY <1>1, <1>2, <1>3, MinIs, MaxIs DEF IsMax
<1> DEFINE R == t[lo] .. t[hi]
           T1 == {t[n] : n \in S}
           M == Skipped(S, t)
           D == R \ T1
<1>5. /\ \A n \in S : n \in Nat /\ t[n] \in Int
      /\ \A m, n \in S : m <= n => t[m] <= t[n]
  <2>1. \A n \in S : n \in Nat /\ t[n] \in Int
    OBVIOUS
  <2>2. ASSUME NEW m \in S, NEW n \in S, m <= n PROVE t[m] <= t[n]
    <3>1. m = n \/ m < n
      BY <2>1, <2>2
    <3> QED BY <2>1, <3>1
  <2> QED BY <2>1, <2>2
<1>6. t[lo] \in Int /\ t[hi] \in Int /\ t[lo] <= t[hi]
  BY <1>1, <1>4, <1>5
<1>7. IsFiniteSet(R) /\ Cardinality(R) = t[hi] - t[lo] + 1
  BY <1>6, FS_Interval
<1>8. \A v : v \in T1 <=> \E n \in S : v = t[n]
  OBVIOUS
<1>9. T1 \subseteq R
  <2> SUFFICES ASSUME NEW n \in S PROVE t[n] \in R
    BY <1>8
  <2>1. t[n] \in Int /\ t[lo] <= t[n] /\ t[n] <= t[hi]
    BY <1>1, <1>4, <1>5
  <2> QED BY <2>1, <1>6
<1>10. IsFiniteSet(T1) /\ Cardinality(T1) = Cardinality(S)
  <2>1. t \in Injection(S, T1)
    <3>1. t \in [S -> T1]
      OBVIOUS
    <3>2. \A m, n \in S : t[m] = t[n] => m = n
      BY <1>5
    <3> QED BY <3>1, <3>2 DEF Injection, IsInjective
  <2>2. t \in Surjection(S, T1)
    BY <1>8, <2>1 DEF Surjection, Injection
  <2>3. ExistsBijection(S, T1)
    BY <2>1, <2>2 DEF ExistsBijection, Bijection
  <2> QED BY <2>3, FS_Bijection
<1> HIDE DEF T1
<1>11. IsFiniteSet(D) /\ Cardinality(D) = Cardinality(R) - Cardinality(T1)
  <2>1. R \cap T1 = T1
    BY <1>9
  <2> HIDE DEF R
  <2>2. IsFiniteSet(R)
    BY <1>7
  <2>3. IsFiniteSet(R \ T1) /\ Cardinality(R \ T1) = Cardinality(R) - Cardinality(R \cap T1)
    BY <2>2, FS_Difference
  <2> QED BY <2>1, <2>3
<1> DEFINE Of(z) == t[z[1][2]] - z[2]
           g == [z \in M |-> Of(z)]
<1>12. \A z : z \in M <=>
         \E p \in Next2(S) : \E i \in 1 .. (t[p[2]] - t[p[1]] - 1) : z = <<p, i>>
  BY SkippedIs
<1>13. \A p \in Next2(S) : /\ p = <<p[1], p[2]>> /\ p[1] \in S /\ p[2] \in S /\ p[1] < p[2]
                           /\ p[1] \in Nat /\ p[2] \in Nat
                           /\ t[p[1]] \in Int /\ t[p[2]] \in Int /\ t[p[1]] < t[p[2]]
                           /\ \A k \in S : k <= p[1] \/ k >= p[2]
  BY <1>5, NextIs
\* A skipped number lies strictly between two neighbouring values.
<1>14. ASSUME NEW p \in Next2(S), NEW i \in 1 .. (t[p[2]] - t[p[1]] - 1)
       PROVE  /\ Of(<<p, i>>) \in Int /\ i \in Int /\ Of(<<p, i>>) = t[p[2]] - i
              /\ t[p[1]] < Of(<<p, i>>) /\ Of(<<p, i>>) < t[p[2]]
  <2>1. Of(<<p, i>>) = t[p[2]] - i
    OBVIOUS
  <2>2. t[p[1]] \in Int /\ t[p[2]] \in Int
    BY <1>13
  <2>3. i \in Int /\ 1 <= i /\ i <= t[p[2]] - t[p[1]] - 1
    BY <2>2
  <2> QED BY <2>1, <2>2, <2>3
<1> HIDE DEF Of, M
<1>15. \A z \in M : Of(z) \in D
  <2> SUFFICES ASSUME NEW p \in Next2(S), NEW i \in 1 .. (t[p[2]] - t[p[1]] - 1)
               PROVE  Of(<<p, i>>) \in D
    BY <1>12
  <2> DEFINE v == Of(<<p, i>>)
  <2>1. v \in Int /\ t[p[1]] < v /\ v < t[p[2]]
    BY <1>14
  <2>2. t[lo] <= t[p[1]] /\ t[p[2]] <= t[hi] /\ t[p[1]] \in Int /\ t[p[2]] \in Int
    BY <1>1, <1>4, <1>5, <1>13
  <2>3. v \in R
    <3> HIDE DEF v
    <3> QED BY <1>6, <2>1, <2>2
  <2>4. v \notin T1
    <3> SUFFICES ASSUME NEW n \in S, v = t[n] PROVE FALSE
      BY <1>8
    <3>1. n <= p[1] \/ n >= p[2]
      BY <1>13
    <3>2. n <= p[1] => t[n] <= t[p[1]]
      BY <1>5, <1>13
    <3>3. n >= p[2] => t[p[2]] <= t[n]
      BY <1>5, <1>13
    <3>4. t[n] \in Int
      BY <1>5
    <3> HIDE DEF v
    <3> QED BY <2>1, <2>2, <3>1, <3>2, <3>3, <3>4
  <2> QED BY <2>3, <2>4
<1>16. \A y, z \in M : Of(y) = Of(z) => y = z
  <2> SUFFICES ASSUME NEW p \in Next2(S), NEW i \in 1 .. (t[p[2]] - t[p[1]] - 1),
                      NEW q \in Next2(S), NEW j \in 1 .. (t[q[2]] - t[q[1]] - 1),
                      Of(<<p, i>>) = Of(<<q, j>>)
               PROVE  <<p, i>> = <<q, j>>
    BY <1>12
  <2> DEFINE v == Of(<<p, i>>)
  <2>1. v \in Int /\ t[p[1]] < v /\ v < t[p[2]] /\ v = t[p[2]] - i /\ i \in Int
    BY <1>14
  <2>2. v \in Int /\ t[q[1]] < v /\ v < t[q[2]] /\ v = t[q[2]] - j /\ j \in Int
    BY <1>14
  <2> HIDE DEF v
  <2>3. /\ p[1] \in Nat /\ p[2] \in Nat /\ q[1] \in Nat /\ q[2] \in Nat
        /\ p = <<p[1], p[2]>> /\ q = <<q[1], q[2]>>
        /\ t[p[1]] \in Int /\ t[p[2]] \in Int /\ t[q[1]] \in Int /\ t[q[2]] \in Int
        /\ p[1] < p[2] /\ q[1] < q[2]
    BY <1>13
  <2>4. ~(p[2] <= q[1])
    <3>1. p[2] <= q[1] => t[p[2]] <= t[q[1]]
      BY <1>5, <1>13
    <3> QED BY <3>1, <2>1, <2>2, <2>3
  <2>5. ~(q[2] <= p[1])
    <3>1. q[2] <= p[1] => t[q[2]] <= t[p[1]]
      BY <1>5, <1>13
    <3> QED BY <3>1, <2>1, <2>2, <2>3
  <2>6. (p[2] <= q[1] \/ p[2] >= q[2]) /\ (p[1] <= q[1] \/ p[1] >= q[2])
    BY <1>13
  <2>7. (q[2] <= p[1] \/ q[2] >= p[2]) /\ (q[1] <= p[1] \/ q[1] >= p[2])
    BY <1>13
  <2>8. p[1] = q[1] /\ p[2] = q[2]
    BY <2>3, <2>4, <2>5, <2>6, <2>7
  <2>9. p = q
    BY <2>3, <2>8
  <2>10. i = j
    BY <2>1, <2>2, <2>3, <2>8
  <2> QED BY <2>9, <2>10
<1>17. \A v \in D : \E z \in M : Of(z) = v
  <2> SUFFICES ASSUME NEW v \in D PROVE \E z \in M : Of(z) = v
    OBVIOUS
  <2>1. v \in Int /\ t[lo] <= v /\ v <= t[hi] /\ \A n \in S : v # t[n]
    BY <1>6, <1>8
  <2> DEFINE U == {n \in S : t[n] >= v}
  <2>2. U \subseteq Nat /\ hi \in U
    BY <1>4, <1>5, <1>6, <2>1
  <2>3. PICK n \in U : \A x \in U : n <= x
    <3> HIDE DEF U
    <3> QED BY <2>2, HasMin
  <2>4. n \in S /\ t[n] > v /\ n \in Nat
    BY <1>5, <2>1, <2>3
  <2>5. \A x \in S : x < n => t[x] < v
    <3> SUFFICES ASSUME NEW x \in S, x < n PROVE t[x] < v
      OBVIOUS
    <3>1. x \notin U
      <4>1. x \in U => n <= x
        BY <2>3
      <4> HIDE DEF U
      <4> QED BY <4>1, <2>4, <1>5
    <3> QED BY <3>1, <1>5, <2>1
  <2> DEFINE L == {x \in S : x < n}
  <2>6. lo \in L
    <3>1. lo # n
      BY <2>1, <2>4, <1>6
    <3> QED BY <3>1, <1>1, <1>5, <2>4
  <2>7. L \in SUBSET S /\ L \subseteq Int /\ L # {}
    <3>1. \A x \in L : x \in S /\ x \in Int
      BY <1>5
    <3> HIDE DEF L
    <3> QED BY <3>1, <2>6
  <2>8. PICK m : IsMax(L, m)
    <3> HIDE DEF L
    <3>1. IsFiniteSet(L)
      BY <2>7, FS_Subset
    <3> QED BY <2>7, <3>1, HasMax
  <2>9. m \in S /\ m < n /\ m \in Nat /\ \A x \in S : x < n => x <= m
    BY <2>8, <1>5 DEF IsMax
  <2>10. \A x \in S : x <= m \/ x >= n
    BY <2>4, <2>9, <1>5
  <2> DEFINE p == <<m, n>>
             i == t[n] - v
  <2>11. p \in Next2(S) /\ p[1] = m /\ p[2] = n
    <3>1. p \in S \X S /\ p[1] = m /\ p[2] = n
      BY <2>4, <2>9
    <3> HIDE DEF p
    <3> QED BY <3>1, <2>9, <2>10 DEF Next2
  <2>12. t[m] < v /\ t[m] \in Int /\ t[n] \in Int
    BY <2>4, <2>5, <2>9, <1>5
  <2>13. i \in 1 .. (t[n] - t[m] - 1) /\ t[n] - i = v
    BY <2>1, <2>4, <2>12
  <2> HIDE DEF p, i
  <2>14. i \in 1 .. (t[p[2]] - t[p[1]] - 1)
    BY <2>11, <2>13
  <2>15. <<p, i>> \in M /\ Of(<<p, i>>) = v
    BY <1>12, <1>14, <2>11, <2>13, <2>14
  <2> QED BY <2>15
<1>18. ExistsBijection(M, D)
  <2>1. g \in [M -> D]
    BY <1>15
  <2>2. \A z \in M : g[z] = Of(z)
    OBVIOUS
  <2> HIDE DEF g, D
  <2>3. g \in Injection(M, D)
    BY <1>16, <2>1, <2>2 DEF Injection, IsInjective
  <2>4. g \in Surjection(M, D)
    BY <1>17, <2>1, <2>2 DEF Surjection
  <2> QED BY <2>3, <2>4 DEF ExistsBijection, Bijection
<1>19. ExistsBijection(D, M)
  BY <1>18, Fun_ExistsBijSymmetric
<1>20. IsFiniteSet(M) /\ Cardinality(M) = Cardinality(D)
  <2> HIDE DEF D
  <2> QED BY <1>11, <1>19, FS_Bijection
<1>21. Cardinality(S) \in Nat /\ Cardinality(M) \in Nat
  BY <1>20, FS_CardinalityType
<1> DEFINE a == t[lo]
           b == t[hi]
<1>22. Cardinality(S) + Cardinality(M) = b - a + 1
  <2>1. /\ Cardinality(M) = Cardinality(D) /\ Cardinality(D) = Cardinality(R) - Cardinality(T1)
        /\ Cardinality(T1) = Cardinality(S) /\ Cardinality(R) = b - a + 1
    BY <1>7, <1>10, <1>11, <1>20
  <2>2. a \in Int /\ b \in Int
    BY <1>6
  <2> HIDE DEF a, b, R, D
  <2> QED BY <2>1, <2>2, <1>21
<1> QED BY <1>4, <1>20, <1>22 DEF M

\* Rounded to the nearest, a multiple of a cadence a little off is the multiple.
LEMMA RoundedIs ==
  ASSUME NEW k \in Int, NEW g \in Int, NEW d \in Int, k >= 1, g >= 1, -g < 2 * d, 2 * d < g
  PROVE  MissedWindows(k * g + d, g) = k - 1
<1> DEFINE h == g \div 2
           r == d + h
           kg == k * g
<1>1. h \in Int /\ 2 * h <= g /\ g < 2 * h + 2
  OBVIOUS
<1>2. 0 <= r /\ r < g /\ r \in Int
  BY <1>1
<1>3. kg \in Int /\ kg + d \in Int
  OBVIOUS
<1> HIDE DEF h
<1>4. kg + d + h = kg + r
  BY <1>1, <1>3
<1> HIDE DEF r
<1>5. (k * g + r) \div g = k
  <2>1. \A q \in Int : q * g + r \in Int
    BY <1>2
  <2> QED BY <1>2
<1>6. (kg + d + h) \div g = k
  BY <1>4, <1>5
<1> HIDE DEF kg
<1>7. MissedWindows(kg + d, g) = LET w == (kg + d + g \div 2) \div g - 1 IN IF w >= 0 THEN w ELSE 0
  BY <1>3, MissedWindowsIs
<1>8. MissedWindows(kg + d, g) = LET w == k - 1 IN IF w >= 0 THEN w ELSE 0
  BY <1>6, <1>7 DEF h
<1>9. k - 1 >= 0
  OBVIOUS
<1> QED BY <1>8, <1>9 DEF kg

\* The slack of a cadence of two seconds or more is within half of it.
LEMMA SlackIsHalf ==
  ASSUME NEW c \in Int, c >= 2
  PROVE  LET g == c * Second
         IN  ScheduleSlack(g) \in Int /\ 2 * ScheduleSlack(g) <= g
<1> DEFINE g == c * Second
           h == g \div 100
<1>1. Second \in Int /\ Second >= 1
  BY TicksAssumption
<1>2. g \in Int /\ g >= Second + Second
  <2>1. (c - 2) * Second >= 0 /\ (c - 2) * Second = c * Second - Second - Second /\ c * Second \in Int
    BY <1>1
  <2> QED BY <2>1, <1>1
<1> HIDE DEF g
<1>3. h \in Int /\ 100 * h <= g
  BY <1>2
<1>4. h >= 0 /\ 2 * h <= g
  BY <1>1, <1>2, <1>3
<1>5. ScheduleSlack(g) = IF h >= Second THEN h ELSE Second
  <2>1. ScheduleSlack(g) = Max({h, Second})
    BY DEF ScheduleSlack
  <2> HIDE DEF h
  <2> QED BY <2>1, <1>1, <1>3, MaxOfTwo
<1> HIDE DEF h
<1>6. ScheduleSlack(g) \in Int /\ 2 * ScheduleSlack(g) <= g
  BY <1>1, <1>2, <1>3, <1>4, <1>5
<1> QED BY <1>6 DEF g

\* The firings between two neighbouring beats.
Firings(p) == ticks[log[p[2]].beat] - ticks[log[p[1]].beat]

\* The verifier makes of a pair what the schedule did.
LEMMA PairIsSchedule ==
  ASSUME Honest, profile # NoChain, \A c \in Cadences : c >= 2, NEW p \in Pairs(bundle)
  PROVE  /\ Firings(p) \in Int /\ Firings(p) >= 1
         /\ MissedWindows(Interval(bundle, p), Cadence(bundle, p)) = Firings(p) - 1
         /\ Firings(p) >= 2 => Gap(bundle, p)
<1> DEFINE k == Firings(p)
           g == Cadence(bundle, p)
           v == Interval(bundle, p)
<1>1. k \in Int /\ k >= 1
  BY HonestPair DEF Firings
<1>2. PICK d \in Int : Slight(d) /\ v = k * g + d
  BY HonestPair DEF Firings
<1>3. /\ log[p[1]].cadence \in Cadences /\ g = log[p[1]].cadence * Second
      /\ g \in Int /\ g >= 1 /\ v \in Int
  BY HonestCadence
<1>4. -g < 2 * d /\ 2 * d < g
  BY <1>2, <1>3 DEF Slight
<1>5. ScheduleSlack(g) \in Int /\ 2 * ScheduleSlack(g) <= g
  <2>1. log[p[1]].cadence \in Int
    <3>1. Year \in Int /\ Cadences \subseteq 1 .. Year
      BY TicksAssumption, ScheduleAssumption
    <3>2. \A c \in 1 .. Year : c \in Int
      BY <3>1
    <3>3. log[p[1]].cadence \in Cadences
      BY <1>3
    <3> QED BY <3>1, <3>2, <3>3
  <2>2. log[p[1]].cadence >= 2
    BY <1>3
  <2> QED BY <1>3, <2>1, <2>2, SlackIsHalf
<1> DEFINE s == ScheduleSlack(g)
<1> HIDE DEF k, g, v, s
<1>6. MissedWindows(v, g) = k - 1
  BY <1>1, <1>2, <1>3, <1>4, RoundedIs
<1>7. ASSUME k >= 2 PROVE v > g + s
  <2>1. k * g \in Int /\ k * g + d >= g + g + d
    BY <1>1, <1>3, <1>4, <1>7, OffByLittle
  <2>2. s \in Int /\ 2 * s <= g
    BY <1>5 DEF s
  <2> DEFINE kg == k * g
  <2>3. kg \in Int /\ v = kg + d /\ kg + d >= g + g + d
    BY <1>2, <2>1
  <2> HIDE DEF kg
  <2> QED BY <2>2, <2>3, <1>3, <1>4
<1>8. ASSUME k >= 2 PROVE Gap(bundle, p)
  <2>1. ~PairFails(bundle, p)
    BY HonestSpansHold DEF SpansHold
  <2>2. v > g + s
    BY <1>7, <1>8
  <2> QED BY <2>1, <2>2 DEF Gap, PairFails, v, g, s
<1> QED BY <1>1, <1>6, <1>8 DEF k, g, v

LEMMA MissedIs ==
  ASSUME NEW b
  PROVE  \A z : z \in Missed(b) <=>
           \E p \in Gaps(b) : \E i \in 1 .. MissedWindows(Interval(b, p), Cadence(b, p)) :
              z = <<p, i>>
<1> DEFINE W(p) == MissedWindows(Interval(b, p), Cadence(b, p))
           R(p) == {p} \X (1 .. W(p))
<1>1. ASSUME NEW p \in Gaps(b), NEW z
      PROVE  z \in R(p) <=> \E i \in 1 .. W(p) : z = <<p, i>>
  <2> HIDE DEF W
  <2> QED OBVIOUS
<1>2. \A z : z \in Missed(b) <=> \E p \in Gaps(b) : z \in R(p)
  <2> HIDE DEF R
  <2>1. Missed(b) = UNION {R(p) : p \in Gaps(b)}
    BY DEF Missed, R
  <2> QED BY <2>1
<1> HIDE DEF R
<1> QED BY <1>1, <1>2

LEMMA CoverageHolds ==
  ASSUME TimedInv, \A c \in Cadences : c >= 2
  PROVE  CoverageIsSchedule
<1> DEFINE s == Spans(bundle)
           tick(n) == ticks[bundle.entries[n].beat]
<1>1. ASSUME Done, genuine, backs = 0, report.span.ok
      PROVE  /\ report.span.windows = tick(Max(s)) - tick(Min(s)) + 1
             /\ \A p \in Pairs(bundle) : tick(p[2]) > tick(p[1]) + 1 => p \in report.span.gaps
  <2>1. Honest
    BY <1>1 DEF Honest, TimedInv, BundleInv, Done
  <2>2. /\ WindowInv /\ phase = "done" /\ report.span = CheckSpan(bundle)
        /\ bundle.entries = log /\ bundle.profile = profile
    BY <1>1, <2>1, ReportIs, HonestSpans DEF Honest, Done
  <2>3. SpansShown(bundle) # {} /\ bundle.profile # Merkle /\ SpansHold(bundle)
    <3>1. CheckSpan(bundle).ok
      BY <1>1, <2>2
    <3> QED BY <3>1, CheckSpanIs, Zenon
  <2>4. profile # NoChain
    BY <2>2, <2>3 DEF SpansHold
  <2>5. s # {} /\ s \subseteq LogSpans /\ s \subseteq Nat /\ IsFiniteSet(s)
    BY <2>1, <2>2, <2>3, <2>4, HonestSpans, SpansAre
  <2>6. /\ report.span.gaps = Gaps(bundle)
        /\ report.span.windows = Cardinality(Spans(bundle)) + Cardinality(Missed(bundle))
    <3>1. /\ CheckSpan(bundle).gaps = Gaps(bundle)
          /\ CheckSpan(bundle).windows = Cardinality(Spans(bundle)) + Cardinality(Missed(bundle))
      BY <2>3, CheckSpanIs, Zenon
    <3> QED BY <3>1, <2>2
  <2> DEFINE t == [n \in s |-> ticks[log[n].beat]]
  <2>7. \A n \in s : t[n] \in Int /\ t[n] = tick(n)
    <3> SUFFICES ASSUME NEW n \in s PROVE ticks[log[n].beat] \in Int
      BY <2>2
    <3>1. ticks \in Seq(Nat) /\ log[n].beat <= Len(ticks) /\ log[n].beat \in Int /\ log[n].beat >= 1
      BY <2>1, <2>5, HonestSpans DEF Honest, LogInv, BeatsInv
    <3> DEFINE i == log[n].beat
    <3>2. i \in 1 .. Len(ticks)
      <4> HIDE DEF i
      <4> QED BY <3>1 DEF i
    <3> HIDE DEF i
    <3>3. ticks[i] \in Nat
      BY <3>1, <3>2
    <3> QED BY <3>3 DEF i
  <2>8. t \in [s -> Int]
    BY <2>7
  <2>9. \A m, n \in s : m < n => t[m] < t[n]
    <3> SUFFICES ASSUME NEW m \in s, NEW n \in s, m < n PROVE ticks[log[m].beat] < ticks[log[n].beat]
      OBVIOUS
    <3>1. ticks \in Seq(Nat) /\ log[n].beat <= Len(ticks) /\ log[m].beat <= Len(ticks)
          /\ log[m].beat \in Int /\ log[m].beat >= 1 /\ log[n].beat \in Int /\ log[n].beat >= 1
          /\ log[m].beat < log[n].beat
      BY <2>1, <2>5, HonestSpans DEF Honest, LogInv, BeatsInv
    <3> DEFINE i == log[m].beat
               j == log[n].beat
               l == Len(ticks)
    <3>2. DOMAIN ticks = 1 .. l /\ l \in Nat
      BY <3>1
    <3>3. i \in 1 .. l /\ j \in 1 .. l /\ i < j
      <4>1. i \in Int /\ j \in Int /\ i >= 1 /\ j >= 1 /\ i <= l /\ j <= l /\ i < j
        BY <3>1
      <4> HIDE DEF i, j, l
      <4> QED BY <4>1, <3>2
    <3> HIDE DEF i, j, l
    <3>4. ticks[i] < ticks[j]
      BY <2>1, <3>2, <3>3 DEF Honest, ScheduleInv
    <3> QED BY <3>4 DEF i, j
  <2>10. Next2(s) = Pairs(bundle)
    BY DEF Next2, Pairs
  <2>11. \A p \in Pairs(bundle) :
           /\ p[1] \in s /\ p[2] \in s
           /\ t[p[2]] - t[p[1]] = Firings(p)
           /\ tick(p[2]) = t[p[2]] /\ tick(p[1]) = t[p[1]]
    BY <2>7, PairsAre DEF Firings
  <2>12. \A p \in Pairs(bundle) :
           /\ Firings(p) \in Int /\ Firings(p) >= 1
           /\ MissedWindows(Interval(bundle, p), Cadence(bundle, p)) = Firings(p) - 1
           /\ Firings(p) >= 2 => Gap(bundle, p)
    BY <2>1, <2>4, PairIsSchedule
  <2> HIDE DEF s, t
  <2>13. Missed(bundle) = Skipped(s, t)
    <3>1. \A p \in Pairs(bundle) : \A i \in 1 .. (Firings(p) - 1) : p \in Gaps(bundle)
      BY <2>12 DEF Gaps
    <3>2. Gaps(bundle) \subseteq Pairs(bundle)
      BY DEF Gaps
    <3>3. ASSUME NEW z PROVE z \in Missed(bundle) <=> z \in Skipped(s, t)
      <4>1. z \in Missed(bundle) <=>
              \E p \in Gaps(bundle) : \E i \in 1 .. (Firings(p) - 1) : z = <<p, i>>
        <5> DEFINE W(p) == MissedWindows(Interval(bundle, p), Cadence(bundle, p))
                   Missing(p) == \E i \in 1 .. W(p) : z = <<p, i>>
        <5>1. \A p \in Gaps(bundle) : W(p) = Firings(p) - 1
          BY <2>12, <3>2
        <5>2. z \in Missed(bundle) <=> \E p \in Gaps(bundle) : Missing(p)
          BY MissedIs
        <5> HIDE DEF W
        <5>3. \A p \in Gaps(bundle) : Missing(p) <=> \E i \in 1 .. (Firings(p) - 1) : z = <<p, i>>
          BY <5>1
        <5> HIDE DEF Missing
        <5> QED BY <5>2, <5>3, Zenon
      <4>2. z \in Skipped(s, t) <=>
              \E p \in Pairs(bundle) : \E i \in 1 .. (Firings(p) - 1) : z = <<p, i>>
        <5> DEFINE W(p) == t[p[2]] - t[p[1]]
                   Missing(p) == \E i \in 1 .. (W(p) - 1) : z = <<p, i>>
        <5>1. \A p \in Pairs(bundle) : W(p) = Firings(p)
          BY <2>11
        <5>2. z \in Skipped(s, t) <=> \E p \in Pairs(bundle) : Missing(p)
          BY <2>10, SkippedIs
        <5> HIDE DEF W
        <5>3. \A p \in Pairs(bundle) : Missing(p) <=> \E i \in 1 .. (Firings(p) - 1) : z = <<p, i>>
          BY <5>1
        <5> HIDE DEF Missing
        <5> QED BY <5>2, <5>3, Zenon
      <4> QED BY <3>1, <3>2, <4>1, <4>2
    <3> QED BY <3>3
  <2>14. Cardinality(s) + Cardinality(Skipped(s, t)) = t[Max(s)] - t[Min(s)] + 1
    BY <2>5, <2>8, <2>9, IntervalCovered
  <2>15. Max(s) \in s /\ Min(s) \in s
    <3>1. s \subseteq Int
      BY <2>5
    <3>2. PICK hi : IsMax(s, hi)
      BY <2>5, <3>1, HasMax
    <3>3. PICK lo \in s : \A x \in s : lo <= x
      BY <2>5, HasMin
    <3> QED BY <3>1, <3>2, <3>3, MaxIs, MinIs DEF IsMax
  <2>16. report.span.windows = tick(Max(s)) - tick(Min(s)) + 1
    BY <2>6, <2>7, <2>13, <2>14, <2>15 DEF s
  <2>17. \A p \in Pairs(bundle) : tick(p[2]) > tick(p[1]) + 1 => p \in report.span.gaps
    <3> SUFFICES ASSUME NEW p \in Pairs(bundle), tick(p[2]) > tick(p[1]) + 1
                 PROVE  p \in Gaps(bundle)
      BY <2>6
    <3>1. t[p[2]] > t[p[1]] + 1 /\ t[p[1]] \in Int /\ t[p[2]] \in Int
          /\ t[p[2]] - t[p[1]] = Firings(p)
      BY <2>7, <2>11
    <3>2. Firings(p) >= 2
      BY <3>1
    <3> QED BY <2>12, <3>2 DEF Gaps
  <2> QED BY <2>16, <2>17
<1> QED BY <1>1 DEF CoverageIsSchedule

\* The coverage line counts the producer's schedule, however many firings were
\* missed, however late each was and however the cadence changed from beat to
\* beat, as long as no cadence is under two seconds: at one second the slack is
\* the cadence itself (missedWindows, scheduleSlack, checkSpanPairs).
THEOREM CoverageCountsSchedule ==
  ASSUME \A c \in Cadences : c >= 2
  PROVE  Spec => []CoverageIsSchedule
<1>1. TimedInv => CoverageIsSchedule
  BY CoverageHolds
<1> QED BY TimedInvHolds, <1>1, PTL
=============================================================================
