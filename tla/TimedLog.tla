------------------------------ MODULE TimedLog ------------------------------
(***************************************************************************)
(* A producer that beats on a schedule, timestamp authorities with clocks  *)
(* of their own, and the verifier of SpanRules reading a window of the     *)
(* log.                                                                    *)
(*                                                                         *)
(* The producer's timer is due every cadence of its last beat.  It fires   *)
(* late by less than half a cadence, or, while the producer is stalled,    *)
(* not at all.  Its clock may be set back under it.  An authority's clock  *)
(* lags the producer's, or leads it.  A bundle is a window of the log; on  *)
(* its way an entry may be taken out and the rest relinked, a span claim   *)
(* rewritten or retyped, a time changed, a token spoiled.  Links are       *)
(* recomputed after a change: a bundle whose links do not recompute is     *)
(* AnchoredLog's business.                                                 *)
(***************************************************************************)
EXTENDS SpanRules

CONSTANTS
  Profiles,     \* the profiles, or NoChain, a producer may seal under
  Cadences,     \* cadences, in seconds, its beats may declare
  Pauses,       \* ticks that may pass before an entry
  Lates,        \* ticks a timer may fire late
  Lags,         \* ticks an authority's clock may sit behind the producer's
  MaxEntries,   \* bound: entries in the log
  MaxSkip,      \* bound: timer firings missed in a row
  MaxTokens,    \* bound: anchors recorded
  MaxBacks,     \* bound: times the producer's clock is set back
  MaxEdits      \* bound: changes made to a bundle

ASSUME ScheduleAssumption ==
  /\ Profiles \subseteq Linear \union {Merkle, NoChain}
  /\ Cadences \subseteq 1 .. Year /\ Pauses \subseteq Nat /\ Lags \subseteq Int
  /\ \A c \in Cadences, l \in Lates : l \in Nat /\ 2 * l < c * Second
ASSUME BoundsAssumption == {MaxEntries, MaxSkip, MaxTokens, MaxBacks, MaxEdits} \subseteq Nat

VARIABLES
  profile,   \* fixed for good
  log,       \* the producer's entries
  clock,     \* the producer's clock
  due,       \* when the last beat was due, by the producer's clock
  ticks,     \* for each beat written, how often the timer had been due by then
  backs,     \* times the clock was set back
  ledger,    \* the anchors recorded
  phase, bundle, edits,
  genuine,   \* the bundle says what the log says
  report

producerVars == <<profile, log, clock, due, ticks, backs, ledger>>
vars == <<profile, log, clock, due, ticks, backs, ledger,
          phase, bundle, edits, genuine, report>>

NoBundle ==
  [profile |-> NoChain, entries |-> << >>, from |-> 1, to |-> 0, top |-> 0,
   anchors |-> {}, created |-> 0]
NoReport ==
  [ok |-> FALSE, anchored |-> "no", spanned |-> FALSE, span |-> NoSpan,
   age |-> NoFigure, window |-> NoFigure]

Init ==
  /\ profile \in Profiles
  /\ log = << >> /\ clock = 0 /\ due = 0 /\ ticks = << >> /\ backs = 0 /\ ledger = {}
  /\ phase = "idle" /\ bundle = NoBundle /\ edits = 0 /\ genuine = FALSE
  /\ report = NoReport

EntriesSince(n) == Len(log) - n
LastBeat == LET s == {n \in DOMAIN log : log[n].kind = "span"}
            IN  IF s = {} THEN 0 ELSE Max(s)

Beat(at, cadence) ==
  LET c == [kind |-> "span", at |-> at, stream |-> "chain", beat |-> Len(ticks) + 1,
            count |-> EntriesSince(LastBeat), cadence |-> cadence,
            path |-> << >>, variant |-> FALSE]
  IN  [c EXCEPT !.path = SpanPath(c)]

\* An ordinary entry; it has no span members.
Event(at) ==
  [kind |-> "event", at |-> at, stream |-> "", beat |-> NoInt, count |-> NoInt,
   cadence |-> NoInt, path |-> << >>, variant |-> FALSE]

(***************************************************************************)
(* The producer and the authority.                                         *)
(***************************************************************************)
Record ==
  /\ phase = "idle" /\ Len(log) < MaxEntries
  /\ \E p \in Pauses : clock' = clock + p
  /\ log' = Append(log, Event(clock'))
  /\ UNCHANGED <<profile, due, ticks, backs, ledger, phase, bundle, edits, genuine, report>>

\* The first beat, whenever the producer takes up beating.
FirstBeat ==
  /\ phase = "idle" /\ Len(log) < MaxEntries /\ ticks = << >>
  /\ \E p \in Pauses, c \in Cadences :
       /\ clock' = clock + p
       /\ log' = Append(log, Beat(clock', c))
  /\ due' = clock' /\ ticks' = <<1>>
  /\ UNCHANGED <<profile, backs, ledger, phase, bundle, edits, genuine, report>>

\* The timer fires, k cadences after the last beat was due and a little late.
NextBeat ==
  /\ phase = "idle" /\ Len(log) < MaxEntries /\ ticks # << >>
  /\ \E k \in 1 .. MaxSkip + 1, late \in Lates, c \in Cadences :
       /\ due' = due + k * log[LastBeat].cadence * Second
       /\ clock' = due' + late
       /\ clock' >= clock
       /\ log' = Append(log, Beat(clock', c))
       /\ ticks' = Append(ticks, ticks[Len(ticks)] + k)
  /\ UNCHANGED <<profile, backs, ledger, phase, bundle, edits, genuine, report>>

\* The producer's clock is set back.  The timer counts time that passed.
SetBack ==
  /\ phase = "idle" /\ log # << >> /\ backs < MaxBacks
  /\ \E c \in Cadences : LET s == 2 * c * Second IN
       clock' = clock - s /\ due' = due - s
  /\ backs' = backs + 1
  /\ UNCHANGED <<profile, log, ticks, ledger, phase, bundle, edits, genuine, report>>

\* An authority signs the newest link at its own time, or a feed takes it in.
Anchor ==
  /\ phase = "idle" /\ log # << >> /\ Cardinality(ledger) < MaxTokens /\ profile \in Linear
  /\ \E a \in [type : {"rfc3161"}, lag : Lags] \union [type : {"git"}, lag : {0}] :
       ledger' = ledger \union
         {[seq |-> Len(log), link |-> LinkAt(profile, log, Len(log)), entries |-> log,
           type |-> a.type, lag |-> a.lag, time |-> clock - a.lag, holds |-> TRUE]}
  /\ UNCHANGED <<profile, log, clock, due, ticks, backs, phase, bundle, edits, genuine, report>>

Export ==
  /\ phase = "idle"
  /\ \E from \in DOMAIN log : \E to \in from .. Len(log) : \E top \in {to, Len(log)} :
       \E anchors \in SUBSET ledger :
         /\ bundle' = [profile |-> profile, entries |-> log, from |-> from, to |-> to,
                       top |-> top, anchors |-> anchors, created |-> clock]
         /\ genuine' = \A a \in anchors : a.seq \in (from .. to) \union {top}
  /\ phase' = "transit" /\ edits' = 0
  /\ UNCHANGED <<producerVars, report>>

(***************************************************************************)
(* What may become of the file; a tree or an unchained bundle with a beat  *)
(* is refused as it is.                                                    *)
(***************************************************************************)
Edited ==
  /\ phase = "transit" /\ edits < MaxEdits /\ profile \in Linear
  /\ edits' = edits + 1 /\ genuine' = FALSE
  /\ UNCHANGED <<producerVars, phase, report>>

Shown == bundle.from .. bundle.to

\* Entry n is taken out, the rest moved up and relinked.
TakeOut ==
  /\ Edited /\ Len(bundle.entries) > 1
  /\ \E n \in 1 .. bundle.to :
       LET from == IF n < bundle.from THEN bundle.from - 1 ELSE bundle.from IN
       /\ from <= bundle.to - 1
       /\ bundle' = [bundle EXCEPT !.entries = RemoveAt(@, n), !.from = from,
                                   !.to = @ - 1, !.top = @ - 1]

\* A span claim's members are rewritten, with the path or without it.
Rewrite ==
  /\ Edited
  /\ \E n \in SpansShown(bundle) :
       LET c == bundle.entries[n] IN
       \E e \in {[c EXCEPT !.beat = @ - 1], [c EXCEPT !.count = @ + 1],
               [c EXCEPT !.count = @ - 1], [c EXCEPT !.cadence = 2 * @],
               [c EXCEPT !.cadence = Year + 1], [c EXCEPT !.beat = NoInt],
               [c EXCEPT !.stream = "other"], [c EXCEPT !.variant = TRUE]} :
         \E path \in {c.path, SpanPath(e)} :
           bundle' = [bundle EXCEPT !.entries[n] = [e EXCEPT !.path = path]]

\* A span claim passes for an ordinary one.
Retype ==
  /\ Edited
  /\ \E n \in SpansShown(bundle) : bundle' = [bundle EXCEPT !.entries[n].kind = "event"]

Retime ==
  /\ Edited
  /\ \E n \in Shown, s \in {-Second, Second} :
       bundle' = [bundle EXCEPT !.entries[n].at = @ + s]

SpoilToken ==
  /\ Edited
  /\ \E a \in bundle.anchors :
       bundle' = [bundle EXCEPT !.anchors = (@ \ {a}) \union {[a EXCEPT !.holds = FALSE]}]

(***************************************************************************)
(* The relying party.  The checks of one Run read a file nothing changes.  *)
(***************************************************************************)
Verify ==
  /\ phase = "transit"
  /\ LET b == bundle
         span == CheckSpan(b)
         ok == AnchorsOK(b) /\ (span.present => span.ok)
     IN  report' = [ok |-> ok, span |-> span,
                    anchored |-> IF ok THEN AnchoredWord(b) ELSE "no",
                    spanned |-> ok /\ Spanned(b),
                    age |-> AttestationAge(b), window |-> UnanchoredWindow(b)]
  /\ phase' = "done"
  /\ UNCHANGED <<producerVars, bundle, edits, genuine>>

Discard ==
  /\ phase = "done"
  /\ phase' = "idle" /\ bundle' = NoBundle /\ edits' = 0 /\ genuine' = FALSE
  /\ report' = NoReport
  /\ UNCHANGED producerVars

Next ==
  \/ Record \/ FirstBeat \/ NextBeat \/ SetBack \/ Anchor \/ Export
  \/ TakeOut \/ Rewrite \/ Retype \/ Retime \/ SpoilToken
  \/ Verify \/ Discard

Spec == Init /\ [][Next]_vars

-----------------------------------------------------------------------------
(***************************************************************************)
(* Properties.                                                             *)
(***************************************************************************)

\* Every variable has its type; the report's numbers are never negative, and a
\* figure is left out rather than stated below nothing.
TypeOK ==
  /\ profile \in Profiles
  /\ Len(log) \in 0 .. MaxEntries /\ Len(ticks) \in 0 .. Len(log)
  /\ {clock, due} \subseteq Int
  /\ backs \in 0 .. MaxBacks /\ edits \in 0 .. MaxEdits
  /\ Cardinality(ledger) \in 0 .. MaxTokens
  /\ phase \in {"idle", "transit", "done"} /\ genuine \in BOOLEAN
  /\ {report.ok, report.spanned, report.span.present, report.span.ok} \subseteq BOOLEAN
  /\ report.anchored \in {"no", "by reference", "proof verified"}
  /\ {report.span.beats, report.span.windows} \subseteq Nat
  /\ {report.age, report.window} \subseteq Nat \union {NoFigure}

Done == phase = "done"

\* The position at which the log holds a beat it wrote.
WrittenAt(c) == CHOOSE n \in DOMAIN log : log[n] = c

\* An entry cannot be taken out from between two beats, nor a beat from between
\* two others, once the beats are left as written: the counts of a passing
\* bundle are those of the log it was cut from (checkSpanFirst, checkSpanPairs).
PopulationKept ==
  LET e == bundle.entries IN
  Done /\ report.ok /\ report.span.ok /\ (\A n \in Spans(bundle) : e[n] \in ToSet(log)) =>
    /\ \A p \in Pairs(bundle) : WrittenAt(e[p[2]]) - WrittenAt(e[p[1]]) = p[2] - p[1]
    /\ \A n \in Spans(bundle) : e[n].beat = 1 => WrittenAt(e[n]) = n

\* The coverage line counts the producer's schedule: in an honest window the
\* windows it reports are the times the timer was due from the first beat shown
\* to the last, however late each firing was and however the cadence changed,
\* and a pair of beats with a firing missed between them is among the gaps
\* (missedWindows, checkSpanPairs).
CoverageIsSchedule ==
  LET tick(n) == ticks[bundle.entries[n].beat]
      s == Spans(bundle)
  IN  Done /\ genuine /\ backs = 0 /\ report.span.ok =>
        /\ report.span.windows = tick(Max(s)) - tick(Min(s)) + 1
        /\ \A p \in Pairs(bundle) :
             tick(p[2]) > tick(p[1]) + 1 => p \in report.span.gaps

\* Under an anchored verdict the span claims up to a recorded anchor read as the
\* log wrote them, although a switchtender link leaves their members out: no
\* beat is renumbered, no cadence widened, no event passed off as a beat
\* (checkSpanPath).
MembersMeanLog ==
  Done /\ report.anchored # "no" =>
    \A a \in Matched(bundle) : \A n \in SpansShown(bundle) :
      n <= a.seq =>
        LET c == bundle.entries[n] IN LET w == a.entries[n] IN
        w.kind = "span" /\ <<c.beat, c.count, c.cadence>> = <<w.beat, w.count, w.cadence>>

\* Two clocks do not make a liar of an honest producer: with an authority no
\* further behind than anchorClockSkew and a clock never set back, every window
\* of the log passes, with the word its anchors earn and, under a linear
\* profile, spanned when it is anchored and shows a beat.  A beat under the tree
\* profile or without a chain is refused.
HonestTimesVerify ==
  LET a == {x \in bundle.anchors : x.seq <= bundle.to}
      tokens == {x \in a : x.type = "rfc3161"}
      beats == \E n \in Shown : log[n].kind = "span"
  IN  Done /\ genuine /\ backs = 0 /\ (\A x \in tokens : x.lag <= Skew) =>
        /\ report.ok <=> (profile \in Linear \/ ~beats)
        /\ report.anchored = IF tokens # {} THEN "proof verified"
                             ELSE IF a # {} THEN "by reference" ELSE "no"
        /\ report.spanned <=> (a # {} /\ beats)

\* A figure does not hide a span d: it is there if d is more than nothing, and
\* falls short of d by no more than the half second rounding takes.
Covers(figure, d) == d > 0 => figure # NoFigure /\ 2 * (d - figure) <= Second

\* The figures that say how stale a passing bundle is cannot be made smaller, or
\* go missing, by leaving things out.  The age covers the time since the newest of
\* the tokens that held, also when nothing follows the anchor; and whatever has
\* been rewritten, the window covers what lies between the moment the token over
\* the last anchor was signed and any entry shown past it, give or take the skew of
\* the two clocks (measureAttestationAge, measureUnanchored, anchorClockSkew).
StalenessNotFlattered ==
  LET tokens == {a \in bundle.anchors : a.type = "rfc3161" /\ a.seq <= bundle.to} IN
  Done /\ report.ok /\ tokens # {} =>
    /\ \E a \in tokens : \A x \in tokens :
         Covers(report.age, bundle.created - a.time) /\ a.time >= x.time
    /\ \A a \in tokens : (\A x \in bundle.anchors : x.seq <= a.seq \/ x.seq > bundle.to) =>
         \A n \in a.seq + 1 .. bundle.to :
           Covers(report.window, bundle.entries[n].at - a.time - Skew)
=============================================================================
