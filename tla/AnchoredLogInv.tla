--------------------------- MODULE AnchoredLogInv ---------------------------
(***************************************************************************)
(* The inductive invariant behind the safety properties of AnchoredLog.    *)
(*                                                                         *)
(* A verdict is reached walking the window forwards, while an anchor vouch-*)
(* es for what lies behind it: link n fixes entry n and link n-1.  So the  *)
(* invariant says of every claim already walked over that, should its link *)
(* be the one a recorded log held at that position, then every claim up to *)
(* it is the entry that log held.  One more claim keeps that true, since   *)
(* equal links have equal predecessors.                                    *)
(***************************************************************************)
EXTENDS AnchoredLog

ClaimMembers == {"chained", "seq", "prev", "link", "core", "beside", "install", "pack"}
BundleMembers == {"profile", "keyed", "producer", "param", "claims", "head", "anchors"}

IsClaim(c) == DOMAIN c = ClaimMembers /\ c.seq \in Nat \ {0}

\* A sequence, of elements no set is named for.
IsSequence(s) == s \in Seq({s[i] : i \in DOMAIN s})

IsClaims(s) == IsSequence(s) /\ \A i \in DOMAIN s : IsClaim(s[i])

\* Entries as the producer writes them: every position, predecessor and link right.
Linked(st, entries) ==
  /\ IsClaims(entries)
  /\ \A k \in DOMAIN entries :
       /\ entries[k].seq = k
       /\ entries[k].prev = PrevLink(entries, k)
       /\ entries[k].link = ProducerLink(st, entries[k])
       /\ entries[k].install \in {NoInstall, Owner}

LogInv ==
  /\ style \in Styles
  /\ Linked(style, log)

LedgerInv ==
  /\ IsFiniteSet(ledger)
  /\ \A a \in ledger :
       /\ Linked(style, a.entries)
       /\ a.seq = Len(a.entries) /\ a.seq # 0
       /\ a.link = a.entries[a.seq].link

\* What bundle.Parse lets through: a known profile and at least one claim.
IsFile(b) ==
  /\ DOMAIN b = BundleMembers
  /\ IsClaims(b.claims) /\ b.claims # << >>
  /\ b.profile \in Profiles /\ b.keyed \in BOOLEAN
  /\ IsFiniteSet(b.anchors) /\ \A a \in b.anchors : a.seq \in Nat /\ a = Coords(a)

BundleInv == IF phase = "idle" THEN bundle = NoBundle ELSE IsFile(bundle)

\* Claim i passed checkContinuity, and stands where its predecessors put it.
InPlace(i) ==
  /\ Follows(bundle, i)
  /\ bundle.claims[i].seq = bundle.claims[1].seq + i - 1

\* The claims whose links agree with a recorded log show that log from the
\* window's start up to them.
ShowsHistory(i) ==
  \A a \in ledger :
    LET n == bundle.claims[i].seq IN
    n <= a.seq /\ bundle.claims[i].link = a.entries[n].link =>
      /\ bundle.profile = style.profile
      /\ bundle.profile = ProfileV1 => bundle.param = Owner
      /\ \A j \in 1 .. i : RecordedAs(bundle.claims[j], a)

\* What is known of claim i once CheckLinks is past it.
Held(i) ==
  /\ LinkRecomputes(bundle, i)
  /\ ~NamesOtherInstall(bundle, i)
  /\ ShowsHistory(i)

Sound ==
  \/ phase \in {"head", "profile", "links"}
  \/ (phase \in {"anchors", "done"} /\ err = "")

WalkInv ==
  /\ phase \in Phases /\ pos \in Nat
  /\ phase \in {"continuity", "links"} => pos # 0
  /\ phase \notin {"anchors", "done"} => err = "" /\ mode = ""
  /\ phase \in {"idle", "transit", "coords", "continuity", "head"} => headMatched = FALSE
  /\ phase = "continuity" \/ Sound => Coordinated(bundle)
  /\ phase = "continuity" => \A i \in DOMAIN bundle.claims : i < pos => InPlace(i)
  /\ Sound => \A i \in DOMAIN bundle.claims : InPlace(i)
  /\ headMatched => err = "" /\ HeadTied(bundle)
  /\ phase = "links" \/ mode = ModeFull => ~ProfileRefused(bundle) /\ ~bundle.keyed
  /\ phase = "links" => \A i \in DOMAIN bundle.claims : i < pos => Held(i)
  /\ mode = ModeFull => err = "" /\ \A i \in DOMAIN bundle.claims : Held(i)

ReportInv ==
  IF phase = "done"
    THEN LET matched == MatchedAnchors(bundle, headMatched) IN
         /\ report.ok = (err = "" /\ UnmatchedAnchors(bundle, headMatched) = {})
         /\ report.level = Level(report.ok, mode, matched)
         /\ report.through = AnchoredThrough(matched)
         /\ report.unanchored = UnanchoredClaims(bundle, report.through)
    ELSE report = NoReport

IInv == LogInv /\ LedgerInv /\ BundleInv /\ WalkInv /\ ReportInv

(***************************************************************************)
(* The verdict is the judgement of ChainJudge: what is known while the walk*)
(* goes on, and, once it is over, that it ended as one look at the whole   *)
(* file would have.                                                        *)
(***************************************************************************)

\* The members of a file the first invariant has no use for.
HasHead(b) == b.head = Coords(b.head) /\ b.head.seq \in Nat /\ b.producer \in Installs

Ended == phase \in {"anchors", "done"}

JudgeInv ==
  /\ phase # "idle" => HasHead(bundle)
  /\ phase \in {"profile", "links"} => ~HeadBehind(bundle) /\ ~HeadContradicts(bundle)
  /\ phase \in {"profile", "links"} \/ (Ended /\ err = "") => (HeadTied(bundle) => headMatched)
  /\ Ended => /\ mode = Judged!SoundMode(bundle)
              /\ mode = "" => err # ""
              /\ mode # "" => err = ""

\* The file is the window of the log that begins at from, packaging aside, under
\* the head at top.
IsCut(from, top) ==
  /\ from \in DOMAIN log /\ top \in DOMAIN log
  /\ from + Len(bundle.claims) - 1 <= top
  /\ \A i \in DOMAIN bundle.claims :
       LET c == bundle.claims[i]
           e == log[from + i - 1]
       IN  <<c.chained, c.seq, c.prev, c.link, c.core, c.beside, c.install>>
             = <<e.chained, e.seq, e.prev, e.link, e.core, e.beside, e.install>>
  /\ bundle.head = Coords(log[top])
  /\ bundle.profile = style.profile /\ bundle.keyed = style.keyed
  /\ bundle.producer = Owner /\ bundle.param = Owner
  /\ \A a \in bundle.anchors :
       a = bundle.head \/ \E i \in DOMAIN bundle.claims : a = Coords(bundle.claims[i])

GenuineInv ==
  /\ \A k \in DOMAIN log : log[k].chained = TRUE
  /\ phase # "idle" /\ genuine => \E from, top \in DOMAIN log : IsCut(from, top)
=============================================================================
