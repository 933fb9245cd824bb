---------------------------- MODULE MCRecordLog -----------------------------
(* Instances of RecordLog for TLC: logs of three claims, with every order of a *)
(* run's approvals and executions, the three digest forms, and the other kinds. *)
EXTENDS RecordLog

NoMembers == [m \in Members |-> Absent]
Claim(kind, run, digest, members) ==
  [type |-> "audit", kind |-> kind, run |-> run, digest |-> digest, m |-> members]

Opens(event) == <<event, "rnd", "why">>
DecisionBody(run, spec) == [event |-> "e", run |-> run, spec |-> spec, commit |-> Opens("e")]
Quiet(run, spec) == [event |-> "e", run |-> run, spec |-> spec, commit |-> Absent]
Text(spec, readable) == [spec |-> spec, readable |-> readable]

Decision(run, spec) ==
  Claim("decision", Empty, <<"sha256s", "n1", DecisionBody(run, spec)>>,
    [NoMembers EXCEPT !.body = DecisionBody(run, spec), !.nonce = "n1", !.text = "why", !.random = "rnd"])
Brief(run, spec) ==
  Claim("decision", Empty, <<"sha256s", "n1", Quiet(run, spec)>>,
    [NoMembers EXCEPT !.body = Quiet(run, spec), !.nonce = "n1"])
OldDecision(run, spec) ==
  Claim("decision", Empty, <<"sha256", Quiet(run, spec)>>, [NoMembers EXCEPT !.body = Quiet(run, spec)])
Correction ==
  Claim("correction", Empty, <<"sha256s", "n2", [event |-> "e2", commit |-> Opens("e2")]>>,
    [NoMembers EXCEPT !.body = [event |-> "e2", commit |-> Opens("e2")], !.nonce = "n2",
                      !.text = "why", !.random = "rnd"])
Release ==
  Claim("release", Empty, <<"sha256s", "n2", [commit |-> Absent]>>,
    [NoMembers EXCEPT !.body = [commit |-> Absent], !.nonce = "n2"])
Outcome(run, spec, readable, shown) ==
  Claim("outcome", run, <<"sha256e", "n3", Text(spec, readable)>>,
    [NoMembers EXCEPT !.body = Text(spec, readable), !.nonce = "n3", !.spec = shown])
OldOutcome(run, spec, form) ==
  Claim("outcome", run, IF form = "sha256" THEN <<form, "redaction">> ELSE <<form, "n3", "redaction">>,
    [NoMembers EXCEPT !.body = Text(spec, TRUE), !.spec = "s1"])
Plain == Claim("plain", Empty, Empty, [NoMembers EXCEPT !.stray = "x"])

RunRecords == {Brief("r1", s) : s \in {"s1", "s2"}} \union {Outcome("r1", s, TRUE, Absent) : s \in {"s1", "s2"}}
MCLogs ==
  {<<a, b, c>> : a, b, c \in RunRecords}
  \union {<<a, b, c>> :
            a \in {Decision("r1", "s1"), OldDecision("r1", "s1"), OldOutcome("r1", "s1", "sha256")},
            b \in {Outcome("r1", "s1", TRUE, "s1"), Plain, Release},
            c \in {Correction, Brief("r2", "s2"), Outcome("r1", "s2", FALSE, "s1"),
                   OldDecision("r2", "s2"), OldOutcome("r1", "s1", "sha256s")}}

MCValues ==
  [body |-> {Bad, DecisionBody("r1", "s2"), Quiet("r1", "s2"), Text("s2", TRUE)},
   nonce |-> {Bad, Empty, "n9"}, spec |-> {Bad, "s2"}, stray |-> {"x"}, variant |-> {"x"},
   text |-> {Bad, "other"}, random |-> {Bad, "rnd"}, redacted |-> {Empty, "category"}]
=============================================================================
