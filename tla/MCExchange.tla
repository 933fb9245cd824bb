----------------------------- MODULE MCExchange -----------------------------
(* Instances of Exchange for TLC: an installation, its key before and after a *)
(* rotation, and another producer.                                            *)
EXTENDS Exchange

CONSTANTS k1, k2, k3, att, minted, other, assigned

MCInstalls == {minted, other, assigned}
MCMintedFrom == [i \in MCInstalls |-> IF i = minted THEN k1 ELSE IF i = other THEN k3 ELSE None]
MCRightful == [i \in MCInstalls |-> IF i = minted THEN {k1, k2} ELSE IF i = other THEN {k3} ELSE {}]

Field(name, value) == [name |-> name, value |-> value]
Content(key, install, profile, fields) ==
  [key |-> key, keyId |-> KeyID(key), install |-> install, profile |-> profile, link |-> "l1",
   fields |-> {Digest(d) : d \in fields}]

Shown == <<Field("f1", "v1"), Field("f2", "v2")>>
MCStarts ==
  {[content |-> Content(k, minted, "switchtender", {}), shown |-> << >>] : k \in {k1, k2}}
  \union {[content |-> Content(k3, assigned, "v1", {Shown[1], Shown[2]}), shown |-> Shown]}

Opts(pin, accept, attestors, audience, nonce) ==
  [pin |-> pin, accept |-> accept, attestors |-> attestors, audience |-> audience, nonce |-> nonce]
MCOptions ==
  {Opts(KeyID(k1), None, {KeyID(att)}, a, n) : a, n \in {None, Empty, "own"}}
  \union {Opts(p, None, {}, "own", "own") : p \in {None, KeyID(k2), KeyID(k3)}}
  \union {Opts(None, None, {KeyID(att)}, None, None), Opts(Empty, None, {}, None, None),
          Opts(None, minted, {}, None, None), Opts(KeyID(k2), None, {}, None, None),
          Opts(KeyID(k2), minted, {}, None, None), Opts(KeyID(k2), minted, {KeyID(att)}, "own", "own"),
          Opts(KeyID(k3), None, {KeyID(att)}, None, None), Opts(KeyID(k3), assigned, {}, None, None)}

Alike == Permutations(Holders) \union Permutations(Verifiers) \union Permutations(Nonces)
=============================================================================
