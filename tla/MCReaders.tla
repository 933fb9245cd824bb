------------------------------ MODULE MCReaders ------------------------------
(* Instances of Readers for TLC. *)
EXTENDS Readers

Leaf(i) == <<i>>

\* No leaf and no node of a tree is a triple.
MCStray == <<0, 0, 0>>

\* A log grows to five leaves: every shape from one leaf to an odd node that is
\* carried up two levels.
MCLogs == {[i \in 1 .. n |-> Leaf(i)] : n \in 1 .. 5}

\* Its first, second or third entry rewritten, and one entry recorded twice.
MCOthers ==
  {<<Leaf(9), Leaf(2)>>, <<Leaf(1), Leaf(9)>>, <<Leaf(1), Leaf(2), Leaf(9)>>,
   <<Leaf(1), Leaf(1), Leaf(1)>>}

Cert(key, kind, id, issuer, serial, from, until) ==
  [key |-> key, kind |-> kind, id |-> id, issuer |-> issuer, serial |-> serial,
   from |-> from, until |-> until, version |-> 3, stamps |-> TRUE, torn |-> "no"]

\* The authority's first certificate, one that renews it for the same key, and
\* the one of its next key.
MCOwnCerts ==
  {Cert("ka", "ecdsa", "ski a", "root", 1, 0, 1),
   Cert("ka", "ecdsa", "ski a", "root", 2, 1, 2),
   Cert("kb", "rsa", "ski b", "root", 3, 1, 2)}

\* Another holder's, under one of the authority's serials; under all its names; not
\* marked for timestamping; and two that cannot be read to the end.
Other == Cert("kx", "ecdsa", "ski x", "elsewhere", 1, 0, 2)
MCOtherCerts ==
  {Other, [Other EXCEPT !.id = "ski a", !.issuer = "root"],
   [Other EXCEPT !.issuer = "far", !.stamps = FALSE],
   [Other EXCEPT !.torn = "tbs"], [Other EXCEPT !.issuer = "far", !.torn = "validity"]}

\* A scheme in full, and one that leaves the hash to the declared digest.
MCHabits ==
  {[digest |-> "sha512", alg |-> [key |-> "ecdsa", hash |-> "sha512"]],
   [digest |-> "sha512", alg |-> [key |-> "ecdsa", hash |-> "declared"]],
   [digest |-> "sha256", alg |-> [key |-> "rsa", hash |-> "sha256"]]}
=============================================================================
