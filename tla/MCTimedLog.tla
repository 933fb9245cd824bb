----------------------------- MODULE MCTimedLog -----------------------------
(* Instances of TimedLog for TLC. *)
EXTENDS TimedLog

\* Of the two linear profiles the one whose verifier makes every check.
EachProfile == {"switchtender-audit-v1", Merkle, NoChain}
=============================================================================
