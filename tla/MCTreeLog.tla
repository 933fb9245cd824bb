----------------------------- MODULE MCTreeLog ------------------------------
(* Instances of TreeLog for TLC. *)
EXTENDS TreeLog

CONSTANTS c1, c2, b1, p1

MCRecords ==
  {[core |-> c, beside |-> b1, install |-> NoInstall, pack |-> p1] : c \in {c1, c2}}
=============================================================================
