--------------------------- MODULE MCAnchoredLog ----------------------------
(* Instances of AnchoredLog for TLC. *)
EXTENDS AnchoredLogInv

CONSTANTS c1, c2, b1, p1

\* One event from before the log adopted install ids and one from after.
MCRecords ==
  {[core |-> c1, beside |-> b1, install |-> NoInstall, pack |-> p1],
   [core |-> c2, beside |-> b1, install |-> Owner, pack |-> p1]}
=============================================================================
