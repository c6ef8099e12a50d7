----------------------------- MODULE MCCanNodes -----------------------------
(***************************************************************************)
(* TLC instances of CanNodes: the two nodes are model values, the numbers  *)
(* of polls and the bounds come from the .cfg files.                       *)
(***************************************************************************)
EXTENDS CanNodes
=============================================================================
