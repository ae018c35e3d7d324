------------------------------- MODULE MCPuzzles -------------------------------
(* Instances of Section A for TLC. *)
EXTENDS Grading, TLC
=============================================================================
