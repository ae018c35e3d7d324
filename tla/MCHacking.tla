------------------------------- MODULE MCHacking -------------------------------
(* Instances of Section B and of writing its question, for TLC. *)
EXTENDS Hacking

Budget(edits, saves, tests, attempts, jobs, faults) ==
  [edits |-> edits, saves |-> saves, tests |-> tests, attempts |-> attempts, jobs |-> jobs, faults |-> faults]

\* A question written at length; one attacked while it is edited; one attacked while the
\* judge fails.
MCBudgets == {Budget(2, 2, 1, 0, 0, 0), Budget(1, 1, 1, 1, 1, 0), Budget(0, 0, 1, 2, 3, 1)}
=============================================================================
