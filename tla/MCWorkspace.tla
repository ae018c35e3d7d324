------------------------------ MODULE MCWorkspace ------------------------------
(* Instances of the workspace for TLC. *)
EXTENDS Workspace

Budget(texts, submits, cancels, runsStarted, rejudges, opens, hides, hints, faults) ==
  [texts |-> texts, submits |-> submits, cancels |-> cancels, runs |-> runsStarted,
   rejudges |-> rejudges, opens |-> opens, hides |-> hides, hints |-> hints, faults |-> faults]

\* The first submission passes, unless it is judged again.
MCAccepted == {<<1, 1>>}

\* Writing, on one machine and then another; submitting, twice, with a cancel, or judged
\* again; buying hints; trying the samples.
MCBudgets == {Budget(3, 0, 0, 0, 0, 2, 0, 0, 1), Budget(0, 2, 0, 0, 0, 1, 0, 0, 0), 
              Budget(0, 1, 1, 0, 0, 1, 1, 0, 1), Budget(0, 1, 0, 0, 1, 1, 0, 0, 0), Budget(0, 0, 0, 2, 0, 2, 1, 0, 1),
              Budget(0, 0, 0, 0, 0, 1, 0, 3, 1)}
=============================================================================
