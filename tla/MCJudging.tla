------------------------------ MODULE MCJudging -------------------------------
(* Instances of the judging of submissions for TLC. *)
EXTENDS JudgingProperties, TLC

\* Threads of a kind are interchangeable, and so are participants and verdicts.
Symmetry == Permutations(Senders) \cup Permutations(Requests) \cup Permutations(Participants)
              \cup Permutations(Verdicts) \cup Permutations(Pollers) \cup Permutations(Organisers)
=============================================================================
