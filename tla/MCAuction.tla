------------------------------ MODULE MCAuction ------------------------------
(* Instances of the auction for TLC. *)
EXTENDS AuctionScreens, TLC

\* Participants are interchangeable; questions are not, since they are ranked.
Symmetry == Permutations(Participants)

MCRank == CHOOSE f \in [Questions -> 1..Cardinality(Questions)] :
            \A q, o \in Questions : f[q] = f[o] => q = o

\* A shortfall to take off a balance, and a gift.
MCAdjustments == {-1, 1}
=============================================================================
