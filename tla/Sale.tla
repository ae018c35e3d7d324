--------------------------------- MODULE Sale ---------------------------------
(***************************************************************************)
(* What the auction promises about a question, whatever happens on the     *)
(* block: it has at most one owner, becoming the owner by a sale and being *)
(* charged the price of that sale are one step, and money that moves for   *)
(* any other reason never makes a balance negative.                        *)
(***************************************************************************)
EXTENDS Integers

CONSTANTS Participants, Questions, StartingBalance, Nobody

VARIABLES
  own,      \* [by, price, live] for each question
  balance   \* coins of each participant

saleVars == <<own, balance>>

NotOwned == [by |-> Nobody, price |-> 0, live |-> FALSE]

Init ==
  /\ own = [q \in Questions |-> NotOwned]
  /\ balance = [p \in Participants |-> StartingBalance]

Only(p) == balance' = [balance EXCEPT ![p] = balance'[p]] /\ balance'[p] >= 0

\* The only way to own a question nobody owns: pay its price, out of what one has.
Buy(q, p) ==
  /\ ~own[q].live
  /\ own' = [own EXCEPT ![q] = [by |-> p, price |-> balance[p] - balance'[p], live |-> TRUE]]
  /\ Only(p)
  /\ balance'[p] <= balance[p]

\* The sale is undone, and its owner, nobody else, may be credited.
Return(q) ==
  /\ own[q].live
  /\ own' = [own EXCEPT ![q].live = FALSE]
  /\ Only(own[q].by)
  /\ balance'[own[q].by] >= balance[own[q].by]

\* The sale is moved to another participant, at no cost.
Reassign(q, p) ==
  /\ own[q].by # Nobody
  /\ own' = [own EXCEPT ![q].by = p]
  /\ UNCHANGED balance

\* One balance moves without any sale: a hint, a correction, a goodwill refund.
MoveCoins(p) == Only(p) /\ UNCHANGED own

Next ==
  \/ \E q \in Questions, p \in Participants : Buy(q, p) \/ Reassign(q, p)
  \/ \E q \in Questions : Return(q)
  \/ \E p \in Participants : MoveCoins(p)

Spec == Init /\ [][Next]_saleVars
===============================================================================
