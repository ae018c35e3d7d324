-------------------------- MODULE AuctionProperties --------------------------
(***************************************************************************)
(* What must be true of the auction: the invariants and action properties  *)
(* of the block and of the money, and the abstract specification it        *)
(* implements.                                                             *)
(***************************************************************************)
EXTENDS Auction

LotRow == [state : LotStates, order : Nat, top : Bid \cup {NoBid}, clock : Clocks]
SaleRow == [by : Participants \cup {Nobody}, price : Nat, live : BOOLEAN]
Job == [at : JobSteps, round : 0..2, lot : Lots \cup {NoLot}]

\* Every variable holds values of its columns' types; balances are the CHECK
\* (balance >= 0) of the participant table.
TypeOK ==
  /\ phase \in Phases /\ paused \in BOOLEAN /\ mode \in {"online", "offline"}
  /\ lot \in [Lots -> LotRow]
  /\ bids \in [Lots -> Seq(Bid)]
  /\ status \in [Questions -> {"unsold", "sold", "void"}]
  /\ own \in [Questions -> SaleRow]
  /\ balance \in [Participants -> Nat]
  /\ ledger \in [Participants -> [Questions -> Int]]
  /\ hints \in [Participants -> [Questions -> Nat]]
  /\ disqualified \subseteq Participants
  /\ job \in [Workers -> Job]
  /\ interventions \in Nat

-----------------------------------------------------------------------------
(* The block.                                                               *)

\* At most one lot is open, although _open_next looks for an open lot in one
\* statement and opens one in another, and several processes run it at once.
OneLotOnTheBlock == \A l, m \in OpenLots : l = m

\* The bid columns of a lot repeat its newest bid row: bidding, retracting,
\* withdrawing, restoring and relisting keep the two in step.
TopIsNewestBid ==
  \A l \in Lots : lot[l].top # NoBid => bids[l] # <<>> /\ bids[l][Len(bids[l])] = lot[l].top

\* What waits in the queue carries nothing over from an earlier offer, so the
\* lot that opens next opens at its base price with no bidder.
QueuedLotsAreFresh ==
  \A l \in Lots : lot[l].state = "pending" => lot[l].top = NoBid /\ lot[l].clock = "off"

\* The rows of a lot climb rung by rung: each is one increment above the row
\* before it and by somebody else, or starts again at the base price.
OneBidPerRung ==
  \A l \in Lots : \A i \in 1..Len(bids[l]) :
    \/ bids[l][i].amount = BasePrice
    \/ /\ i > 1
       /\ bids[l][i].amount = bids[l][i - 1].amount + BidIncrement
       /\ bids[l][i].by # bids[l][i - 1].by

\* However early the scheduler looked, it takes a lot off the block only if the
\* lot's clock has run out by then and the auction is not paused.
NoEarlySettlement ==
  [][\A l \in Lots :
       lot[l].state = "open" /\ lot'[l].state \in {"closed", "unsold"}
         /\ job[Scheduler].at = "settle" /\ job'[Scheduler].at # "settle"
         => lot[l].clock = "due" /\ ~paused]_vars

\* A lot sold online goes, in the step that closes it, to the bidder at its top,
\* who pays exactly that bid and owns the question at that price.
HammerPrice ==
  [][\A l \in Lots :
       mode = "online" /\ lot[l].state = "open" /\ lot'[l].state = "closed"
         => LET b == lot[l].top
            IN /\ b \in Bid
               /\ own'[l[1]] = [by |-> b.by, price |-> b.amount, live |-> TRUE]
               /\ balance' = [balance EXCEPT ![b.by] = @ - b.amount]]_vars

\* "Lots are offered one at a time, so a participant's whole balance is available
\* for the question in front of them": with nothing else to spend on, the top
\* bid on the block is always covered, although nothing is reserved.
TopBidIsCovered ==
  \A l \in OpenLots : lot[l].top # NoBid => lot[l].top.amount <= balance[lot[l].top.by]

\* The cap is checked when bidding, not when the lot is awarded; that is enough
\* because one lot is offered at a time.
CapHolds == \A p \in Participants : Cardinality(Owned(p)) <= OwnershipCap

-----------------------------------------------------------------------------
(* Ownership and money.                                                     *)

\* The question's status and its ownership row, written by different statements
\* of five operations, never disagree.
SoldIffOwned == \A q \in Questions : status[q] = "sold" <=> own[q].live

\* Nobody is charged for a question except by becoming its owner in the same
\* step, at that price, or by buying a hint for a question they own.
ChargedOnlyForOwning ==
  [][\A p \in Participants, q \in Questions :
       ledger'[p][q] < ledger[p][q] =>
         \/ ~own[q].live /\ own'[q] = [by |-> p, price |-> ledger[p][q] - ledger'[p][q],
                                       live |-> TRUE]
         \/ /\ own[q].live /\ own[q].by = p /\ own'[q] = own[q]
            /\ hints'[p][q] = hints[p][q] + 1]_vars

\* The ledger about a question says what its owner gave for it: the price and
\* the hints, no less for the owner and nothing in favour of anybody else.
OwnersHavePaid ==
  \A p \in Participants, q \in Questions :
    ledger[p][q] <= (IF q \in Owned(p) THEN - own[q].price - hints[p][q] * HintPrice ELSE 0)

\* The auction implements the abstract sale, own and balance being its own.
TheSale == INSTANCE Sale WITH Nobody <- Nobody, Participants <- Participants, Questions <- Questions,
                              StartingBalance <- StartingBalance, own <- own, balance <- balance
ImplementsSale == TheSale!Spec

-----------------------------------------------------------------------------
(* Progress, under the scheduler's fairness.                                *)

RunningOnline == IsAuction(phase) /\ mode = "online" /\ ~paused

\* A lot whose clock has run out in a running auction is settled, unless an
\* organiser gives it more time or stops the auction.
DueLotIsSettled ==
  \A l \in Lots :
    RunningOnline /\ lot[l].state = "open" /\ lot[l].clock = "due"
      ~> ~RunningOnline \/ lot[l].state # "open" \/ lot[l].clock # "due"

\* Every lot of a running online round is offered and settled in the end, unless
\* the auction is paused or left or a lot is taken off its clock.
RoundIsPlayedOut ==
  \A r \in {1, 2} :
    RunningOnline /\ AuctionRound(phase) = r
      ~> \/ ~RunningOnline \/ AuctionRound(phase) # r
         \/ Pending(r) = {} /\ OpenLots = {}
         \/ \E l \in OpenLots : lot[l].clock = "off"

\* The block: one lot at a time, whose columns say what its bid rows say, whatever was
\* retracted, withdrawn, restored or relisted before.
BlockAgrees == TypeOK /\ OneLotOnTheBlock /\ TopIsNewestBid /\ QueuedLotsAreFresh /\ OneBidPerRung

\* What a bid was checked for still holds when the hammer falls, although nothing is
\* reserved for it and nothing checked again: the money and the room under the cap.
TopBidStands == TopBidIsCovered /\ CapHolds

\* The auction never stands still by itself: crashes between the transactions of a tick
\* leave no due lot on the block and no round half played.
AuctionMovesOn == DueLotIsSettled /\ RoundIsPlayedOut
=============================================================================
