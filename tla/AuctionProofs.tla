---------------------------- MODULE AuctionProofs ----------------------------
(***************************************************************************)
(* What holds of the auction for any number of participants, questions,    *)
(* workers and organiser operations.  First the types and what the helpers *)
(* return; two lemmas then say what one step can do, to a lot and to a     *)
(* sale; the other theorems follow from them.                              *)
(***************************************************************************)
EXTENDS AuctionProperties, FiniteSetTheorems, TLAPS

-----------------------------------------------------------------------------
(* The last order of a round exists.                                        *)

\* A finite set of naturals that is not empty has a greatest element: a smallest
\* set without one could not exist, since removing an element leaves one with.
LEMMA FiniteSetHasMax ==
  ASSUME NEW S \in SUBSET Nat, IsFiniteSet(S), S # {}
  PROVE  \E n \in S : \A m \in S : m <= n
<1> DEFINE HasMax(U) == \E n \in U : \A m \in U : m <= n
           Without == {U \in FiniteSubsetsOf(S) : U # {} /\ ~HasMax(U)}
<1>1. SUFFICES ASSUME ~HasMax(S) PROVE FALSE
  OBVIOUS
<1>2. S \in Without
  BY <1>1, Zenon DEF FiniteSubsetsOf
<1>3. Without \subseteq FiniteSubsetsOf(S)
  OBVIOUS
<1>4. PICK U \in Without : \A V \in Without : <<V, U>> \notin StrictSubsetOrdering(S)
  <2> HIDE DEF Without
  <2> QED BY <1>2, <1>3, FS_StrictSubsetOrderingWellFounded, WFMin, Zenon
<1>5. PICK x \in U : TRUE
  OBVIOUS
<1>6. U \in SUBSET Nat /\ U \in SUBSET S /\ IsFiniteSet(U) /\ x \in Nat
  BY DEF FiniteSubsetsOf
<1> DEFINE V == U \ {x}
<1>7. IsFiniteSet(V)
  BY <1>6, FS_RemoveElement, Zenon
<1>8. V \notin Without
  <2>1. <<V, U>> \in StrictSubsetOrdering(S)
    BY <1>5, <1>6 DEF StrictSubsetOrdering
  <2> QED BY <2>1, <1>4
<1>9. V = {} \/ HasMax(V)
  BY <1>6, <1>7, <1>8 DEF FiniteSubsetsOf
<1>10. CASE V = {}
  BY <1>10, <1>5, <1>6
<1>11. CASE HasMax(V)
  <2>1. PICK n \in V : \A m \in V : m <= n
    BY <1>11
  <2> HIDE DEF Without
  <2>2. CASE n <= x
    <3>1. \A m \in U : m <= x
      BY <2>1, <2>2, <1>6
    <3> QED BY <3>1, <1>5 DEF Without
  <2>3. CASE x <= n
    <3>1. \A m \in U : m <= n
      BY <2>1, <2>3, <1>6
    <3> QED BY <3>1, <2>1 DEF Without
  <2> QED BY <2>1, <2>2, <2>3, <1>6
<1> QED BY <1>9, <1>10, <1>11

\* The last order of a round that has a lot is a natural number.
LEMMA LastOrderType ==
  ASSUME lot \in [Lots -> LotRow], NEW r \in {1, 2}, Questions # {}
  PROVE  LastOrder(r) \in Nat
<1> DEFINE f == [q \in Questions |-> lot[<<q, r>>].order]
           S == {f[q] : q \in Questions}
<1>1. {lot[l].order : l \in Round(r)} = S
  <2>1. \A l \in Round(r) : l[1] \in Questions /\ l = <<l[1], r>>
    BY DEF Round, Lots
  <2>2. \A q \in Questions : <<q, r>> \in Round(r)
    BY DEF Round, Lots
  <2> QED BY <2>1, <2>2, Zenon
<1>2. S \in SUBSET Nat
  BY DEF Lots, LotRow
<1>3. IsFiniteSet(S)
  <2>1. f \in Surjection(Questions, S)
    BY DEF Surjection
  <2>2. IsFiniteSet(Questions)
    BY AuctionAssumption
  <2> HIDE DEF f, S
  <2> QED BY <2>1, <2>2, FS_Surjection, Zenon
<1>4. S # {}
  OBVIOUS
<1>5. PICK n \in S : \A m \in S : m <= n
  <2> HIDE DEF S
  <2> QED BY <1>2, <1>3, <1>4, FiniteSetHasMax, Zenon
<1>6. \A l \in Round(r) : lot[l].order \in S
  BY <1>1, Zenon
<1>7. \E n2 \in S : \A l \in Round(r) : lot[l].order <= n2
  BY <1>5, <1>6, Zenon
<1>8. LastOrder(r) \in S
  <2> HIDE DEF S
  <2> QED BY <1>1, <1>7, Zenon DEF LastOrder
<1> QED BY <1>2, <1>8

-----------------------------------------------------------------------------
(* Types.                                                                   *)

\* TypeOK is not inductive as it stands: a refund needs the owner of a live sale
\* to be a participant, and a settlement needs the lot a worker holds to be one.
OwnerIsKnown == \A q \in Questions : own[q].live => own[q].by \in Participants
JobHoldsALot == \A w \in Workers : job[w].at \in {"settle", "close"} => job[w].lot \in Lots
TypeInv == TypeOK /\ OwnerIsKnown /\ JobHoldsALot

SaleTypes == own \in [Questions -> SaleRow] /\ OwnerIsKnown
MoneyTypes ==
  /\ balance \in [Participants -> Nat]
  /\ ledger \in [Participants -> [Questions -> Int]]

\* Move keeps every balance a natural number.
LEMMA MoveType ==
  ASSUME MoneyTypes, NEW p \in Participants, NEW q \in Questions, NEW delta \in Int,
         Move(p, delta, q)
  PROVE  MoneyTypes'
<1>1. balance' \in [Participants -> Nat]
  BY DEF Move, MoneyTypes
<1>2. ledger' \in [Participants -> [Questions -> Int]]
  BY DEF Move, MoneyTypes
<1> QED BY <1>1, <1>2 DEF MoneyTypes

\* A sale at a natural price to a participant keeps the types of what it writes.
LEMMA SellType ==
  ASSUME TypeInv, NEW p \in Participants, NEW q \in Questions, NEW price \in Nat,
         Sell(q, p, price)
  PROVE  /\ MoneyTypes' /\ SaleTypes'
         /\ status' \in [Questions -> {"unsold", "sold", "void"}]
<1>1. MoneyTypes'
  <2>1. MoneyTypes /\ -price \in Int
    BY DEF TypeInv, TypeOK, MoneyTypes
  <2> QED BY <2>1, MoveType DEF Sell
<1>2. own' \in [Questions -> SaleRow]
  BY DEF Sell, Grant, TypeInv, TypeOK, SaleRow
<1>3. OwnerIsKnown'
  BY DEF Sell, Grant, TypeInv, TypeOK, OwnerIsKnown
<1>4. status' \in [Questions -> {"unsold", "sold", "void"}]
  BY DEF Sell, MarkSold, TypeInv, TypeOK
<1> QED BY <1>1, <1>2, <1>3, <1>4 DEF SaleTypes

\* So does settling a lot, whether it is awarded or unsold.
LEMMA SettleType ==
  ASSUME TypeInv, NEW l \in Lots, Settle(l)
  PROVE  /\ MoneyTypes' /\ SaleTypes'
         /\ status' \in [Questions -> {"unsold", "sold", "void"}]
         /\ lot' \in [Lots -> LotRow]
<1>1. lot' \in [Lots -> LotRow]
  <2>1. CASE lot' = [lot EXCEPT ![l].state = "unsold"]
    BY <2>1 DEF TypeInv, TypeOK, LotRow, LotStates
  <2>2. CASE lot' = [lot EXCEPT ![l].state = "closed"]
    BY <2>2 DEF TypeInv, TypeOK, LotRow, LotStates
  <2> QED BY <2>1, <2>2 DEF Settle, Award
<1>2. CASE lot[l].top = NoBid /\ UNCHANGED <<sales, money>>
  BY <1>1, <1>2 DEF TypeInv, TypeOK, SaleTypes, MoneyTypes, OwnerIsKnown, sales, money
<1>3. CASE lot[l].top # NoBid /\ Award(l, lot[l].top.by, lot[l].top.amount)
  <2>1. lot[l].top.by \in Participants /\ lot[l].top.amount \in Nat /\ l[1] \in Questions
    BY <1>3 DEF TypeInv, TypeOK, LotRow, Bid, Lots
  <2>2. Sell(l[1], lot[l].top.by, lot[l].top.amount)
    BY <1>3 DEF Award
  <2> QED BY <1>1, <2>1, <2>2, SellType
<1> QED BY <1>2, <1>3 DEF Settle

\* What is refunded is a natural number.
LEMMA RefundType ==
  ASSUME TypeInv, NEW q \in Questions, own[q].live, NEW a \in BOOLEAN, NEW b \in BOOLEAN
  PROVE  Refund(q, a, b) \in Nat
<1>1. own[q].price \in Nat /\ own[q].by \in Participants
  BY DEF TypeInv, TypeOK, SaleRow, OwnerIsKnown
<1>2. hints[own[q].by][q] \in Nat /\ HintPrice \in Nat
  BY <1>1, AuctionAssumption DEF TypeInv, TypeOK
<1>3. hints[own[q].by][q] * HintPrice \in Nat
  BY <1>2
<1> QED BY <1>1, <1>3 DEF Refund

\* Playing keeps the types.
LEMMA PlayingType == ASSUME TypeInv, Playing PROVE TypeInv'
<1>1. ASSUME NEW p \in Participants, NEW l \in Lots, PlaceBid(p, l) PROVE TypeInv'
  <2> DEFINE row == [by |-> p, amount |-> NextBidAmount(l)]
  <2>1. row \in Bid
    <3>1. lot[l].top # NoBid => lot[l].top.amount \in Nat
      BY DEF TypeInv, TypeOK, LotRow, Bid
    <3>2. NextBidAmount(l) \in Nat
      BY <3>1, AuctionAssumption DEF NextBidAmount
    <3> QED BY <3>2 DEF Bid
  <2>2. AfterBid \in Clocks
    BY DEF AfterBid, Clocks
  <2>3. lot' = [lot EXCEPT ![l].top = row, ![l].clock = AfterBid]
    BY <1>1 DEF PlaceBid
  <2>4. lot' \in [Lots -> LotRow]
    <3> HIDE DEF row
    <3> QED BY <2>1, <2>2, <2>3 DEF TypeInv, TypeOK, LotRow
  <2>5. bids' \in [Lots -> Seq(Bid)]
    <3>1. bids' = [bids EXCEPT ![l] = Append(@, row)]
      BY <1>1 DEF PlaceBid
    <3> HIDE DEF row
    <3> QED BY <2>1, <3>1 DEF TypeInv, TypeOK
  <2> QED BY <1>1, <2>4, <2>5 DEF PlaceBid, TypeInv, TypeOK, OwnerIsKnown, JobHoldsALot,
                                  contest, sales, money
<1>2. ASSUME NEW p \in Participants, NEW q \in Questions, BuyHint(p, q) PROVE TypeInv'
  <2>1. MoneyTypes'
    <3>1. MoneyTypes /\ -HintPrice \in Int
      BY AuctionAssumption DEF TypeInv, TypeOK, MoneyTypes
    <3> QED BY <1>2, <3>1, MoveType DEF BuyHint
  <2>2. hints' \in [Participants -> [Questions -> Nat]]
    BY <1>2 DEF BuyHint, TypeInv, TypeOK
  <2> QED BY <1>2, <2>1, <2>2 DEF BuyHint, TypeInv, TypeOK, MoneyTypes, OwnerIsKnown,
                                  JobHoldsALot, contest, block, sales
<1>3. ASSUME NEW l \in Lots, ClockRunsOut(l) PROVE TypeInv'
  <2>1. lot' \in [Lots -> LotRow]
    BY <1>3 DEF ClockRunsOut, TypeInv, TypeOK, LotRow, Clocks
  <2> QED BY <1>3, <2>1 DEF ClockRunsOut, TypeInv, TypeOK, OwnerIsKnown, JobHoldsALot,
                            contest, sales, money
<1> QED BY <1>1, <1>2, <1>3 DEF Playing

\* A lot given another state and another clock is still a lot row.
LEMMA StateAndClockType ==
  ASSUME lot \in [Lots -> LotRow], NEW l \in Lots, NEW s \in LotStates, NEW c \in Clocks,
         lot' = [lot EXCEPT ![l].state = s, ![l].clock = c]
  PROVE  lot' \in [Lots -> LotRow]
<1>1. lot' = [m \in Lots |-> IF m = l THEN [lot[l] EXCEPT !.state = s, !.clock = c] ELSE lot[m]]
  OBVIOUS
<1>2. [lot[l] EXCEPT !.state = s, !.clock = c] \in LotRow
  BY DEF LotRow
<1> QED BY <1>1, <1>2

\* The jobs a worker goes on to are jobs.
LEMMA JobType ==
  ASSUME TypeInv, NEW w \in Workers, NEW step \in JobSteps, NEW r \in 0..2,
         NEW l \in Lots \cup {NoLot}, step \in {"settle", "close"} => l \in Lots,
         Goes(w, Busy(step, r, l)) \/ Goes(w, Idle)
  PROVE  job' \in [Workers -> Job] /\ JobHoldsALot'
<1>1. Busy(step, r, l) \in Job /\ Idle \in Job
  BY DEF Busy, Idle, Job, JobSteps, NoLot
<1>2. job \in [Workers -> Job]
  BY DEF TypeInv, TypeOK
<1>3. job' \in [Workers -> Job]
  BY <1>1, <1>2 DEF Goes
<1>4. JobHoldsALot'
  <2> SUFFICES ASSUME NEW v \in Workers, job'[v].at \in {"settle", "close"}
               PROVE  job'[v].lot \in Lots
    BY DEF JobHoldsALot
  <2>1. CASE v # w
    BY <1>2, <2>1 DEF Goes, TypeInv, JobHoldsALot
  <2>2. CASE v = w
    BY <1>2, <2>2 DEF Goes, Busy, Idle
  <2> QED BY <2>1, <2>2
<1> QED BY <1>3, <1>4

\* Working keeps the types.
LEMMA WorkingType == ASSUME TypeInv, NEW w \in Workers PROVE
  /\ TickRead(w) => TypeInv'
  /\ SettleIfDue(w) => TypeInv'
  /\ CheckBlock(w) => TypeInv'
  /\ PickLot(w) => TypeInv'
  /\ CloseLot(w) => TypeInv'
  /\ Crash(w) => TypeInv'
<1> DEFINE r == job[w].round
           l == job[w].lot
<1>1. r \in 0..2
  BY DEF TypeInv, TypeOK, Job
<1>2. job[w].at \in {"settle", "close"} => l \in Lots
  BY DEF TypeInv, JobHoldsALot
<1>3. NoLot \in Lots \cup {NoLot}
  OBVIOUS
<1> HIDE DEF r, l
<1>4. ASSUME TickRead(w) PROVE TypeInv'
  <2>1. AuctionRound(phase) \in 0..2
    BY DEF AuctionRound
  <2>2. PICK step \in {"open", "settle"}, m \in Lots \cup {NoLot} :
          /\ Goes(w, Busy(step, AuctionRound(phase), m))
          /\ step = "settle" => m \in Lots
    BY <1>4, Zenon DEF TickRead, OpenLots
  <2>3. job' \in [Workers -> Job] /\ JobHoldsALot'
    BY <2>1, <2>2, JobType DEF JobSteps
  <2> QED BY <1>4, <2>3 DEF TickRead, TypeInv, TypeOK, OwnerIsKnown, contest, block, sales, money
<1>5. ASSUME job[w].at \in {"settle", "close"}, Settle(l) \/ UNCHANGED <<lot, sales, money>>,
             Goes(w, Busy("open", r, NoLot)) \/ Goes(w, Idle),
             UNCHANGED <<contest, bids, hints, disqualified, interventions>>
      PROVE  TypeInv'
  <2>1. job' \in [Workers -> Job] /\ JobHoldsALot'
    BY <1>1, <1>3, <1>5, JobType DEF JobSteps
  <2>2. /\ MoneyTypes' /\ SaleTypes'
        /\ status' \in [Questions -> {"unsold", "sold", "void"}]
        /\ lot' \in [Lots -> LotRow]
    <3>1. CASE Settle(l)
      BY <1>2, <1>5, <3>1, SettleType
    <3>2. CASE UNCHANGED <<lot, sales, money>>
      BY <3>2 DEF TypeInv, TypeOK, MoneyTypes, SaleTypes, OwnerIsKnown, sales, money
    <3> QED BY <1>5, <3>1, <3>2
  <2> QED BY <1>5, <2>1, <2>2 DEF TypeInv, TypeOK, MoneyTypes, SaleTypes, contest
<1>6. ASSUME SettleIfDue(w) PROVE TypeInv'
  BY <1>5, <1>6, Zenon DEF SettleIfDue, r, l
<1>7. ASSUME CloseLot(w) PROVE TypeInv'
  BY <1>5, <1>7, Zenon DEF CloseLot, r, l
<1>8. ASSUME CheckBlock(w) PROVE TypeInv'
  <2>1. Goes(w, Busy("pick", r, NoLot)) \/ Goes(w, Idle)
    BY <1>8 DEF CheckBlock, r
  <2>2. job' \in [Workers -> Job] /\ JobHoldsALot'
    BY <1>1, <1>3, <2>1, JobType DEF JobSteps
  <2> QED BY <1>8, <2>2 DEF CheckBlock, TypeInv, TypeOK, OwnerIsKnown, contest, block, sales, money
<1>9. ASSUME PickLot(w) PROVE TypeInv'
  <2>1. job' \in [Workers -> Job] /\ JobHoldsALot'
    BY <1>1, <1>3, <1>9, JobType DEF PickLot, JobSteps
  <2>2. lot' \in [Lots -> LotRow]
    <3>1. CASE UNCHANGED lot
      BY <3>1 DEF TypeInv, TypeOK
    <3>2. ASSUME NEW m \in NextPending(job[w].round),
                 lot' = [lot EXCEPT ![m].state = "open",
                                    ![m].clock = IF mode = "offline" THEN "off" ELSE "live"]
          PROVE  lot' \in [Lots -> LotRow]
      <4> DEFINE c == IF mode = "offline" THEN "off" ELSE "live"
      <4>1. c \in Clocks
        BY DEF Clocks
      <4>2. m \in Lots /\ "open" \in LotStates
        BY DEF NextPending, Pending, Round, LotStates
      <4>3. lot' = [lot EXCEPT ![m].state = "open", ![m].clock = c]
        BY <3>2
      <4> HIDE DEF c
      <4> QED BY <4>1, <4>2, <4>3, StateAndClockType DEF TypeInv, TypeOK
    <3> QED BY <1>9, <3>1, <3>2, Zenon DEF PickLot
  <2> QED BY <1>9, <2>1, <2>2 DEF PickLot, TypeInv, TypeOK, OwnerIsKnown, contest, sales, money
<1>10. ASSUME Crash(w) PROVE TypeInv'
  <2>1. job' \in [Workers -> Job] /\ JobHoldsALot'
    BY <1>1, <1>3, <1>10, JobType DEF Crash, JobSteps
  <2>2. interventions' \in Nat
    BY <1>10 DEF Crash, Intervene, TypeInv, TypeOK
  <2> QED BY <1>10, <2>1, <2>2 DEF Crash, TypeInv, TypeOK, OwnerIsKnown,
                                   contest, block, sales, money
<1> QED BY <1>4, <1>6, <1>7, <1>8, <1>9, <1>10

\* A place in the queue is a count of questions, so creating lots keeps their types.
LEMMA CreateLotsType ==
  ASSUME TypeInv, NEW r \in {1, 2}, CreateLots(r)
  PROVE  lot' \in [Lots -> LotRow]
<1> DEFINE offered == {q \in Questions : IF r = 1 THEN status[q] # "void" ELSE status[q] = "unsold"}
           place(q) == Cardinality({o \in offered : Rank[o] <= Rank[q]})
<1>1. \A q \in Questions : place(q) \in Nat
  <2> SUFFICES ASSUME NEW q \in Questions PROVE place(q) \in Nat
    OBVIOUS
  <2>1. {o \in offered : Rank[o] <= Rank[q]} \in SUBSET Questions
    OBVIOUS
  <2> QED BY <2>1, AuctionAssumption, FS_Subset, FS_CardinalityType, Zenon
<1>2. lot' = [l \in Lots |-> IF l[2] = r /\ l[1] \in offered /\ lot[l].state = "none"
                             THEN Fresh(place(l[1])) ELSE lot[l]]
  BY Zenon DEF CreateLots
<1> HIDE DEF place, offered
<1>3. \A q \in Questions : Fresh(place(q)) \in LotRow
  BY <1>1 DEF Fresh, LotRow, LotStates, Clocks
<1>4. \A l \in Lots : l[1] \in Questions
  BY DEF Lots
<1>5. \A l \in Lots : lot[l] \in LotRow
  BY DEF TypeInv, TypeOK
<1>6. \A l \in Lots : (IF l[2] = r /\ l[1] \in offered /\ lot[l].state = "none"
                       THEN Fresh(place(l[1])) ELSE lot[l]) \in LotRow
  BY <1>3, <1>4, <1>5, Zenon
<1> QED BY <1>2, <1>6, Zenon

\* Counting an organiser's operation.
LEMMA InterveneType ==
  ASSUME TypeInv, NEW op, Intervene(op)
  PROVE  interventions' \in Nat
BY DEF Intervene, TypeInv, TypeOK

\* A lot that goes to the back of its queue keeps the type of a lot.
LEMMA BackOfTheQueueType ==
  ASSUME TypeInv, NEW l \in Lots
  PROVE  LastOrder(l[2]) + 1 \in Nat
<1>1. l[2] \in {1, 2} /\ Questions # {} /\ lot \in [Lots -> LotRow]
  BY DEF Lots, TypeInv, TypeOK
<1> QED BY <1>1, LastOrderType

\* Running the auction keeps the types: the operations of one organiser at a time.
LEMMA RunningType == ASSUME TypeInv, Running PROVE TypeInv'
<1>1. CASE Pause \/ Resume \/ ChangeMode
  <2>1. interventions' \in Nat
    BY <1>1, InterveneType DEF Pause, ChangeMode, Resume, TypeInv, TypeOK
  <2> QED BY <1>1, <2>1 DEF Pause, Resume, ChangeMode, TypeInv, TypeOK, OwnerIsKnown,
                            JobHoldsALot, contest, block, sales, money
<1>2. CASE SetLotTimer
  <2>1. interventions' \in Nat
    BY <1>2, InterveneType DEF SetLotTimer
  <2>2. PICK l \in Lots, c \in Clocks : lot' = [lot EXCEPT ![l].clock = c]
    BY <1>2, Zenon DEF SetLotTimer, OpenLots, NewClocks, Clocks
  <2>3. lot' \in [Lots -> LotRow]
    BY <2>2 DEF TypeInv, TypeOK, LotRow
  <2> QED BY <1>2, <2>1, <2>3 DEF SetLotTimer, TypeInv, TypeOK, OwnerIsKnown, JobHoldsALot,
                                  contest, sales, money
<1>3. CASE RetractTopBid
  <2>1. interventions' \in Nat
    BY <1>3, InterveneType DEF RetractTopBid
  <2>2. PICK l \in OpenLots :
          /\ bids[l] # <<>>
          /\ bids' = [bids EXCEPT ![l] = WithoutLast(@)]
          /\ lot' = [lot EXCEPT ![l].top = PreviousBid(l),
                                ![l].clock = IF PreviousBid(l) = NoBid THEN "live" ELSE AfterBid]
    BY <1>3, Zenon DEF RetractTopBid
  <2>3. l \in Lots /\ bids[l] \in Seq(Bid)
    BY DEF OpenLots, TypeInv, TypeOK
  <2>4. WithoutLast(bids[l]) \in Seq(Bid)
    BY <2>2, <2>3 DEF WithoutLast
  <2>5. PreviousBid(l) \in Bid \cup {NoBid}
    BY <2>3 DEF PreviousBid
  <2>6. bids' \in [Lots -> Seq(Bid)]
    BY <2>2, <2>3, <2>4 DEF TypeInv, TypeOK
  <2>7. lot' \in [Lots -> LotRow]
    <3> DEFINE b == PreviousBid(l)
               c == IF b = NoBid THEN "live" ELSE AfterBid
    <3>1. c \in Clocks
      BY DEF AfterBid, Clocks
    <3>2. lot' = [lot EXCEPT ![l].top = b, ![l].clock = c]
      BY <2>2
    <3>3. b \in Bid \cup {NoBid}
      BY <2>5
    <3> HIDE DEF b, c
    <3> QED BY <2>3, <3>1, <3>2, <3>3 DEF TypeInv, TypeOK, LotRow
  <2> QED BY <1>3, <2>1, <2>6, <2>7 DEF RetractTopBid, TypeInv, TypeOK, OwnerIsKnown,
                                        JobHoldsALot, contest, sales, money
<1>4. ASSUME NEW w \in Organisers, Advance(w) PROVE TypeInv'
  <2>1. phase' \in Phases
    BY <1>4 DEF Advance, NextPhase, TypeInv, TypeOK, Phases
  <2>2. ActiveRound(phase') \in 0..2
    BY DEF ActiveRound, AuctionRound
  <2>3. job' \in [Workers -> Job] /\ JobHoldsALot'
    BY <1>4, <2>2, JobType DEF Advance, Then, Workers, JobSteps
  <2>4. lot' \in [Lots -> LotRow]
    <3>1. CASE ActiveRound(phase') = 0
      BY <1>4, <3>1 DEF Advance, TypeInv, TypeOK
    <3>2. CASE ActiveRound(phase') # 0
      <4>1. CreateLots(ActiveRound(phase'))
        BY <1>4, <3>2 DEF Advance
      <4> QED BY <2>2, <3>2, <4>1, CreateLotsType
    <3> QED BY <3>1, <3>2
  <2> QED BY <1>4, <2>1, <2>3, <2>4 DEF Advance, TypeInv, TypeOK, OwnerIsKnown, sales, money
<1>5. ASSUME NEW w \in Organisers, CloseLotNow(w) PROVE TypeInv'
  <2>1. interventions' \in Nat
    BY <1>5, InterveneType DEF CloseLotNow
  <2>2. AuctionRound(phase) \in 0..2
    BY DEF AuctionRound
  <2>3. PICK l \in Lots : Goes(w, Busy("close", AuctionRound(phase), l))
    BY <1>5, Zenon DEF CloseLotNow, OpenLots
  <2>4. job' \in [Workers -> Job] /\ JobHoldsALot'
    BY <2>2, <2>3, JobType DEF Workers, JobSteps
  <2> QED BY <1>5, <2>1, <2>4 DEF CloseLotNow, TypeInv, TypeOK, OwnerIsKnown,
                                  contest, block, sales, money
<1>6. ASSUME NEW w \in Organisers, NEW l \in Lots, WithdrawLot(w, l) \/ RecordUnsold(w, l)
      PROVE  TypeInv'
  <2>1. interventions' \in Nat
    BY <1>6, InterveneType DEF WithdrawLot, RecordUnsold, TypeInv, TypeOK
  <2>2. ActiveRound(phase) \in 0..2
    BY DEF ActiveRound, AuctionRound
  <2>3. job' \in [Workers -> Job] /\ JobHoldsALot'
    BY <1>6, <2>2, JobType DEF WithdrawLot, RecordUnsold, Then, Workers, JobSteps
  <2>4. PICK s \in LotStates : lot' = [lot EXCEPT ![l].state = s, ![l].clock = "off"]
    BY <1>6, Zenon DEF WithdrawLot, RecordUnsold, LotStates
  <2>5. "off" \in Clocks
    BY DEF Clocks
  <2>6. lot' \in [Lots -> LotRow]
    BY <2>4, <2>5, StateAndClockType DEF TypeInv, TypeOK
  <2> QED BY <1>6, <2>1, <2>3, <2>6 DEF WithdrawLot, RecordUnsold, TypeInv, TypeOK,
                                        OwnerIsKnown, contest, sales, money
<1>7. ASSUME NEW w \in Organisers, NEW l \in Lots, NEW p \in Participants, NEW price \in Prices,
             RecordSale(w, l, p, price)
      PROVE  TypeInv'
  <2>1. AuctionRound(phase) \in 0..2
    BY DEF AuctionRound
  <2>2. job' \in [Workers -> Job] /\ JobHoldsALot'
    BY <1>7, <2>1, JobType DEF RecordSale, Workers, JobSteps
  <2>3. l[1] \in Questions /\ price \in Nat
    BY AuctionAssumption DEF Lots
  <2>4. /\ MoneyTypes' /\ SaleTypes'
        /\ status' \in [Questions -> {"unsold", "sold", "void"}]
    BY <1>7, <2>3, SellType DEF RecordSale, Award
  <2>5. lot' = [lot EXCEPT ![l].state = "closed"]
    BY <1>7 DEF RecordSale, Award
  <2>6. lot' \in [Lots -> LotRow]
    BY <2>5 DEF TypeInv, TypeOK, LotRow, LotStates
  <2> QED BY <1>7, <2>2, <2>4, <2>6 DEF RecordSale, TypeInv, TypeOK, MoneyTypes, SaleTypes, contest
<1>8. ASSUME NEW l \in Lots, RestoreLot(l) PROVE TypeInv'
  <2>1. interventions' \in Nat
    BY <1>8, InterveneType DEF RestoreLot
  <2>2. PICK n \in Nat : lot' = [lot EXCEPT ![l].state = "pending", ![l].order = n, ![l].top = NoBid]
    BY <1>8, BackOfTheQueueType, Zenon DEF RestoreLot
  <2>3. lot' \in [Lots -> LotRow]
    <3>1. lot \in [Lots -> LotRow]
      BY DEF TypeInv, TypeOK
    <3>2. [lot[l] EXCEPT !.state = "pending", !.order = n, !.top = NoBid] \in LotRow
      BY <3>1 DEF LotRow, LotStates
    <3> QED BY <2>2, <3>1, <3>2
  <2> QED BY <1>8, <2>1, <2>3 DEF RestoreLot, TypeInv, TypeOK, OwnerIsKnown, JobHoldsALot,
                                  contest, sales, money
<1>9. ASSUME NEW r \in {1, 2}, ReorderLots(r) PROVE TypeInv'
  <2>1. interventions' \in Nat
    BY <1>9, InterveneType DEF ReorderLots
  <2>2. PICK slot \in [Pending(r) -> Pending(r)] :
          lot' = [l \in Lots |-> IF l \in Pending(r)
                                 THEN [lot[l] EXCEPT !.order = lot[slot[l]].order] ELSE lot[l]]
    BY <1>9, Zenon DEF ReorderLots
  <2>3. \A l \in Pending(r) : lot[slot[l]].order \in Nat
    BY DEF Pending, Round, TypeInv, TypeOK, LotRow
  <2>4. \A l \in Pending(r) : [lot[l] EXCEPT !.order = lot[slot[l]].order] \in LotRow
    <3> SUFFICES ASSUME NEW l \in Pending(r)
                 PROVE  [lot[l] EXCEPT !.order = lot[slot[l]].order] \in LotRow
      OBVIOUS
    <3> DEFINE n == lot[slot[l]].order
    <3>1. n \in Nat
      BY <2>3
    <3>2. lot[l] \in LotRow
      BY DEF Pending, Round, TypeInv, TypeOK
    <3>3. [lot[l] EXCEPT !.order = n] \in LotRow
      <4> HIDE DEF n
      <4> QED BY <3>1, <3>2 DEF LotRow
    <3> QED BY <3>3
  <2>5. lot' \in [Lots -> LotRow]
    <3>1. \A l \in Lots : lot[l] \in LotRow
      BY DEF TypeInv, TypeOK
    <3> QED BY <2>2, <2>4, <3>1, Zenon
  <2> QED BY <1>9, <2>1, <2>5 DEF ReorderLots, TypeInv, TypeOK, OwnerIsKnown, JobHoldsALot,
                                  contest, sales, money
<1> QED BY <1>1, <1>2, <1>3, <1>4, <1>5, <1>6, <1>7, <1>8, <1>9, Zenon DEF Running

\* Correcting a sale keeps the types.
LEMMA CorrectingType == ASSUME TypeInv, Correcting PROVE TypeInv'
<1>1. ASSUME NEW q \in Questions, NEW p \in Participants, NEW price \in Prices,
             AssignQuestion(q, p, price)
      PROVE  TypeInv'
  <2>1. interventions' \in Nat
    BY <1>1, InterveneType DEF AssignQuestion
  <2>2. price \in Nat
    BY AuctionAssumption
  <2>3. /\ MoneyTypes' /\ SaleTypes'
        /\ status' \in [Questions -> {"unsold", "sold", "void"}]
    BY <1>1, <2>2, SellType DEF AssignQuestion
  <2> QED BY <1>1, <2>1, <2>3 DEF AssignQuestion, TypeInv, TypeOK, MoneyTypes, SaleTypes,
                                  JobHoldsALot, contest, block
<1>2. ASSUME NEW q \in Questions, own[q].live, VoidSale(q) PROVE SaleTypes'
  <2>1. own' \in [Questions -> SaleRow]
    BY <1>2 DEF VoidSale, TypeInv, TypeOK, SaleRow
  <2>2. OwnerIsKnown'
    BY <1>2 DEF VoidSale, TypeInv, TypeOK, SaleRow, OwnerIsKnown
  <2> QED BY <2>1, <2>2 DEF SaleTypes
<1>3. ASSUME NEW q \in Questions, own[q].live, NEW a \in BOOLEAN, NEW b \in BOOLEAN,
             Move(own[q].by, Refund(q, a, b), q)
      PROVE  MoneyTypes'
  <2>1. own[q].by \in Participants
    BY <1>3 DEF TypeInv, OwnerIsKnown
  <2>2. Refund(q, a, b) \in Int
    BY <1>3, RefundType
  <2>3. MoneyTypes
    BY DEF MoneyTypes, TypeInv, TypeOK
  <2> QED BY <1>3, <2>1, <2>2, <2>3, MoveType
<1>4. ASSUME NEW q \in Questions, NEW a \in BOOLEAN, NEW b \in BOOLEAN, NEW c \in BOOLEAN,
             TakeBackQuestion(q, a, b, c)
      PROVE  TypeInv'
  <2>1. interventions' \in Nat
    BY <1>4, InterveneType DEF TakeBackQuestion
  <2>2. SaleTypes' /\ MoneyTypes'
    BY <1>2, <1>3, <1>4, Zenon DEF TakeBackQuestion
  <2>3. hints' \in [Participants -> [Questions -> Nat]]
    BY <1>4 DEF TakeBackQuestion, TypeInv, TypeOK
  <2>4. status' \in [Questions -> {"unsold", "sold", "void"}]
    BY <1>4 DEF TakeBackQuestion, TypeInv, TypeOK
  <2>5. lot' \in [Lots -> LotRow]
    <3> DEFINE l == <<q, AuctionRound(phase)>>
    <3>1. l \in Lots
      BY DEF Lots, AuctionRound
    <3> HIDE DEF l
    <3>2. Fresh(LastOrder(l[2]) + 1) \in LotRow
      BY <3>1, BackOfTheQueueType DEF Fresh, LotRow, LotStates, Clocks
    <3>3. CASE UNCHANGED lot
      BY <3>3 DEF TypeInv, TypeOK
    <3>4. CASE Relist(l)
      BY <3>1, <3>2, <3>4 DEF Relist, TypeInv, TypeOK
    <3> QED BY <1>4, <3>3, <3>4 DEF TakeBackQuestion, l
  <2> QED BY <1>4, <2>1, <2>2, <2>3, <2>4, <2>5 DEF TakeBackQuestion, TypeInv, TypeOK, SaleTypes,
                                                    MoneyTypes, JobHoldsALot, contest
<1>5. ASSUME NEW q \in Questions, NEW a \in BOOLEAN, NEW b \in BOOLEAN, VoidQuestion(q, a, b)
      PROVE  TypeInv'
  <2>1. interventions' \in Nat
    BY <1>5, InterveneType DEF VoidQuestion
  <2>2. SaleTypes' /\ MoneyTypes'
    <3>1. CASE own[q].live
      BY <1>2, <1>3, <1>5, <3>1, Zenon DEF VoidQuestion
    <3>2. CASE ~own[q].live
      BY <1>5, <3>2 DEF VoidQuestion, money, TypeInv, TypeOK, SaleTypes, MoneyTypes, OwnerIsKnown
    <3> QED BY <3>1, <3>2
  <2>3. status' \in [Questions -> {"unsold", "sold", "void"}]
    BY <1>5 DEF VoidQuestion, TypeInv, TypeOK
  <2> QED BY <1>5, <2>1, <2>2, <2>3 DEF VoidQuestion, TypeInv, TypeOK, SaleTypes, MoneyTypes,
                                        JobHoldsALot, contest, block
<1>6. ASSUME NEW q \in Questions, RejudgeRefund(q) PROVE TypeInv'
  <2>1. interventions' \in Nat
    BY <1>6, InterveneType DEF RejudgeRefund
  <2>2. own[q].by \in Participants
    BY <1>6 DEF RejudgeRefund, TypeInv, OwnerIsKnown
  <2>3. own[q].price \in Int
    BY DEF TypeInv, TypeOK, SaleRow
  <2>4. MoneyTypes
    BY DEF MoneyTypes, TypeInv, TypeOK
  <2>5. MoneyTypes'
    BY <1>6, <2>2, <2>3, <2>4, MoveType DEF RejudgeRefund
  <2> QED BY <1>6, <2>1, <2>5 DEF RejudgeRefund, TypeInv, TypeOK, MoneyTypes, OwnerIsKnown,
                                  JobHoldsALot, contest, block, sales
<1>7. ASSUME NEW q \in Questions, NEW p \in Participants, TransferOwnership(q, p) PROVE TypeInv'
  <2>1. interventions' \in Nat
    BY <1>7, InterveneType DEF TransferOwnership
  <2>2. own' \in [Questions -> SaleRow]
    BY <1>7 DEF TransferOwnership, TypeInv, TypeOK, SaleRow
  <2>3. OwnerIsKnown'
    BY <1>7 DEF TransferOwnership, TypeInv, TypeOK, SaleRow, OwnerIsKnown
  <2> QED BY <1>7, <2>1, <2>2, <2>3 DEF TransferOwnership, TypeInv, TypeOK, JobHoldsALot,
                                        contest, block, money
<1>8. ASSUME NEW p \in Participants, NEW delta \in Adjustments, AdjustBalance(p, delta)
      PROVE  TypeInv'
  <2>1. interventions' \in Nat
    BY <1>8, InterveneType DEF AdjustBalance
  <2>2. balance' \in [Participants -> Nat]
    BY <1>8, AuctionAssumption DEF AdjustBalance, TypeInv, TypeOK
  <2> QED BY <1>8, <2>1, <2>2 DEF AdjustBalance, TypeInv, TypeOK, OwnerIsKnown, JobHoldsALot,
                                  contest, block, sales
<1>9. ASSUME NEW p \in Participants, Disqualify(p) PROVE TypeInv'
  <2>1. interventions' \in Nat
    BY <1>9, InterveneType DEF Disqualify
  <2> QED BY <1>9, <2>1 DEF Disqualify, TypeInv, TypeOK, OwnerIsKnown, JobHoldsALot,
                            contest, block, sales, money
<1> QED BY <1>1, <1>4, <1>5, <1>6, <1>7, <1>8, <1>9, Zenon DEF Correcting

\* The types hold initially and no step breaks them.
LEMMA TypeInvInit == Init => TypeInv
<1> SUFFICES ASSUME Init PROVE TypeInv
  OBVIOUS
<1>1. lot \in [Lots -> LotRow]
  BY DEF Init, NoRow, LotRow, LotStates, Clocks
<1>2. own \in [Questions -> SaleRow] /\ OwnerIsKnown
  BY DEF Init, SaleRow, OwnerIsKnown
<1>3. job \in [Workers -> Job] /\ JobHoldsALot
  BY DEF Init, Idle, Job, JobSteps, JobHoldsALot, NoLot
<1>4. balance \in [Participants -> Nat]
  BY AuctionAssumption DEF Init
<1>5. bids \in [Lots -> Seq(Bid)] /\ status \in [Questions -> {"unsold", "sold", "void"}]
  BY DEF Init
<1>6. /\ ledger \in [Participants -> [Questions -> Int]]
      /\ hints \in [Participants -> [Questions -> Nat]]
  BY DEF Init
<1>7. phase \in Phases /\ paused \in BOOLEAN /\ mode \in {"online", "offline"}
  BY DEF Init, Phases
<1>8. disqualified \subseteq Participants /\ interventions \in Nat
  BY DEF Init
<1> QED BY <1>1, <1>2, <1>3, <1>4, <1>5, <1>6, <1>7, <1>8 DEF TypeInv, TypeOK

LEMMA TypeInvStep == TypeInv /\ [Next]_vars => TypeInv'
<1> SUFFICES ASSUME TypeInv, [Next]_vars PROVE TypeInv'
  OBVIOUS
<1>1. CASE Playing
  BY <1>1, PlayingType
<1>2. CASE Working
  <2>1. Scheduler \in Workers /\ Organisers \subseteq Workers
    BY DEF Workers
  <2> QED BY <1>2, <2>1, WorkingType, Zenon DEF Working, Tick
<1>3. CASE Running
  BY <1>3, RunningType
<1>4. CASE Correcting
  BY <1>4, CorrectingType
<1>5. CASE UNCHANGED vars
  BY <1>5 DEF vars, contest, block, sales, money, TypeInv, TypeOK, OwnerIsKnown, JobHoldsALot
<1> QED BY <1>1, <1>2, <1>3, <1>4, <1>5 DEF Next

\* The strengthened types hold in every behaviour.
LEMMA TypeInvHolds == Spec => []TypeInv
BY TypeInvInit, TypeInvStep, PTL DEF Spec

\* Every column keeps its type; in particular no operation of any organiser can
\* bring a balance below zero, so the table's CHECK never fires on its own.
THEOREM TypeCorrect == Spec => []TypeOK
<1>1. TypeInv => TypeOK
  BY DEF TypeInv
<1> QED BY <1>1, TypeInvHolds, PTL

-----------------------------------------------------------------------------
(* What one step can do to a lot and to its bids.                           *)

\* It comes off the block by the clock or by hand, or by an organiser's record.
ComesOff(l) ==
  \/ \E w \in Workers : /\ SettleIfDue(w) \/ CloseLot(w)
                        /\ job[w].lot = l
                        /\ Settle(l)
  \/ /\ mode = "offline"
     /\ \E w \in Organisers, j \in Job : Goes(w, j)

\* It gets a new top bid, the next rung, by somebody else who can pay and own it.
GetsABid(l) ==
  /\ lot[l].state = "open" /\ lot'[l].state = "open"
  /\ lot'[l].top \in Bid
  /\ Covers(lot'[l].top.by, lot'[l].top.amount) /\ UnderCap(lot'[l].top.by)
  /\ lot'[l].top.amount = NextBidAmount(l)
  /\ lot'[l].top.by # lot[l].top.by
  /\ bids'[l] = Append(bids[l], lot'[l].top)

\* It loses its top bid.
LosesABid(l) ==
  /\ "retract" \in Interventions
  /\ lot[l].state = "open" /\ lot'[l].state = "open"
  /\ bids[l] # <<>>
  /\ bids'[l] = WithoutLast(bids[l])
  /\ lot'[l].top = PreviousBid(l)

\* Its bids stay, and so does its top bid unless it starts afresh.
KeepsItsBids(l) ==
  /\ bids'[l] = bids[l]
  /\ \/ lot'[l] = lot[l]
     \/ /\ lot[l].state = "none" \/ "take back" \in Interventions
        /\ \E n \in Nat : lot'[l] = Fresh(n)
     \/ /\ "restore" \in Interventions
        /\ lot[l].state = "withdrawn" /\ lot'[l].state = "pending"
        /\ lot'[l].top = NoBid /\ lot'[l].clock = lot[l].clock
     \/ /\ lot'[l].top = lot[l].top
        /\ \/ /\ lot[l].state = "pending" /\ lot'[l].state = "pending"
              /\ lot'[l].clock = lot[l].clock
           \/ /\ lot[l].state = "pending" /\ lot'[l].state = "open"
              /\ OpenLots = {}
              /\ \A m \in Lots \ {l} : lot'[m] = lot[m]
           \/ lot[l].state = "open" /\ lot'[l].state = "open"
           \/ lot'[l].state = "withdrawn" /\ lot'[l].clock = "off"
           \/ lot[l].state = "open" /\ lot'[l].state \in {"closed", "unsold"} /\ ComesOff(l)

LotStep(l) == KeepsItsBids(l) \/ GetsABid(l) \/ LosesABid(l)

LEMMA FreshFields ==
  \A n : Fresh(n).state = "pending" /\ Fresh(n).top = NoBid /\ Fresh(n).clock = "off"
BY DEF Fresh

\* Steps that touch neither the lots nor their bids.
LEMMA BlockUntouched ==
  ASSUME UNCHANGED block, NEW l \in Lots
  PROVE  LotStep(l)
BY DEF block, LotStep, KeepsItsBids

\* Steps of players do one of these to each lot.
LEMMA PlayingLotStep ==
  ASSUME TypeInv, Playing, NEW l \in Lots
  PROVE  LotStep(l)
<1>0. lot \in [Lots -> LotRow] /\ bids \in [Lots -> Seq(Bid)]
  BY DEF TypeInv, TypeOK
<1>1. ASSUME NEW p \in Participants, NEW m \in Lots, PlaceBid(p, m) PROVE LotStep(l)
  <2> DEFINE row == [by |-> p, amount |-> NextBidAmount(m)]
  <2>1. row \in Bid
    <3>1. NextBidAmount(m) \in Nat
      BY <1>0, AuctionAssumption DEF NextBidAmount, LotRow, Bid
    <3> QED BY <3>1 DEF Bid
  <2>2. /\ lot[m].state = "open" /\ lot[m].top.by # row.by
        /\ bids' = [bids EXCEPT ![m] = Append(@, row)]
        /\ lot' = [lot EXCEPT ![m].top = row, ![m].clock = AfterBid]
        /\ Covers(row.by, row.amount) /\ UnderCap(row.by)
    BY <1>1 DEF PlaceBid, OnTheBlock
  <2>3. row.amount = NextBidAmount(m)
    OBVIOUS
  <2> HIDE DEF row
  <2>4. CASE l # m
    BY <1>0, <2>2, <2>4 DEF LotStep, KeepsItsBids
  <2>5. CASE l = m
    <3>1. lot'[l].top = row /\ lot'[l].state = "open" /\ bids'[l] = Append(bids[l], row)
      BY <1>0, <2>2, <2>5 DEF LotRow
    <3> QED BY <2>1, <2>2, <2>3, <2>5, <3>1 DEF LotStep, GetsABid
  <2> QED BY <2>4, <2>5
<1>2. ASSUME NEW p \in Participants, NEW q \in Questions, BuyHint(p, q) PROVE LotStep(l)
  BY <1>2, BlockUntouched DEF BuyHint
<1>3. ASSUME NEW m \in Lots, ClockRunsOut(m) PROVE LotStep(l)
  <2>1. bids'[l] = bids[l]
    BY <1>3 DEF ClockRunsOut
  <2>2. CASE l # m
    BY <1>0, <1>3, <2>1, <2>2 DEF ClockRunsOut, LotStep, KeepsItsBids
  <2>3. CASE l = m
    <3>1. lot[l].state = "open" /\ lot'[l].state = "open" /\ lot'[l].top = lot[l].top
      BY <1>0, <1>3, <2>3 DEF ClockRunsOut, LotRow
    <3> QED BY <2>1, <3>1 DEF LotStep, KeepsItsBids
  <2> QED BY <2>2, <2>3
<1> QED BY <1>1, <1>2, <1>3 DEF Playing

\* So do the workers' steps.
LEMMA WorkingLotStep ==
  ASSUME TypeInv, Working, NEW l \in Lots
  PROVE  LotStep(l)
<1>0. lot \in [Lots -> LotRow]
  BY DEF TypeInv, TypeOK
<1>1. ASSUME NEW w \in Workers, TickRead(w) \/ CheckBlock(w) \/ Crash(w) PROVE LotStep(l)
  BY <1>1, BlockUntouched DEF TickRead, CheckBlock, Crash
<1>2. ASSUME NEW w \in Workers, SettleIfDue(w) \/ CloseLot(w) PROVE LotStep(l)
  <2> DEFINE m == job[w].lot
  <2>1. bids' = bids /\ m \in Lots
    BY <1>2 DEF SettleIfDue, CloseLot, TypeInv, JobHoldsALot
  <2>2. CASE lot' = lot
    BY <2>1, <2>2 DEF LotStep, KeepsItsBids
  <2>3. CASE Settle(m) /\ lot[m].state = "open"
    <3>1. PICK s \in {"closed", "unsold"} : lot' = [lot EXCEPT ![m].state = s]
      BY <2>3, Zenon DEF Settle, Award
    <3>2. CASE l # m
      BY <1>0, <2>1, <3>1, <3>2 DEF LotStep, KeepsItsBids
    <3>3. CASE l = m
      <4>1. lot'[l].state \in {"closed", "unsold"} /\ lot'[l].top = lot[l].top
        BY <1>0, <3>1, <3>3 DEF LotRow
      <4>2. ComesOff(l)
        BY <1>2, <2>3, <3>3, Zenon DEF ComesOff
      <4> QED BY <2>1, <2>3, <3>3, <4>1, <4>2 DEF LotStep, KeepsItsBids
    <3> QED BY <3>2, <3>3
  <2> QED BY <1>2, <2>2, <2>3, Zenon DEF SettleIfDue, StillDue, CloseLot
<1>3. ASSUME NEW w \in Workers, PickLot(w) PROVE LotStep(l)
  <2>1. bids' = bids
    BY <1>3 DEF PickLot
  <2>2. CASE lot' = lot
    BY <2>1, <2>2 DEF LotStep, KeepsItsBids
  <2>3. ASSUME NEW m \in NextPending(job[w].round), OpenLots = {}, NEW c \in Clocks,
               lot' = [lot EXCEPT ![m].state = "open", ![m].clock = c]
        PROVE  LotStep(l)
    <3>1. m \in Lots /\ lot[m].state = "pending"
      BY DEF NextPending, Pending, Round
    <3>2. \A n \in Lots \ {m} : lot'[n] = lot[n]
      BY <1>0, <2>3
    <3>3. CASE l # m
      BY <2>1, <3>2, <3>3 DEF LotStep, KeepsItsBids
    <3>4. CASE l = m
      <4>1. lot'[l].state = "open" /\ lot'[l].top = lot[l].top
        BY <1>0, <2>3, <3>4 DEF LotRow
      <4> QED BY <2>1, <2>3, <3>1, <3>2, <3>4, <4>1 DEF LotStep, KeepsItsBids
    <3> QED BY <3>3, <3>4
  <2>4. (IF mode = "offline" THEN "off" ELSE "live") \in Clocks
    BY DEF Clocks
  <2> QED BY <1>3, <2>2, <2>3, <2>4, Zenon DEF PickLot, LotSingleOpen
<1>4. Scheduler \in Workers /\ Organisers \subseteq Workers
  BY DEF Workers
<1> QED BY <1>1, <1>2, <1>3, <1>4, Zenon DEF Working, Tick

\* So do the steps of an organiser running the auction.
LEMMA RunningLotStep ==
  ASSUME TypeInv, Running, NEW l \in Lots
  PROVE  LotStep(l)
<1>0. lot \in [Lots -> LotRow] /\ bids \in [Lots -> Seq(Bid)]
  BY DEF TypeInv, TypeOK
<1>1. CASE Pause \/ Resume \/ ChangeMode
  BY <1>1, BlockUntouched DEF Pause, Resume, ChangeMode
<1>2. ASSUME NEW w \in Organisers, CloseLotNow(w) PROVE LotStep(l)
  BY <1>2, BlockUntouched DEF CloseLotNow
<1>3. CASE SetLotTimer
  <2>1. PICK m \in OpenLots, c \in Clocks : lot' = [lot EXCEPT ![m].clock = c]
    BY <1>3, Zenon DEF SetLotTimer, NewClocks, Clocks
  <2>2. bids' = bids /\ m \in Lots /\ lot[m].state = "open"
    BY <1>3 DEF SetLotTimer, OpenLots
  <2>3. CASE l # m
    BY <1>0, <2>1, <2>2, <2>3 DEF LotStep, KeepsItsBids
  <2>4. CASE l = m
    <3>1. lot'[l].state = "open" /\ lot'[l].top = lot[l].top
      BY <1>0, <2>1, <2>2, <2>4 DEF LotRow
    <3> QED BY <2>2, <2>4, <3>1 DEF LotStep, KeepsItsBids
  <2> QED BY <2>3, <2>4
<1>4. CASE RetractTopBid
  <2>1. PICK m \in OpenLots :
          /\ bids[m] # <<>>
          /\ bids' = [bids EXCEPT ![m] = WithoutLast(@)]
          /\ lot' = [lot EXCEPT ![m].top = PreviousBid(m),
                                ![m].clock = IF PreviousBid(m) = NoBid THEN "live" ELSE AfterBid]
    BY <1>4, Zenon DEF RetractTopBid
  <2>2. m \in Lots /\ lot[m].state = "open"
    BY DEF OpenLots
  <2>3. CASE l # m
    BY <1>0, <2>1, <2>3 DEF LotStep, KeepsItsBids
  <2>4. CASE l = m
    <3> DEFINE b == PreviousBid(m)
               c == IF PreviousBid(m) = NoBid THEN "live" ELSE AfterBid
    <3>1. lot' = [lot EXCEPT ![m].top = b, ![m].clock = c]
      BY <2>1
    <3> HIDE DEF b, c
    <3>2. lot'[l].state = "open" /\ lot'[l].top = b
      BY <1>0, <2>2, <2>4, <3>1 DEF LotRow
    <3>3. bids'[l] = WithoutLast(bids[l])
      BY <1>0, <2>1, <2>2, <2>4
    <3>4. "retract" \in Interventions
      BY <1>4 DEF RetractTopBid, Intervene
    <3> QED BY <2>1, <2>2, <2>4, <3>2, <3>3, <3>4 DEF LotStep, LosesABid, b
  <2> QED BY <2>3, <2>4
<1>5. ASSUME NEW w \in Organisers, Advance(w) PROVE LotStep(l)
  <2>1. bids' = bids
    BY <1>5 DEF Advance
  <2>2. CASE lot' = lot
    BY <2>1, <2>2 DEF LotStep, KeepsItsBids
  <2>3. ASSUME NEW r \in {1, 2}, CreateLots(r) PROVE LotStep(l)
    <3>1. lot'[l] = lot[l] \/ (lot[l].state = "none" /\ \E n : lot'[l] = Fresh(n))
      BY <2>3, Zenon DEF CreateLots
    <3>2. lot' \in [Lots -> LotRow]
      BY <2>3, CreateLotsType
    <3>3. \A n : lot'[l] = Fresh(n) => n \in Nat
      BY <3>2 DEF Fresh, LotRow
    <3> QED BY <2>1, <3>1, <3>3 DEF LotStep, KeepsItsBids
  <2>4. ActiveRound(phase') = 0 \/ ActiveRound(phase') \in {1, 2}
    BY DEF ActiveRound, AuctionRound
  <2> QED BY <1>5, <2>2, <2>3, <2>4 DEF Advance
<1>6. ASSUME NEW w \in Organisers, NEW m \in Lots, NEW s \in {"withdrawn", "unsold"},
             lot' = [lot EXCEPT ![m].state = s, ![m].clock = "off"], bids' = bids,
             s = "unsold" => ComesOff(m) /\ lot[m].state = "open"
      PROVE  LotStep(l)
  <2>1. CASE l # m
    BY <1>0, <1>6, <2>1 DEF LotStep, KeepsItsBids
  <2>2. CASE l = m
    <3>1. lot'[l].state = s /\ lot'[l].top = lot[l].top /\ lot'[l].clock = "off"
      BY <1>0, <1>6, <2>2 DEF LotRow
    <3> QED BY <1>6, <2>2, <3>1 DEF LotStep, KeepsItsBids
  <2> QED BY <2>1, <2>2
<1>7. ASSUME NEW w \in Organisers, NEW m \in Lots, WithdrawLot(w, m) PROVE LotStep(l)
  BY <1>6, <1>7, Zenon DEF WithdrawLot
<1>8. Idle \in Job /\ \A r \in 0..2 : Busy("open", r, NoLot) \in Job
  BY DEF Idle, Busy, Job, JobSteps
<1>9. ActiveRound(phase) \in 0..2 /\ AuctionRound(phase) \in 0..2
  BY DEF ActiveRound, AuctionRound
<1>10. ASSUME NEW w \in Organisers, NEW m \in Lots, RecordUnsold(w, m) PROVE LotStep(l)
  <2>1. ComesOff(m) /\ lot[m].state = "open"
    BY <1>8, <1>9, <1>10, Zenon DEF RecordUnsold, Then, ComesOff
  <2> QED BY <1>6, <1>10, <2>1, Zenon DEF RecordUnsold
<1>11. ASSUME NEW w \in Organisers, NEW m \in Lots, NEW p \in Participants, NEW price \in Prices,
              RecordSale(w, m, p, price)
       PROVE  LotStep(l)
  <2>1. /\ lot' = [lot EXCEPT ![m].state = "closed"]
        /\ bids' = bids /\ lot[m].state = "open"
    BY <1>11 DEF RecordSale, Award
  <2>2. CASE l # m
    BY <1>0, <2>1, <2>2 DEF LotStep, KeepsItsBids
  <2>3. CASE l = m
    <3>1. ComesOff(l)
      BY <1>8, <1>9, <1>11, Zenon DEF RecordSale, ComesOff
    <3>2. lot'[l].state = "closed" /\ lot'[l].top = lot[l].top
      BY <1>0, <2>1, <2>3 DEF LotRow
    <3> QED BY <2>1, <2>3, <3>1, <3>2 DEF LotStep, KeepsItsBids
  <2> QED BY <2>2, <2>3
<1>12. ASSUME NEW m \in Lots, RestoreLot(m) PROVE LotStep(l)
  <2>1. PICK n \in Nat : lot' = [lot EXCEPT ![m].state = "pending", ![m].order = n, ![m].top = NoBid]
    BY <1>12, BackOfTheQueueType, Zenon DEF RestoreLot
  <2>2. bids' = bids /\ lot[m].state = "withdrawn" /\ "restore" \in Interventions
    BY <1>12 DEF RestoreLot, Intervene
  <2>3. CASE l # m
    BY <1>0, <2>1, <2>2, <2>3 DEF LotStep, KeepsItsBids
  <2>4. CASE l = m
    <3>1. lot'[l].state = "pending" /\ lot'[l].top = NoBid /\ lot'[l].clock = lot[l].clock
      BY <1>0, <2>1, <2>4 DEF LotRow
    <3> QED BY <2>2, <2>4, <3>1 DEF LotStep, KeepsItsBids
  <2> QED BY <2>3, <2>4
<1>13. ASSUME NEW r \in {1, 2}, ReorderLots(r) PROVE LotStep(l)
  <2>1. bids' = bids
    BY <1>13 DEF ReorderLots
  <2>2. lot'[l] = lot[l] \/ (l \in Pending(r) /\ \E n : lot'[l] = [lot[l] EXCEPT !.order = n])
    BY <1>13, Zenon DEF ReorderLots
  <2>3. CASE lot'[l] = lot[l]
    BY <2>1, <2>3 DEF LotStep, KeepsItsBids
  <2>4. ASSUME l \in Pending(r), NEW n, lot'[l] = [lot[l] EXCEPT !.order = n] PROVE LotStep(l)
    <3>1. lot[l].state = "pending" /\ lot[l] \in LotRow
      BY <1>0, <2>4 DEF Pending
    <3>2. lot'[l].state = "pending" /\ lot'[l].top = lot[l].top /\ lot'[l].clock = lot[l].clock
      BY <2>4, <3>1 DEF LotRow
    <3> QED BY <2>1, <3>1, <3>2 DEF LotStep, KeepsItsBids
  <2> QED BY <2>2, <2>3, <2>4
<1> QED BY <1>1, <1>2, <1>3, <1>4, <1>5, <1>7, <1>10, <1>11, <1>12, <1>13, Zenon DEF Running

\* So do the corrections, of which only taking a question back can touch a lot.
LEMMA CorrectingLotStep ==
  ASSUME TypeInv, Correcting, NEW l \in Lots
  PROVE  LotStep(l)
<1>1. CASE UNCHANGED block
  BY <1>1, BlockUntouched
<1>2. ASSUME NEW q \in Questions, NEW a \in BOOLEAN, NEW b \in BOOLEAN, NEW c \in BOOLEAN,
             TakeBackQuestion(q, a, b, c)
      PROVE  LotStep(l)
  <2> DEFINE m == <<q, AuctionRound(phase)>>
  <2>1. m \in Lots
    BY DEF Lots, AuctionRound
  <2> HIDE DEF m
  <2>2. bids' = bids /\ "take back" \in Interventions
    BY <1>2 DEF TakeBackQuestion, Intervene
  <2>3. lot' = lot \/ \E n \in Nat : lot' = [lot EXCEPT ![m] = Fresh(n)]
    BY <1>2, <2>1, BackOfTheQueueType, Zenon DEF TakeBackQuestion, Relist, m
  <2>4. lot'[l] = lot[l] \/ \E n \in Nat : lot'[l] = Fresh(n)
    BY <2>1, <2>3 DEF TypeInv, TypeOK
  <2> QED BY <2>2, <2>4 DEF LotStep, KeepsItsBids
<1>3. Correcting => \/ UNCHANGED block
                    \/ \E q \in Questions, a, b, c \in BOOLEAN : TakeBackQuestion(q, a, b, c)
  BY Zenon DEF Correcting, AssignQuestion, VoidQuestion, RejudgeRefund, TransferOwnership,
               AdjustBalance, Disqualify, block
<1> QED BY <1>1, <1>2, <1>3

\* Every step does one of these things to every lot.
LEMMA EveryLotStep ==
  ASSUME TypeInv, [Next]_vars, NEW l \in Lots
  PROVE  LotStep(l)
<1>1. CASE UNCHANGED vars
  BY <1>1, BlockUntouched DEF vars
<1> QED BY <1>1, PlayingLotStep, WorkingLotStep, RunningLotStep, CorrectingLotStep DEF Next

-----------------------------------------------------------------------------
(* The block.                                                               *)

\* A withdrawn lot has no clock, which is why restoring it need not stop one;
\* without this QueuedLotsAreFresh is not inductive.
WithdrawnLotsAreStopped == \A l \in Lots : lot[l].state = "withdrawn" => lot[l].clock = "off"
BlockInv == OneLotOnTheBlock /\ TopIsNewestBid /\ QueuedLotsAreFresh /\ WithdrawnLotsAreStopped

\* No row without a bidder is mistaken for a bid.
LEMMA NoBidIsNoBid == NoBid \notin Bid
BY AuctionAssumption DEF NoBid, Bid

LEMMA OneLotStep ==
  ASSUME TypeInv, OneLotOnTheBlock, [Next]_vars
  PROVE  OneLotOnTheBlock'
<1> SUFFICES ASSUME NEW l \in Lots, NEW m \in Lots, lot'[l].state = "open", lot'[m].state = "open"
             PROVE  l = m
  BY DEF OneLotOnTheBlock, OpenLots
<1> DEFINE Opens(n) == /\ OpenLots = {}
                       /\ \A k \in Lots \ {n} : lot'[k] = lot[k]
<1>1. ASSUME NEW n \in Lots, lot'[n].state = "open" PROVE lot[n].state = "open" \/ Opens(n)
  <2>1. LotStep(n)
    BY EveryLotStep
  <2>2. ~ \E k \in Nat : lot'[n] = Fresh(k)
    BY <1>1, FreshFields
  <2> QED BY <1>1, <2>1, <2>2, Zenon DEF LotStep, KeepsItsBids, GetsABid, LosesABid
<1>2. CASE lot[l].state = "open" /\ lot[m].state = "open"
  BY <1>2 DEF OneLotOnTheBlock, OpenLots
<1>3. CASE lot[l].state # "open"
  BY <1>1, <1>3 DEF OpenLots
<1>4. CASE lot[m].state # "open"
  BY <1>1, <1>4 DEF OpenLots
<1> QED BY <1>2, <1>3, <1>4

LEMMA TopIsNewestBidStep ==
  ASSUME TypeInv, TopIsNewestBid, [Next]_vars
  PROVE  TopIsNewestBid'
<1> SUFFICES ASSUME NEW l \in Lots, lot'[l].top # NoBid
             PROVE  bids'[l] # <<>> /\ bids'[l][Len(bids'[l])] = lot'[l].top
  BY DEF TopIsNewestBid
<1>1. LotStep(l)
  BY EveryLotStep
<1>2. bids[l] \in Seq(Bid) /\ (lot[l].top # NoBid => bids[l] # <<>> /\ bids[l][Len(bids[l])] = lot[l].top)
  BY DEF TypeInv, TypeOK, TopIsNewestBid
<1>3. CASE KeepsItsBids(l)
  <2>1. lot'[l].top = lot[l].top /\ bids'[l] = bids[l]
    <3>1. ~ \E n \in Nat : lot'[l] = Fresh(n)
      BY FreshFields
    <3> QED BY <1>3, <3>1 DEF KeepsItsBids
  <2> QED BY <1>2, <2>1
<1>4. CASE GetsABid(l)
  <2> DEFINE b == lot'[l].top
  <2>1. b \in Bid /\ bids'[l] = Append(bids[l], b)
    BY <1>4 DEF GetsABid
  <2> HIDE DEF b
  <2>2. bids'[l] # <<>> /\ bids'[l][Len(bids'[l])] = b
    BY <1>2, <2>1
  <2> QED BY <2>2 DEF b
<1>5. CASE LosesABid(l)
  <2>1. PreviousBid(l) # NoBid
    BY <1>5 DEF LosesABid
  <2>2. Len(bids[l]) > 1 /\ PreviousBid(l) = bids[l][Len(bids[l]) - 1]
    BY <2>1 DEF PreviousBid
  <2>3. bids'[l] = SubSeq(bids[l], 1, Len(bids[l]) - 1) /\ lot'[l].top = PreviousBid(l)
    BY <1>5 DEF LosesABid, WithoutLast
  <2>4. Len(bids'[l]) = Len(bids[l]) - 1 /\ bids'[l][Len(bids[l]) - 1] = bids[l][Len(bids[l]) - 1]
    BY <1>2, <2>2, <2>3
  <2>5. bids'[l] # <<>>
    <3>1. Len(bids'[l]) > 0
      BY <1>2, <2>2, <2>4
    <3> QED BY <3>1
  <2> QED BY <2>2, <2>3, <2>4, <2>5
<1> QED BY <1>1, <1>3, <1>4, <1>5 DEF LotStep

LEMMA QueuedLotsStep ==
  ASSUME TypeInv, QueuedLotsAreFresh, WithdrawnLotsAreStopped, [Next]_vars
  PROVE  QueuedLotsAreFresh' /\ WithdrawnLotsAreStopped'
<1> SUFFICES ASSUME NEW l \in Lots
             PROVE  /\ lot'[l].state = "pending" => lot'[l].top = NoBid /\ lot'[l].clock = "off"
                    /\ lot'[l].state = "withdrawn" => lot'[l].clock = "off"
  BY DEF QueuedLotsAreFresh, WithdrawnLotsAreStopped
<1>1. LotStep(l)
  BY EveryLotStep
<1>2. /\ lot[l].state = "pending" => lot[l].top = NoBid /\ lot[l].clock = "off"
      /\ lot[l].state = "withdrawn" => lot[l].clock = "off"
  BY DEF QueuedLotsAreFresh, WithdrawnLotsAreStopped
<1>3. CASE \E n \in Nat : lot'[l] = Fresh(n)
  BY <1>3, FreshFields
<1> QED BY <1>1, <1>2, <1>3 DEF LotStep, KeepsItsBids, GetsABid, LosesABid

LEMMA BlockInvInit == Init => BlockInv
BY DEF Init, BlockInv, OneLotOnTheBlock, OpenLots, TopIsNewestBid, QueuedLotsAreFresh,
       WithdrawnLotsAreStopped, NoRow

LEMMA BlockInvHolds == Spec => []BlockInv
<1>1. TypeInv /\ BlockInv /\ [Next]_vars => BlockInv'
  BY OneLotStep, TopIsNewestBidStep, QueuedLotsStep DEF BlockInv
<1> QED BY <1>1, BlockInvInit, TypeInvHolds, PTL DEF Spec

\* Two lots are never on the block, however many processes look for an open lot and
\* open one in two statements: what the index lot_single_open is there for.
THEOREM OneLotAtATime == Spec => []OneLotOnTheBlock
BY BlockInvHolds, PTL DEF BlockInv

\* The bid columns of a lot never drift from the newest bid row.
THEOREM TopMirrorsBids == Spec => []TopIsNewestBid
BY BlockInvHolds, PTL DEF BlockInv

\* Nothing is carried over from an earlier offer of a lot to its next one.
THEOREM QueueIsFresh == Spec => []QueuedLotsAreFresh
BY BlockInvHolds, PTL DEF BlockInv

LEMMA OneBidPerRungStep ==
  ASSUME TypeInv, TopIsNewestBid, OneBidPerRung, [Next]_vars
  PROVE  OneBidPerRung'
<1> SUFFICES ASSUME NEW l \in Lots, NEW i \in 1..Len(bids'[l])
             PROVE  \/ bids'[l][i].amount = BasePrice
                    \/ /\ i > 1
                       /\ bids'[l][i].amount = bids'[l][i - 1].amount + BidIncrement
                       /\ bids'[l][i].by # bids'[l][i - 1].by
  BY DEF OneBidPerRung
<1>1. LotStep(l)
  BY EveryLotStep
<1>2. bids[l] \in Seq(Bid)
  BY DEF TypeInv, TypeOK
<1>3. i \in 1..Len(bids[l]) =>
        \/ bids[l][i].amount = BasePrice
        \/ /\ i > 1
           /\ bids[l][i].amount = bids[l][i - 1].amount + BidIncrement
           /\ bids[l][i].by # bids[l][i - 1].by
  BY DEF OneBidPerRung
<1>4. CASE KeepsItsBids(l)
  BY <1>3, <1>4 DEF KeepsItsBids
<1>5. CASE GetsABid(l)
  <2> DEFINE b == lot'[l].top
  <2>1. b \in Bid /\ bids'[l] = Append(bids[l], b)
    BY <1>5 DEF GetsABid
  <2>2. \/ b.amount = BasePrice
        \/ /\ bids[l] # <<>>
           /\ b.amount = bids[l][Len(bids[l])].amount + BidIncrement
           /\ b.by # bids[l][Len(bids[l])].by
    BY <1>5 DEF GetsABid, NextBidAmount, TopIsNewestBid
  <2> HIDE DEF b
  <2>3. Len(bids'[l]) = Len(bids[l]) + 1 /\ Len(bids[l]) \in Nat
    BY <1>2, <2>1
  <2>4. CASE i = Len(bids[l]) + 1
    <3>1. bids'[l][i] = b
      BY <1>2, <2>1, <2>4
    <3>2. CASE bids[l] # <<>>
      <4>1. i > 1 /\ bids'[l][i - 1] = bids[l][Len(bids[l])]
        BY <1>2, <2>1, <2>4, <3>2
      <4> QED BY <2>2, <3>1, <4>1
    <3> QED BY <2>2, <3>1, <3>2
  <2>5. CASE i \in 1..Len(bids[l])
    <3>1. bids'[l][i] = bids[l][i] /\ (i > 1 => bids'[l][i - 1] = bids[l][i - 1])
      BY <1>2, <2>1, <2>5
    <3> QED BY <1>3, <2>5, <3>1
  <2> QED BY <2>3, <2>4, <2>5
<1>6. CASE LosesABid(l)
  <2>1. bids[l] # <<>> /\ bids'[l] = SubSeq(bids[l], 1, Len(bids[l]) - 1)
    BY <1>6 DEF LosesABid, WithoutLast
  <2>2. Len(bids'[l]) = Len(bids[l]) - 1 /\ Len(bids[l]) \in Nat \ {0}
    BY <1>2, <2>1
  <2>3. /\ i \in 1..Len(bids[l]) /\ bids'[l][i] = bids[l][i]
        /\ i > 1 => bids'[l][i - 1] = bids[l][i - 1]
    BY <1>2, <2>1, <2>2
  <2> QED BY <1>3, <2>3
<1> QED BY <1>1, <1>4, <1>5, <1>6 DEF LotStep

\* No two bids on a lot are for the same rung since its last offer or retraction:
\* a bid that raced another was refused or is one increment above it.
THEOREM BidsClimb == Spec => []OneBidPerRung
<1>1. Init => OneBidPerRung
  BY DEF Init, OneBidPerRung
<1>2. TypeInv /\ BlockInv /\ OneBidPerRung /\ [Next]_vars => OneBidPerRung'
  BY OneBidPerRungStep DEF BlockInv
<1> QED BY <1>1, <1>2, TypeInvHolds, BlockInvHolds, PTL DEF Spec

-----------------------------------------------------------------------------
(* Coming off the block.                                                    *)

LEMMA OffTheBlock ==
  ASSUME TypeInv, [Next]_vars, NEW l \in Lots,
         lot[l].state = "open", lot'[l].state \in {"closed", "unsold"}
  PROVE  ComesOff(l)
<1>1. LotStep(l)
  BY EveryLotStep
<1>2. ~ \E n \in Nat : lot'[l] = Fresh(n)
  BY FreshFields
<1> QED BY <1>1, <1>2, Zenon DEF LotStep, KeepsItsBids, GetsABid, LosesABid

LEMMA NoEarlySettlementStep ==
  ASSUME TypeInv, [Next]_vars, NEW l \in Lots,
         lot[l].state = "open", lot'[l].state \in {"closed", "unsold"},
         job[Scheduler].at = "settle", job'[Scheduler].at # "settle"
  PROVE  lot[l].clock = "due" /\ ~paused
<1>1. ComesOff(l)
  BY OffTheBlock
<1>2. ASSUME NEW w \in Workers, NEW j, w # Scheduler, Goes(w, j) PROVE FALSE
  BY <1>2 DEF Goes, TypeInv, TypeOK, Workers
<1>3. Scheduler \notin Organisers
  BY AuctionAssumption
<1>4. CASE mode = "offline" /\ \E w \in Organisers, j \in Job : Goes(w, j)
  BY <1>2, <1>3, <1>4 DEF Workers
<1>5. ASSUME NEW w \in Workers, SettleIfDue(w) \/ CloseLot(w), job[w].lot = l
      PROVE  lot[l].clock = "due" /\ ~paused
  <2>1. \E j : Goes(w, j)
    BY <1>5, Zenon DEF SettleIfDue, CloseLot
  <2>2. w = Scheduler
    BY <1>2, <2>1
  <2>3. SettleIfDue(Scheduler)
    BY <1>5, <2>2 DEF CloseLot
  <2>4. lot' # lot
    OBVIOUS
  <2>5. StillDue(job[Scheduler].lot)
    BY <2>3, <2>4, Zenon DEF SettleIfDue
  <2> QED BY <1>5, <2>2, <2>5 DEF StillDue, DeadlinePassed
<1> QED BY <1>1, <1>4, <1>5 DEF ComesOff

\* The scheduler never takes a lot off the block before its time, although it looks
\* at the clock in one transaction and settles in another.
THEOREM SettledOnTime == Spec => NoEarlySettlement
<1>1. TypeInv /\ [Next]_vars =>
        [\A l \in Lots :
           lot[l].state = "open" /\ lot'[l].state \in {"closed", "unsold"}
             /\ job[Scheduler].at = "settle" /\ job'[Scheduler].at # "settle"
             => lot[l].clock = "due" /\ ~paused]_vars
  BY NoEarlySettlementStep
<1> QED BY <1>1, TypeInvHolds, PTL DEF Spec, NoEarlySettlement

LEMMA HammerPriceStep ==
  ASSUME TypeInv, [Next]_vars, NEW l \in Lots,
         mode = "online", lot[l].state = "open", lot'[l].state = "closed"
  PROVE  LET b == lot[l].top
         IN /\ b \in Bid
            /\ own'[l[1]] = [by |-> b.by, price |-> b.amount, live |-> TRUE]
            /\ balance' = [balance EXCEPT ![b.by] = @ - b.amount]
<1> DEFINE b == lot[l].top
<1>1. ComesOff(l)
  BY OffTheBlock
<1>2. Settle(l)
  BY <1>1 DEF ComesOff
<1>3. lot' # [lot EXCEPT ![l].state = "unsold"]
  BY DEF TypeInv, TypeOK, LotRow
<1>4. b # NoBid /\ Sell(l[1], b.by, b.amount)
  BY <1>2, <1>3 DEF Settle, Award
<1>5. b \in Bid
  BY <1>4 DEF TypeInv, TypeOK, LotRow
<1>6. l[1] \in Questions
  BY DEF Lots
<1>7. own'[l[1]] = [by |-> b.by, price |-> b.amount, live |-> TRUE]
  BY <1>4, <1>6 DEF Sell, Grant, TypeInv, TypeOK
<1>8. balance' = [balance EXCEPT ![b.by] = balance[b.by] + (-b.amount)]
  BY <1>4 DEF Sell, Move
<1>9. balance[b.by] + (-b.amount) = balance[b.by] - b.amount
  BY <1>5 DEF Bid, TypeInv, TypeOK
<1> QED BY <1>5, <1>7, <1>8, <1>9

\* A lot sold online goes to the bidder at its top, who pays that bid, in one step.
THEOREM SoldAtTheTopBid == Spec => HammerPrice
<1>1. TypeInv /\ [Next]_vars =>
        [\A l \in Lots :
           mode = "online" /\ lot[l].state = "open" /\ lot'[l].state = "closed"
             => LET b == lot[l].top
                IN /\ b \in Bid
                   /\ own'[l[1]] = [by |-> b.by, price |-> b.amount, live |-> TRUE]
                   /\ balance' = [balance EXCEPT ![b.by] = @ - b.amount]]_vars
  BY HammerPriceStep
<1> QED BY <1>1, TypeInvHolds, PTL DEF Spec, HammerPrice

-----------------------------------------------------------------------------
(* What one step can do to the sales and the money.                         *)

Sold(q, p, price) == Sell(q, p, price) /\ hints' = hints

\* An organiser assigns the question, or the hammer falls on a lot of it: for the
\* bidder at its top, or for somebody who may own another question.
Struck(q, p, price) ==
  \/ "assign" \in Interventions
  \/ \E l \in Lots :
       /\ l[1] = q /\ lot[l].state = "open"
       /\ lot' = [lot EXCEPT ![l].state = "closed"]
       /\ UnderCap(p) \/ (lot[l].top # NoBid /\ p = lot[l].top.by)

\* The sale is undone; the owner gets some natural amount back.
Undone(q) ==
  /\ own[q].live
  /\ VoidSale(q)
  /\ status'[q] # "sold" /\ \A o \in Questions \ {q} : status'[o] = status[o]
  /\ \E coins \in Nat : Move(own[q].by, coins, q)

Unsellable(q) ==
  ~own[q].live /\ status' = [status EXCEPT ![q] = "void"] /\ UNCHANGED <<own, money>>

MovedTo(q, p) ==
  /\ "transfer" \in Interventions
  /\ own[q].by # Nobody /\ own' = [own EXCEPT ![q].by = p] /\ UNCHANGED <<status, money>>

Hinted(p, q) ==
  /\ own[q].live /\ own[q].by = p
  /\ hints[p][q] < HintCount
  /\ Move(p, -HintPrice, q)
  /\ hints' = [hints EXCEPT ![p][q] = @ + 1]
  /\ UNCHANGED sales

Credited(q) ==
  /\ own[q].live
  /\ \E coins \in Nat : Move(own[q].by, coins, q)
  /\ UNCHANGED sales

Adjusted(p, delta) ==
  /\ "adjust" \in Interventions /\ delta \in Adjustments
  /\ balance[p] + delta >= 0
  /\ balance' = [balance EXCEPT ![p] = @ + delta]
  /\ UNCHANGED <<sales, ledger>>

SaleStep ==
  \/ UNCHANGED <<sales, money>>
  \/ \E q \in Questions, p \in Participants, price \in Nat : Sold(q, p, price) /\ Struck(q, p, price)
  \/ \E q \in Questions : Undone(q) \/ Unsellable(q) \/ Credited(q)
  \/ \E q \in Questions, p \in Participants : MovedTo(q, p) \/ Hinted(p, q)
  \/ \E p \in Participants, delta \in Int : Adjusted(p, delta)

\* Settling sells or leaves sales and money alone.
LEMMA SettleSells ==
  ASSUME TypeInv, NEW l \in Lots, lot[l].state = "open", Settle(l), UNCHANGED hints
  PROVE  SaleStep
<1>1. CASE lot[l].top = NoBid /\ UNCHANGED <<sales, money>>
  BY <1>1 DEF SaleStep
<1>2. CASE lot[l].top # NoBid /\ Award(l, lot[l].top.by, lot[l].top.amount)
  <2>1. lot[l].top.by \in Participants /\ lot[l].top.amount \in Nat /\ l[1] \in Questions
    BY <1>2 DEF TypeInv, TypeOK, LotRow, Bid, Lots
  <2>2. Sold(l[1], lot[l].top.by, lot[l].top.amount) /\ Struck(l[1], lot[l].top.by, lot[l].top.amount)
    BY <1>2 DEF Award, Sold, Struck
  <2> QED BY <2>1, <2>2, Zenon DEF SaleStep
<1> QED BY <1>1, <1>2 DEF Settle

\* Every step does one of these things to the sales and the money.
LEMMA EverySaleStep ==
  ASSUME TypeInv, [Next]_vars
  PROVE  SaleStep
<1>1. CASE UNCHANGED <<sales, money>>
  BY <1>1 DEF SaleStep
<1>2. ASSUME NEW p \in Participants, NEW q \in Questions, BuyHint(p, q) PROVE SaleStep
  <2>1. Hinted(p, q)
    BY <1>2 DEF BuyHint, Hinted
  <2> QED BY <2>1, Zenon DEF SaleStep
<1>3. ASSUME NEW w \in Workers, SettleIfDue(w) \/ CloseLot(w) PROVE SaleStep
  <2>1. job[w].lot \in Lots /\ hints' = hints
    BY <1>3 DEF SettleIfDue, CloseLot, TypeInv, JobHoldsALot
  <2>2. \/ lot[job[w].lot].state = "open" /\ Settle(job[w].lot)
        \/ UNCHANGED <<sales, money>>
    BY <1>3 DEF SettleIfDue, StillDue, CloseLot
  <2> QED BY <1>1, <2>1, <2>2, SettleSells
<1>4. ASSUME NEW w \in Organisers, NEW l \in Lots, NEW p \in Participants, NEW price \in Prices,
             RecordSale(w, l, p, price)
      PROVE  SaleStep
  <2>1. Sold(l[1], p, price) /\ Struck(l[1], p, price)
    BY <1>4 DEF RecordSale, Award, Sold, Struck
  <2>2. l[1] \in Questions /\ price \in Nat
    BY AuctionAssumption DEF Lots
  <2> QED BY <2>1, <2>2, Zenon DEF SaleStep
<1>5. ASSUME NEW q \in Questions, NEW p \in Participants, NEW price \in Prices,
             AssignQuestion(q, p, price)
      PROVE  SaleStep
  <2>1. Sold(q, p, price) /\ Struck(q, p, price)
    BY <1>5 DEF AssignQuestion, Intervene, Sold, Struck
  <2>2. price \in Nat
    BY AuctionAssumption
  <2> QED BY <2>1, <2>2, Zenon DEF SaleStep
<1>6. ASSUME NEW q \in Questions, NEW a \in BOOLEAN, NEW b \in BOOLEAN, own[q].live,
             VoidSale(q), Move(own[q].by, Refund(q, a, b), q),
             NEW s \in {"unsold", "void"}, status' = [status EXCEPT ![q] = s]
      PROVE  SaleStep
  <2>1. Refund(q, a, b) \in Nat
    BY <1>6, RefundType
  <2>2. status'[q] # "sold" /\ \A o \in Questions \ {q} : status'[o] = status[o]
    BY <1>6 DEF TypeInv, TypeOK
  <2>3. Undone(q)
    BY <1>6, <2>1, <2>2, Zenon DEF Undone
  <2> QED BY <2>3, Zenon DEF SaleStep
<1>7. ASSUME NEW q \in Questions, NEW a \in BOOLEAN, NEW b \in BOOLEAN, NEW c \in BOOLEAN,
             TakeBackQuestion(q, a, b, c)
      PROVE  SaleStep
  BY <1>6, <1>7, Zenon DEF TakeBackQuestion
<1>8. ASSUME NEW q \in Questions, NEW a \in BOOLEAN, NEW b \in BOOLEAN, VoidQuestion(q, a, b)
      PROVE  SaleStep
  <2>1. CASE own[q].live
    BY <1>6, <1>8, <2>1, Zenon DEF VoidQuestion
  <2>2. CASE ~own[q].live
    <3>1. Unsellable(q)
      BY <1>8, <2>2 DEF VoidQuestion, Unsellable
    <3> QED BY <3>1, Zenon DEF SaleStep
  <2> QED BY <2>1, <2>2
<1>9. ASSUME NEW q \in Questions, RejudgeRefund(q) PROVE SaleStep
  <2>1. own[q].price \in Nat
    BY DEF TypeInv, TypeOK, SaleRow
  <2>2. Credited(q)
    BY <1>9, <2>1, Zenon DEF RejudgeRefund, Credited
  <2> QED BY <2>2, Zenon DEF SaleStep
<1>10. ASSUME NEW q \in Questions, NEW p \in Participants, TransferOwnership(q, p) PROVE SaleStep
  <2>1. MovedTo(q, p)
    BY <1>10 DEF TransferOwnership, Intervene, MovedTo
  <2> QED BY <2>1, Zenon DEF SaleStep
<1>11. ASSUME NEW p \in Participants, NEW delta \in Adjustments, AdjustBalance(p, delta)
       PROVE  SaleStep
  <2>1. Adjusted(p, delta) /\ delta \in Int
    BY <1>11, AuctionAssumption DEF AdjustBalance, Intervene, Adjusted
  <2> QED BY <2>1, Zenon DEF SaleStep
<1>12. ASSUME Playing PROVE SaleStep
  BY <1>1, <1>2, <1>12 DEF Playing, PlaceBid, ClockRunsOut
<1>13. ASSUME Working PROVE SaleStep
  <2>1. Scheduler \in Workers /\ Organisers \subseteq Workers
    BY DEF Workers
  <2>2. ASSUME NEW w \in Workers, TickRead(w) \/ CheckBlock(w) \/ PickLot(w) \/ Crash(w)
        PROVE  UNCHANGED <<sales, money>>
    BY <2>2 DEF TickRead, CheckBlock, PickLot, Crash
  <2> QED BY <1>1, <1>3, <1>13, <2>1, <2>2, Zenon DEF Working, Tick
<1>14. ASSUME Running PROVE SaleStep
  BY <1>1, <1>4, <1>14, Zenon DEF Running, Pause, Resume, ChangeMode, SetLotTimer, RetractTopBid,
       Advance, CloseLotNow, WithdrawLot, RecordUnsold, RestoreLot, ReorderLots
<1>15. ASSUME Correcting PROVE SaleStep
  BY <1>1, <1>5, <1>7, <1>8, <1>9, <1>10, <1>11, <1>15, Zenon DEF Correcting, Disqualify
<1> QED BY <1>1, <1>12, <1>13, <1>14, <1>15 DEF Next, vars

-----------------------------------------------------------------------------
(* Ownership and money.                                                     *)

LEMMA SoldIffOwnedStep ==
  ASSUME TypeInv, SoldIffOwned, [Next]_vars
  PROVE  SoldIffOwned'
<1> SUFFICES ASSUME NEW o \in Questions PROVE status'[o] = "sold" <=> own'[o].live
  BY DEF SoldIffOwned
<1>1. SaleStep
  BY EverySaleStep
<1>2. own \in [Questions -> SaleRow] /\ status \in [Questions -> {"unsold", "sold", "void"}]
  BY DEF TypeInv, TypeOK
<1>3. status[o] = "sold" <=> own[o].live
  BY DEF SoldIffOwned
<1>4. CASE UNCHANGED sales
  BY <1>3, <1>4 DEF sales
<1>5. ASSUME NEW q \in Questions, NEW p \in Participants, NEW price \in Nat, Sold(q, p, price)
      PROVE  status'[o] = "sold" <=> own'[o].live
  <2>1. /\ own' = [own EXCEPT ![q] = [by |-> p, price |-> price, live |-> TRUE]]
        /\ status' = [status EXCEPT ![q] = "sold"]
    BY <1>5 DEF Sold, Sell, Grant, MarkSold
  <2>2. CASE o = q
    BY <1>2, <2>1, <2>2
  <2>3. CASE o # q
    BY <1>2, <1>3, <2>1, <2>3
  <2> QED BY <2>2, <2>3
<1>6. ASSUME NEW q \in Questions, Undone(q) PROVE status'[o] = "sold" <=> own'[o].live
  <2>1. own' = [own EXCEPT ![q].live = FALSE]
    BY <1>6 DEF Undone, VoidSale
  <2>2. CASE o = q
    <3>1. own'[o].live = FALSE
      BY <1>2, <2>1, <2>2 DEF SaleRow
    <3> QED BY <1>6, <2>2, <3>1 DEF Undone
  <2>3. CASE o # q
    BY <1>2, <1>3, <1>6, <2>1, <2>3 DEF Undone
  <2> QED BY <2>2, <2>3
<1>7. ASSUME NEW q \in Questions, Unsellable(q) PROVE status'[o] = "sold" <=> own'[o].live
  BY <1>2, <1>3, <1>7 DEF Unsellable
<1>8. ASSUME NEW q \in Questions, NEW p \in Participants, MovedTo(q, p)
      PROVE  status'[o] = "sold" <=> own'[o].live
  <2>1. own' = [own EXCEPT ![q].by = p] /\ status' = status
    BY <1>8 DEF MovedTo
  <2>2. own'[o].live = own[o].live
    BY <1>2, <2>1 DEF SaleRow
  <2> QED BY <1>3, <2>1, <2>2
<1>9. UNCHANGED <<sales, money>> => UNCHANGED sales
  OBVIOUS
<1> QED BY <1>1, <1>4, <1>5, <1>6, <1>7, <1>8, <1>9, Zenon DEF SaleStep, Credited, Hinted, Adjusted

\* question.status and the ownership row never disagree, whatever is corrected.
THEOREM StatusMatchesOwnership == Spec => []SoldIffOwned
<1>1. Init => SoldIffOwned
  BY DEF Init, SoldIffOwned
<1>2. TypeInv /\ SoldIffOwned /\ [Next]_vars => SoldIffOwned'
  BY SoldIffOwnedStep
<1> QED BY <1>1, <1>2, TypeInvHolds, PTL DEF Spec

\* What Move leaves in the ledger and in the balances.
LEMMA MoveEffect ==
  ASSUME TypeInv, NEW p \in Participants, NEW q \in Questions, NEW delta \in Int,
         Move(p, delta, q), NEW r \in Participants, NEW o \in Questions
  PROVE  /\ ledger[r][o] \in Int
         /\ ledger'[r][o] = IF r = p /\ o = q THEN ledger[r][o] + delta ELSE ledger[r][o]
         /\ balance'[r] = IF r = p THEN balance[r] + delta ELSE balance[r]
         /\ balance' = [balance EXCEPT ![p] = balance'[p]]
         /\ balance'[p] >= 0
<1>1. balance \in [Participants -> Nat] /\ ledger \in [Participants -> [Questions -> Int]]
  BY DEF TypeInv, TypeOK
<1>2. /\ balance' = [balance EXCEPT ![p] = @ + delta]
      /\ ledger' = [ledger EXCEPT ![p][q] = @ + delta]
      /\ balance[p] + delta >= 0
  BY DEF Move
<1>3. balance'[p] = balance[p] + delta
  BY <1>1, <1>2
<1>4. balance' = [balance EXCEPT ![p] = balance'[p]]
  BY <1>2, <1>3, Zenon
<1>5. ledger'[r][o] = IF r = p /\ o = q THEN ledger[r][o] + delta ELSE ledger[r][o]
  BY <1>1, <1>2
<1>6. balance'[r] = IF r = p THEN balance[r] + delta ELSE balance[r]
  BY <1>1, <1>2
<1> QED BY <1>1, <1>2, <1>3, <1>4, <1>5, <1>6

LEMMA ChargedOnlyStep ==
  ASSUME TypeInv, [Next]_vars, NEW p \in Participants, NEW q \in Questions,
         ledger'[p][q] < ledger[p][q]
  PROVE  \/ ~own[q].live /\ own'[q] = [by |-> p, price |-> ledger[p][q] - ledger'[p][q],
                                       live |-> TRUE]
         \/ /\ own[q].live /\ own[q].by = p /\ own'[q] = own[q]
            /\ hints'[p][q] = hints[p][q] + 1
<1>1. SaleStep
  BY EverySaleStep
<1>2. ledger[p][q] \in Int /\ own \in [Questions -> SaleRow]
  BY DEF TypeInv, TypeOK
<1>3. ledger' # ledger
  BY <1>2
<1>4. ASSUME NEW o \in Questions, NEW r \in Participants, NEW price \in Nat, Sold(o, r, price)
      PROVE  ~own[q].live /\ own'[q] = [by |-> p, price |-> ledger[p][q] - ledger'[p][q],
                                        live |-> TRUE]
  <2>1. Move(r, -price, o) /\ ~own[o].live
    BY <1>4 DEF Sold, Sell, Grant, Grantable
  <2>2. -price \in Int
    OBVIOUS
  <2>3. ledger'[p][q] = IF p = r /\ q = o THEN ledger[p][q] + (-price) ELSE ledger[p][q]
    BY <2>1, <2>2, MoveEffect
  <2>4. p = r /\ q = o /\ ledger[p][q] - ledger'[p][q] = price
    BY <1>2, <2>3
  <2>5. own' = [own EXCEPT ![q] = [by |-> p, price |-> price, live |-> TRUE]]
    BY <1>4, <2>4 DEF Sold, Sell, Grant
  <2> QED BY <1>2, <2>1, <2>4, <2>5
<1>5. ASSUME NEW o \in Questions, NEW coins \in Nat, own[o].live, Move(own[o].by, coins, o)
      PROVE  FALSE
  <2>1. own[o].by \in Participants
    BY <1>5 DEF TypeInv, OwnerIsKnown
  <2>2. ledger'[p][q] = IF p = own[o].by /\ q = o THEN ledger[p][q] + coins ELSE ledger[p][q]
    BY <1>5, <2>1, MoveEffect
  <2> QED BY <1>2, <2>2
<1>6. ASSUME NEW o \in Questions, NEW r \in Participants, Hinted(r, o)
      PROVE  /\ own[q].live /\ own[q].by = p /\ own'[q] = own[q]
             /\ hints'[p][q] = hints[p][q] + 1
  <2>1. -HintPrice \in Int
    BY AuctionAssumption
  <2>2. ledger'[p][q] = IF p = r /\ q = o THEN ledger[p][q] + (-HintPrice) ELSE ledger[p][q]
    BY <1>6, <2>1, MoveEffect DEF Hinted
  <2>3. p = r /\ q = o
    BY <1>2, <2>2
  <2> QED BY <1>6, <2>3 DEF Hinted, sales, TypeInv, TypeOK
<1>7. ASSUME NEW o \in Questions, Undone(o) \/ Credited(o) PROVE FALSE
  BY <1>5, <1>7 DEF Undone, Credited
<1>8. ~UNCHANGED ledger
  BY <1>3
<1> QED BY <1>1, <1>4, <1>6, <1>7, <1>8, Zenon DEF SaleStep, Unsellable, MovedTo, Adjusted, money

\* Nobody pays for a question except by becoming its owner in the same step, or for
\* a hint of a question they own.
THEOREM NobodyPaysForNothing == Spec => ChargedOnlyForOwning
<1>1. TypeInv /\ [Next]_vars =>
        [\A p \in Participants, q \in Questions :
           ledger'[p][q] < ledger[p][q] =>
             \/ ~own[q].live /\ own'[q] = [by |-> p, price |-> ledger[p][q] - ledger'[p][q],
                                           live |-> TRUE]
             \/ /\ own[q].live /\ own[q].by = p /\ own'[q] = own[q]
                /\ hints'[p][q] = hints[p][q] + 1]_vars
  BY ChargedOnlyStep
<1> QED BY <1>1, TypeInvHolds, PTL DEF Spec, ChargedOnlyForOwning

LEMMA ImplementsSaleStep ==
  ASSUME TypeInv, [Next]_vars
  PROVE  [TheSale!Next]_(TheSale!saleVars)
<1>1. SaleStep
  BY EverySaleStep
<1>2. own \in [Questions -> SaleRow] /\ balance \in [Participants -> Nat]
  BY DEF TypeInv, TypeOK
<1>3. ASSUME NEW q \in Questions, NEW p \in Participants, NEW price \in Nat, Sold(q, p, price)
      PROVE  TheSale!Buy(q, p)
  <2>1. Move(p, -price, q) /\ ~own[q].live /\ -price \in Int
    BY <1>3 DEF Sold, Sell, Grant, Grantable
  <2>2. /\ balance'[p] = balance[p] + (-price)
        /\ balance' = [balance EXCEPT ![p] = balance'[p]]
        /\ balance'[p] >= 0
    BY <2>1, MoveEffect
  <2>3. balance[p] - balance'[p] = price /\ balance'[p] <= balance[p]
    BY <1>2, <2>2
  <2>4. own' = [own EXCEPT ![q] = [by |-> p, price |-> balance[p] - balance'[p], live |-> TRUE]]
    BY <1>3, <2>3 DEF Sold, Sell, Grant
  <2> QED BY <2>1, <2>2, <2>3, <2>4 DEF TheSale!Buy, TheSale!Only
<1>4. ASSUME NEW q \in Questions, own[q].live, NEW coins \in Nat, Move(own[q].by, coins, q)
      PROVE  /\ own[q].by \in Participants
             /\ TheSale!Only(own[q].by)
             /\ balance'[own[q].by] >= balance[own[q].by]
  <2>1. own[q].by \in Participants
    BY <1>4 DEF TypeInv, OwnerIsKnown
  <2>2. /\ balance'[own[q].by] = balance[own[q].by] + coins
        /\ balance' = [balance EXCEPT ![own[q].by] = balance'[own[q].by]]
        /\ balance'[own[q].by] >= 0
    BY <1>4, <2>1, MoveEffect
  <2> QED BY <1>2, <2>1, <2>2 DEF TheSale!Only
<1>5. ASSUME NEW q \in Questions, Undone(q) PROVE TheSale!Return(q)
  BY <1>4, <1>5 DEF Undone, VoidSale, TheSale!Return
<1>6. ASSUME NEW q \in Questions, Credited(q) PROVE \E p \in Participants : TheSale!MoveCoins(p)
  <2>1. own[q].by \in Participants /\ TheSale!Only(own[q].by)
    BY <1>4, <1>6 DEF Credited
  <2> QED BY <1>6, <2>1 DEF Credited, sales, TheSale!MoveCoins
<1>7. ASSUME NEW q \in Questions, NEW p \in Participants, MovedTo(q, p) PROVE TheSale!Reassign(q, p)
  BY <1>7 DEF MovedTo, money, TheSale!Reassign
<1>8. ASSUME NEW q \in Questions, NEW p \in Participants, Hinted(p, q) PROVE TheSale!MoveCoins(p)
  <2>1. -HintPrice \in Int /\ Move(p, -HintPrice, q)
    BY <1>8, AuctionAssumption DEF Hinted
  <2>2. balance' = [balance EXCEPT ![p] = balance'[p]] /\ balance'[p] >= 0
    BY <2>1, MoveEffect
  <2> QED BY <1>8, <2>2 DEF Hinted, sales, TheSale!MoveCoins, TheSale!Only
<1>9. ASSUME NEW p \in Participants, NEW delta \in Int, Adjusted(p, delta) PROVE TheSale!MoveCoins(p)
  <2>1. balance'[p] = balance[p] + delta
    BY <1>2, <1>9 DEF Adjusted
  <2>2. balance' = [balance EXCEPT ![p] = balance'[p]] /\ balance'[p] >= 0
    BY <1>9, <2>1 DEF Adjusted
  <2> QED BY <1>9, <2>2 DEF Adjusted, sales, TheSale!MoveCoins, TheSale!Only
<1>10. ASSUME UNCHANGED <<own, balance>> PROVE UNCHANGED TheSale!saleVars
  BY <1>10 DEF TheSale!saleVars
<1>11. ASSUME NEW q \in Questions, Unsellable(q) PROVE UNCHANGED <<own, balance>>
  BY <1>11 DEF Unsellable, money
<1>12. UNCHANGED <<sales, money>> => UNCHANGED <<own, balance>>
  BY DEF sales, money
<1> QED BY <1>1, <1>3, <1>5, <1>6, <1>7, <1>8, <1>9, <1>10, <1>11, <1>12, Zenon DEF SaleStep, TheSale!Next

\* The auction, with all its corrections, implements the abstract sale.
THEOREM AuctionImplementsSale == Spec => ImplementsSale
<1>1. Init => TheSale!Init
  BY DEF Init, TheSale!Init, TheSale!NotOwned
<1>2. TypeInv /\ [Next]_vars => [TheSale!Next]_(TheSale!saleVars)
  BY ImplementsSaleStep
<1> QED BY <1>1, <1>2, TypeInvHolds, PTL DEF Spec, ImplementsSale, TheSale!Spec

-----------------------------------------------------------------------------

\* What the block promises, together, whatever organisers, bidders, the scheduler and
\* crashes do between its transactions (lots.py, lot_queue.py, control.py, bidding.py).
THEOREM BlockNeverDisagrees == Spec => []BlockAgrees
<1>1. TypeOK /\ OneLotOnTheBlock /\ TopIsNewestBid /\ QueuedLotsAreFresh /\ OneBidPerRung => BlockAgrees
  BY DEF BlockAgrees
<1> QED BY <1>1, TypeCorrect, OneLotAtATime, TopMirrorsBids, QueueIsFresh, BidsClimb, PTL

-----------------------------------------------------------------------------
(* Nobody owns what they have not paid for.                                 *)

\* The corrections after which the ledger of a question and its owner part: the owner
\* is given the price back and keeps the question, another owner pays nothing, and a
\* question that is voided leaves its hints bought, refunded or not.
Unpaid == {"transfer", "rejudge refund", "void"}

HintsCost(n) == n * HintPrice
PriceOwed(p, q) == IF q \in Owned(p) THEN own[q].price ELSE 0

\* OwnersHavePaid is not inductive: hints outlive a sale that is undone without them, so
\* what counts at the next sale is that they were paid even while the question has no owner.
PaidInFull ==
  \A p \in Participants, q \in Questions :
    ledger[p][q] + PriceOwed(p, q) + HintsCost(hints[p][q]) <= 0

LEMMA HintsCostAdds ==
  ASSUME NEW n \in Nat
  PROVE  /\ HintsCost(n) \in Nat /\ HintsCost(0) = 0
         /\ HintsCost(n + 1) = HintsCost(n) + HintPrice
<1>1. HintPrice \in Nat
  BY AuctionAssumption
<1> QED BY <1>1 DEF HintsCost

\* A purchase, a hint and a sale taken back are all that changes what is owed or paid.
LEMMA EveryPayment ==
  ASSUME TypeInv, [Next]_vars, Unpaid \cap Interventions = {}
  PROVE  \/ UNCHANGED <<own, ledger, hints>>
         \/ \E q \in Questions, p \in Participants, price \in Nat : Sold(q, p, price)
         \/ \E q \in Questions, p \in Participants : Hinted(p, q)
         \/ \E q \in Questions, a, b, c \in BOOLEAN : TakeBackQuestion(q, a, b, c)
<1> DEFINE Goal == \/ UNCHANGED <<own, ledger, hints>>
                   \/ \E q \in Questions, p \in Participants, price \in Nat : Sold(q, p, price)
                   \/ \E q \in Questions, p \in Participants : Hinted(p, q)
                   \/ \E q \in Questions, a, b, c \in BOOLEAN : TakeBackQuestion(q, a, b, c)
<1> SUFFICES Goal
  OBVIOUS
<1>1. CASE UNCHANGED <<sales, money, hints>>
  BY <1>1 DEF sales, money
<1>2. ASSUME NEW p \in Participants, NEW q \in Questions, BuyHint(p, q) PROVE Goal
  <2>1. Hinted(p, q)
    BY <1>2 DEF BuyHint, Hinted
  <2> QED BY <2>1, Zenon
<1>3. ASSUME NEW w \in Workers, SettleIfDue(w) \/ CloseLot(w) PROVE Goal
  <2> DEFINE l == job[w].lot
  <2>1. l \in Lots /\ hints' = hints
    BY <1>3 DEF SettleIfDue, CloseLot, TypeInv, JobHoldsALot
  <2>2. CASE UNCHANGED <<sales, money>>
    BY <1>1, <2>1, <2>2
  <2>3. CASE lot[l].top # NoBid /\ Award(l, lot[l].top.by, lot[l].top.amount)
    <3>1. lot[l].top.by \in Participants /\ lot[l].top.amount \in Nat /\ l[1] \in Questions
      BY <2>1, <2>3 DEF TypeInv, TypeOK, LotRow, Bid, Lots
    <3>2. Sold(l[1], lot[l].top.by, lot[l].top.amount)
      BY <2>1, <2>3 DEF Award, Sold
    <3> QED BY <3>1, <3>2, Zenon
  <2>4. UNCHANGED <<sales, money>> \/ (lot[l].top # NoBid /\ Award(l, lot[l].top.by, lot[l].top.amount))
    BY <1>3, Zenon DEF SettleIfDue, CloseLot, Settle
  <2> QED BY <2>2, <2>3, <2>4
<1>4. ASSUME NEW w \in Organisers, NEW l \in Lots, NEW p \in Participants, NEW price \in Prices,
             RecordSale(w, l, p, price)
      PROVE  Goal
  <2>1. Sold(l[1], p, price)
    BY <1>4 DEF RecordSale, Award, Sold
  <2>2. l[1] \in Questions /\ price \in Nat
    BY AuctionAssumption DEF Lots
  <2> QED BY <2>1, <2>2, Zenon
<1>5. ASSUME NEW q \in Questions, NEW p \in Participants, NEW price \in Prices,
             AssignQuestion(q, p, price)
      PROVE  Goal
  <2>1. Sold(q, p, price)
    BY <1>5 DEF AssignQuestion, Sold
  <2>2. price \in Nat
    BY AuctionAssumption
  <2> QED BY <2>1, <2>2, Zenon
<1>6. ASSUME NEW p \in Participants, NEW delta \in Adjustments, AdjustBalance(p, delta) PROVE Goal
  BY <1>6 DEF AdjustBalance, sales
<1>7. CASE Playing
  BY <1>1, <1>2, <1>7 DEF Playing, PlaceBid, ClockRunsOut
<1>8. CASE Working
  <2>1. Scheduler \in Workers /\ Organisers \subseteq Workers
    BY DEF Workers
  <2>2. ASSUME NEW w \in Workers, TickRead(w) \/ CheckBlock(w) \/ PickLot(w) \/ Crash(w)
        PROVE  UNCHANGED <<sales, money, hints>>
    BY <2>2 DEF TickRead, CheckBlock, PickLot, Crash
  <2> HIDE DEF Goal
  <2> QED BY <1>1, <1>3, <1>8, <2>1, <2>2, Zenon DEF Working, Tick
<1>9. CASE Running
  <2> HIDE DEF Goal
  <2> QED BY <1>1, <1>4, <1>9, Zenon DEF Running, Pause, Resume, ChangeMode, SetLotTimer, RetractTopBid,
       Advance, CloseLotNow, WithdrawLot, RecordUnsold, RestoreLot, ReorderLots
<1>10. CASE Correcting
  <2>1. \A op \in Unpaid : ~Intervene(op)
    BY DEF Intervene
  <2>2. /\ ~(\E q \in Questions, a, b \in BOOLEAN : VoidQuestion(q, a, b))
        /\ ~(\E q \in Questions : RejudgeRefund(q))
        /\ ~(\E q \in Questions, p \in Participants : TransferOwnership(q, p))
    BY <2>1, Zenon DEF VoidQuestion, RejudgeRefund, TransferOwnership, Unpaid
  <2>3. (\E q \in Questions, a, b, c \in BOOLEAN : TakeBackQuestion(q, a, b, c)) => Goal
    BY Zenon
  <2>4. ASSUME NEW p \in Participants, Disqualify(p) PROVE Goal
    BY <1>1, <2>4 DEF Disqualify
  <2> HIDE DEF Goal
  <2> QED BY <1>5, <1>6, <1>10, <2>2, <2>3, <2>4, Zenon DEF Correcting
<1> QED BY <1>1, <1>7, <1>8, <1>9, <1>10 DEF Next, vars

LEMMA PaidInFullStep ==
  ASSUME TypeInv, PaidInFull, [Next]_vars, Unpaid \cap Interventions = {}
  PROVE  PaidInFull'
<1>1. /\ own \in [Questions -> SaleRow] /\ ledger \in [Participants -> [Questions -> Int]]
      /\ hints \in [Participants -> [Questions -> Nat]]
  BY DEF TypeInv, TypeOK
<1>2. HintPrice \in Nat
  BY AuctionAssumption
<1> SUFFICES ASSUME NEW r \in Participants, NEW o \in Questions
             PROVE  ledger'[r][o] + PriceOwed(r, o)' + HintsCost(hints'[r][o]) <= 0
  BY DEF PaidInFull, HintsCost
<1> DEFINE cost == HintsCost(hints[r][o])
<1>3. /\ ledger[r][o] \in Int /\ hints[r][o] \in Nat /\ own[o].price \in Nat
      /\ cost \in Nat /\ HintsCost(hints[r][o] + 1) = cost + HintPrice /\ HintsCost(0) = 0
      /\ ledger[r][o] + PriceOwed(r, o) + cost <= 0
  BY <1>1, HintsCostAdds DEF PaidInFull, SaleRow
<1>4. /\ PriceOwed(r, o) = IF own[o].live /\ own[o].by = r THEN own[o].price ELSE 0
      /\ PriceOwed(r, o)' = IF own'[o].live /\ own'[o].by = r THEN own'[o].price ELSE 0
  BY DEF PriceOwed, Owned
<1> HIDE DEF cost
<1>5. CASE UNCHANGED <<own, ledger, hints>>
  BY <1>3, <1>4, <1>5 DEF cost
<1>6. ASSUME NEW q \in Questions, NEW p \in Participants, NEW price \in Nat, Sold(q, p, price)
      PROVE  ledger'[r][o] + PriceOwed(r, o)' + HintsCost(hints'[r][o]) <= 0
  <2>1. /\ Move(p, -price, q) /\ ~own[q].live /\ hints' = hints
        /\ own' = [own EXCEPT ![q] = [by |-> p, price |-> price, live |-> TRUE]]
    BY <1>6 DEF Sold, Sell, Grant, Grantable
  <2>2. -price \in Int
    OBVIOUS
  <2>3. ledger'[r][o] = IF r = p /\ o = q THEN ledger[r][o] + (-price) ELSE ledger[r][o]
    BY <2>1, <2>2, MoveEffect
  <2>4. HintsCost(hints'[r][o]) = cost
    BY <2>1 DEF cost
  <2>5. CASE o # q
    <3>1. own'[o] = own[o]
      BY <1>1, <2>1, <2>5
    <3> QED BY <1>3, <1>4, <2>3, <2>4, <2>5, <3>1
  <2>6. CASE o = q
    <3>1. own'[o].by = p /\ own'[o].price = price
      BY <1>1, <2>1, <2>6
    <3>2. PriceOwed(r, o) = 0
      BY <1>4, <2>1, <2>6
    <3> QED BY <1>3, <1>4, <2>3, <2>4, <2>6, <3>1, <3>2
  <2> QED BY <2>5, <2>6
<1>7. ASSUME NEW q \in Questions, NEW p \in Participants, Hinted(p, q)
      PROVE  ledger'[r][o] + PriceOwed(r, o)' + HintsCost(hints'[r][o]) <= 0
  <2>1. /\ Move(p, -HintPrice, q) /\ own' = own /\ hints' = [hints EXCEPT ![p][q] = @ + 1]
    BY <1>7 DEF Hinted, sales
  <2>2. -HintPrice \in Int
    BY <1>2
  <2>3. ledger'[r][o] = IF r = p /\ o = q THEN ledger[r][o] + (-HintPrice) ELSE ledger[r][o]
    BY <2>1, <2>2, MoveEffect
  <2>4. hints'[r][o] = IF r = p /\ o = q THEN hints[r][o] + 1 ELSE hints[r][o]
    BY <1>1, <2>1
  <2>5. PriceOwed(r, o)' = PriceOwed(r, o) /\ PriceOwed(r, o) \in Nat
    BY <1>3, <1>4, <2>1
  <2>6. HintsCost(hints'[r][o]) = IF r = p /\ o = q THEN cost + HintPrice ELSE cost
    BY <1>3, <2>4 DEF cost
  <2> QED BY <1>2, <1>3, <2>3, <2>5, <2>6
<1>8. ASSUME NEW q \in Questions, NEW a \in BOOLEAN, NEW b \in BOOLEAN, NEW c \in BOOLEAN,
             TakeBackQuestion(q, a, b, c)
      PROVE  ledger'[r][o] + PriceOwed(r, o)' + HintsCost(hints'[r][o]) <= 0
  <2> DEFINE p == own[q].by
             back == Refund(q, a, b)
  <2>1. /\ own[q].live /\ own' = [own EXCEPT ![q].live = FALSE]
        /\ Move(p, back, q)
        /\ hints' = IF b THEN [hints EXCEPT ![p][q] = 0] ELSE hints
    BY <1>8 DEF TakeBackQuestion, VoidSale
  <2>2. p \in Participants /\ back \in Nat
    BY <2>1, RefundType DEF TypeInv, OwnerIsKnown
  <2>3. back = (IF a THEN own[q].price ELSE 0) + (IF b THEN HintsCost(hints[p][q]) ELSE 0)
    BY DEF Refund, HintsCost
  <2> HIDE DEF back
  <2>4. ledger'[r][o] = IF r = p /\ o = q THEN ledger[r][o] + back ELSE ledger[r][o]
    BY <2>1, <2>2, MoveEffect
  <2>5. CASE o = q /\ r = p
    <3>1. PriceOwed(r, o) = own[o].price
      BY <1>4, <2>1, <2>5
    <3>2. PriceOwed(r, o)' = 0
      BY <1>1, <1>4, <2>1, <2>5 DEF SaleRow
    <3>3. hints'[r][o] = IF b THEN 0 ELSE hints[r][o]
      BY <1>1, <2>1, <2>2, <2>5
    <3>4. HintsCost(hints'[r][o]) = IF b THEN 0 ELSE cost
      BY <1>3, <3>3 DEF cost
    <3>5. back = (IF a THEN own[o].price ELSE 0) + (IF b THEN cost ELSE 0)
      BY <2>3, <2>5 DEF cost
    <3> HIDE DEF p
    <3> QED BY <1>3, <2>4, <2>5, <3>1, <3>2, <3>4, <3>5
  <2>6. CASE ~(o = q /\ r = p)
    <3>1. hints'[r][o] = hints[r][o]
      BY <1>1, <2>1, <2>2, <2>6
    <3>2. PriceOwed(r, o)' = PriceOwed(r, o) /\ PriceOwed(r, o) \in Nat
      BY <1>1, <1>3, <1>4, <2>1, <2>6 DEF SaleRow
    <3>3. ledger'[r][o] = ledger[r][o] /\ HintsCost(hints'[r][o]) = cost
      BY <2>4, <2>6, <3>1 DEF cost
    <3> QED BY <1>3, <3>2, <3>3
  <2> QED BY <2>5, <2>6
<1> QED BY <1>5, <1>6, <1>7, <1>8, EveryPayment

\* Whatever is bought, hinted, taken back and sold again, the ledger of a question holds its
\* owner's price and hints, and nothing in anybody's favour (wallet.py, sales.py); except
\* after the three corrections that are meant to part them.
THEOREM NobodyOwnsUnpaid ==
  ASSUME Unpaid \cap Interventions = {}
  PROVE  Spec => []OwnersHavePaid
<1>1. Init => PaidInFull
  BY HintsCostAdds DEF Init, PaidInFull, PriceOwed, Owned
<1>2. TypeInv /\ PaidInFull /\ [Next]_vars => PaidInFull'
  BY PaidInFullStep
<1>3. TypeInv /\ PaidInFull => OwnersHavePaid
  <2> SUFFICES ASSUME TypeInv, PaidInFull, NEW p \in Participants, NEW q \in Questions
               PROVE  ledger[p][q] <= (IF q \in Owned(p) THEN - own[q].price - hints[p][q] * HintPrice ELSE 0)
    BY DEF OwnersHavePaid
  <2>1. ledger[p][q] \in Int /\ own[q].price \in Nat /\ hints[p][q] \in Nat
    BY DEF TypeInv, TypeOK, SaleRow
  <2>2. HintsCost(hints[p][q]) \in Nat /\ HintsCost(hints[p][q]) = hints[p][q] * HintPrice
    BY <2>1, HintsCostAdds DEF HintsCost
  <2>3. ledger[p][q] + PriceOwed(p, q) + HintsCost(hints[p][q]) <= 0
    BY DEF PaidInFull
  <2> QED BY <2>1, <2>2, <2>3 DEF PriceOwed
<1> QED BY <1>1, <1>2, <1>3, TypeInvHolds, PTL DEF Spec

-----------------------------------------------------------------------------
(* What a bid was checked for still holds when the hammer falls.            *)

\* Where this holds: an owner has no hint to buy, an organiser neither assigns nor
\* transfers a question nor takes coins off a balance, and a lot that is offered once
\* more does not have an earlier offer's bid restored by retracting.
NothingElseIsSpent ==
  /\ HintCount = 0
  /\ Interventions \cap {"assign", "transfer"} = {}
  /\ "adjust" \in Interventions => Adjustments \subseteq Nat
  /\ "retract" \in Interventions => Interventions \cap {"restore", "take back"} = {}

\* The bids that may still win a lot: its top bid, and any of its rows if the ones above
\* it can be retracted.  TopBidStands is not inductive without the rows.
Claims(l) ==
  IF "retract" \in Interventions THEN {bids[l][i] : i \in 1..Len(bids[l])}
  ELSE {lot[l].top} \ {NoBid}

CanStand(b) == Covers(b.by, b.amount) /\ UnderCap(b.by)
Waiting(l) == lot[l].state \in {"none", "pending"}

ClaimsStand == \A l \in OpenLots : \A b \in Claims(l) : CanStand(b)
WaitingLotsAreUnclaimed == \A l \in Lots : Waiting(l) => Claims(l) = {}
StandInv == ClaimsStand /\ WaitingLotsAreUnclaimed /\ CapHolds

\* Every claim is a bid, and the top bid is one of them.
LEMMA ClaimsAreBids ==
  ASSUME TypeInv, TopIsNewestBid, NEW l \in Lots
  PROVE  /\ Claims(l) \subseteq Bid
         /\ lot[l].top # NoBid => lot[l].top \in Claims(l)
<1>1. lot[l].top \in Bid \cup {NoBid} /\ bids[l] \in Seq(Bid)
  BY DEF TypeInv, TypeOK, LotRow
<1>2. \A i \in 1..Len(bids[l]) : bids[l][i] \in Bid
  BY <1>1
<1>3. lot[l].top # NoBid => Len(bids[l]) \in 1..Len(bids[l]) /\ bids[l][Len(bids[l])] = lot[l].top
  BY <1>1 DEF TopIsNewestBid
<1> QED BY <1>1, <1>2, <1>3, Zenon DEF Claims

\* A claim on a lot that is open after a step was one before it, or is the bid just made;
\* a lot that waits after a step has none.
LEMMA ClaimsStep ==
  ASSUME TypeInv, WaitingLotsAreUnclaimed, [Next]_vars, NothingElseIsSpent, NEW l \in Lots
  PROVE  /\ Waiting(l)' => Claims(l)' = {}
         /\ lot'[l].state = "open" =>
              \A b \in Claims(l)' : \/ b \in Claims(l) /\ lot[l].state = "open"
                                    \/ b \in Bid /\ CanStand(b)
<1>1. bids[l] \in Seq(Bid)
  BY DEF TypeInv, TypeOK
<1>2. Waiting(l) => Claims(l) = {}
  BY DEF WaitingLotsAreUnclaimed
<1>3. CASE KeepsItsBids(l)
  <2>1. CASE lot'[l] = lot[l]
    <3>1. Claims(l)' = Claims(l)
      BY <1>3, <2>1 DEF KeepsItsBids, Claims
    <3> QED BY <1>2, <2>1, <3>1 DEF Waiting
  <2>2. CASE /\ lot[l].state = "none" \/ "take back" \in Interventions
             /\ \E n \in Nat : lot'[l] = Fresh(n)
    <3>1. lot'[l].state = "pending" /\ lot'[l].top = NoBid
      BY <2>2, FreshFields
    <3>2. "retract" \in Interventions => Claims(l) = {}
      BY <1>2, <2>2 DEF Waiting, NothingElseIsSpent
    <3>3. Claims(l)' = {}
      BY <1>3, <3>1, <3>2 DEF KeepsItsBids, Claims
    <3> QED BY <3>1, <3>3
  <2>3. CASE "restore" \in Interventions /\ lot'[l].state = "pending" /\ lot'[l].top = NoBid
    <3>1. "retract" \notin Interventions
      BY <2>3 DEF NothingElseIsSpent
    <3>2. Claims(l)' = {}
      BY <2>3, <3>1 DEF Claims
    <3> QED BY <2>3, <3>2
  <2>4. CASE lot'[l].top = lot[l].top /\ (Waiting(l)' => Waiting(l))
             /\ (lot'[l].state = "open" => Waiting(l) \/ lot[l].state = "open")
    <3>1. Claims(l)' = Claims(l)
      BY <1>3, <2>4 DEF KeepsItsBids, Claims
    <3> QED BY <1>2, <2>4, <3>1
  <2> QED BY <1>3, <2>1, <2>2, <2>3, <2>4 DEF KeepsItsBids, Waiting
<1>4. CASE GetsABid(l)
  <2> DEFINE b == lot'[l].top
  <2>1. b \in Bid /\ CanStand(b) /\ bids'[l] = Append(bids[l], b) /\ lot[l].state = "open"
    BY <1>4 DEF GetsABid, CanStand
  <2>2. lot'[l].state = "open" /\ lot'[l].top = b
    BY <1>4 DEF GetsABid
  <2> HIDE DEF b
  <2>3. \A i \in 1..Len(bids'[l]) :
          bids'[l][i] = b \/ (i \in 1..Len(bids[l]) /\ bids'[l][i] = bids[l][i])
    BY <1>1, <2>1
  <2>4. \A c \in Claims(l)' : c = b \/ c \in Claims(l)
    BY <2>2, <2>3, Zenon DEF Claims
  <2> QED BY <2>1, <2>2, <2>4 DEF Waiting
<1>5. CASE LosesABid(l)
  <2>1. /\ lot[l].state = "open" /\ lot'[l].state = "open" /\ "retract" \in Interventions
        /\ bids[l] # <<>> /\ bids'[l] = WithoutLast(bids[l])
    BY <1>5 DEF LosesABid
  <2>2. \A i \in 1..Len(bids'[l]) : i \in 1..Len(bids[l]) /\ bids'[l][i] = bids[l][i]
    BY <1>1, <2>1 DEF WithoutLast
  <2>3. \A c \in Claims(l)' : c \in Claims(l)
    BY <2>1, <2>2, Zenon DEF Claims
  <2> QED BY <2>1, <2>3 DEF Waiting
<1> QED BY <1>3, <1>4, <1>5, EveryLotStep DEF LotStep

\* Steps that take nothing from anybody: no balance falls and nobody owns more.
NobodyLoses ==
  /\ \A p \in Participants : balance'[p] >= balance[p]
  /\ \A q \in Questions : own'[q].live => own'[q] = own[q]

LEMMA CreditLosesNothing ==
  ASSUME TypeInv, NEW q \in Questions, own[q].live, NEW coins \in Nat, Move(own[q].by, coins, q)
  PROVE  \A p \in Participants : balance'[p] >= balance[p]
<1>1. own[q].by \in Participants /\ coins \in Int /\ balance \in [Participants -> Nat]
  BY DEF TypeInv, TypeOK, OwnerIsKnown
<1> QED BY <1>1, MoveEffect

\* What anybody can lose goes to the hammer: a bidder with a claim, or somebody below the
\* cap, gets the question of a lot that leaves the block.
HammerFalls(q, p, price) ==
  /\ Sold(q, p, price)
  /\ \E l \in Lots :
       /\ l[1] = q /\ lot[l].state = "open"
       /\ lot' = [lot EXCEPT ![l].state = "closed"]
       /\ UnderCap(p) \/ (lot[l].top # NoBid /\ p = lot[l].top.by)

LEMMA OnlyTheHammerTakes ==
  ASSUME TypeInv, [Next]_vars, NothingElseIsSpent
  PROVE  \/ NobodyLoses
         \/ \E q \in Questions, p \in Participants, price \in Nat : HammerFalls(q, p, price)
<1>1. balance \in [Participants -> Nat] /\ own \in [Questions -> SaleRow]
      /\ hints \in [Participants -> [Questions -> Nat]]
  BY DEF TypeInv, TypeOK
<1>2. CASE UNCHANGED <<sales, money>>
  BY <1>1, <1>2 DEF sales, money, NobodyLoses
<1>3. ASSUME NEW q \in Questions, NEW p \in Participants, NEW price \in Nat,
             Sold(q, p, price), Struck(q, p, price)
      PROVE  HammerFalls(q, p, price)
  <2>1. "assign" \notin Interventions
    BY DEF NothingElseIsSpent
  <2> QED BY <1>3, <2>1, Zenon DEF Struck, HammerFalls
<1>4. ASSUME NEW q \in Questions, Undone(q) PROVE NobodyLoses
  <2>1. own'[q].live = FALSE /\ \A o \in Questions \ {q} : own'[o] = own[o]
    BY <1>1, <1>4 DEF Undone, VoidSale, SaleRow
  <2>2. \A p \in Participants : balance'[p] >= balance[p]
    BY <1>4, CreditLosesNothing DEF Undone
  <2> QED BY <2>1, <2>2 DEF NobodyLoses
<1>5. ASSUME NEW q \in Questions, Unsellable(q) PROVE NobodyLoses
  BY <1>1, <1>5 DEF Unsellable, money, NobodyLoses
<1>6. ASSUME NEW q \in Questions, Credited(q) PROVE NobodyLoses
  <2>1. own' = own
    BY <1>6 DEF Credited, sales
  <2>2. \A p \in Participants : balance'[p] >= balance[p]
    BY <1>6, CreditLosesNothing DEF Credited
  <2> QED BY <2>1, <2>2 DEF NobodyLoses
<1>7. ASSUME NEW q \in Questions, NEW p \in Participants, MovedTo(q, p) PROVE FALSE
  BY <1>7 DEF MovedTo, NothingElseIsSpent
<1>8. ASSUME NEW q \in Questions, NEW p \in Participants, Hinted(p, q) PROVE FALSE
  <2>1. hints[p][q] \in Nat /\ hints[p][q] < 0
    BY <1>1, <1>8 DEF Hinted, NothingElseIsSpent
  <2> QED BY <2>1
<1>9. ASSUME NEW p \in Participants, NEW delta \in Int, Adjusted(p, delta) PROVE NobodyLoses
  <2>1. delta \in Nat
    BY <1>9 DEF Adjusted, NothingElseIsSpent
  <2>2. own' = own /\ balance' = [balance EXCEPT ![p] = @ + delta]
    BY <1>9 DEF Adjusted, sales
  <2> QED BY <1>1, <2>1, <2>2 DEF NobodyLoses
<1> QED BY <1>2, <1>3, <1>4, <1>5, <1>6, <1>7, <1>8, <1>9, EverySaleStep, Zenon DEF SaleStep

\* What anybody owns is finite, and the cap counts it.
LEMMA OwnedIsFinite ==
  ASSUME NEW p \in Participants
  PROVE  /\ IsFiniteSet(Owned(p)) /\ Cardinality(Owned(p)) \in Nat
         /\ IsFiniteSet(Owned(p)') /\ Cardinality(Owned(p)') \in Nat
<1>1. Owned(p) \subseteq Questions /\ Owned(p)' \subseteq Questions /\ IsFiniteSet(Questions)
  BY AuctionAssumption DEF Owned
<1> QED BY <1>1, FS_Subset, FS_CardinalityType

LEMMA OwningNoMore ==
  ASSUME NobodyLoses, NEW p \in Participants
  PROVE  Cardinality(Owned(p)') <= Cardinality(Owned(p))
<1>1. Owned(p)' \subseteq Owned(p)
  BY DEF Owned, NobodyLoses
<1> QED BY <1>1, OwnedIsFinite, FS_Subset

LEMMA StillStands ==
  ASSUME TypeInv, TypeInv', NobodyLoses, NEW b \in Bid, CanStand(b)
  PROVE  CanStand(b)'
<1>1. b.by \in Participants /\ b.amount \in Nat /\ OwnershipCap \in Nat
  BY AuctionAssumption DEF Bid
<1>2. balance[b.by] \in Nat /\ balance'[b.by] \in Nat /\ balance'[b.by] >= balance[b.by]
  BY <1>1 DEF TypeInv, TypeOK, NobodyLoses
<1>3. Cardinality(Owned(b.by)') <= Cardinality(Owned(b.by))
  BY <1>1, OwningNoMore
<1>4. Cardinality(Owned(b.by)) \in Nat /\ Cardinality(Owned(b.by)') \in Nat
  BY <1>1, OwnedIsFinite
<1>5. Covers(b.by, b.amount)'
  BY <1>1, <1>2 DEF CanStand, Covers
<1>6. UnderCap(b.by)'
  BY <1>1, <1>3, <1>4 DEF CanStand, UnderCap
<1> QED BY <1>5, <1>6 DEF CanStand

LEMMA StandInvStep ==
  ASSUME TypeInv, TypeInv', BlockInv, StandInv, [Next]_vars, NothingElseIsSpent
  PROVE  StandInv'
<1>1. OwnershipCap \in Nat /\ TopIsNewestBid /\ OneLotOnTheBlock
  BY AuctionAssumption DEF BlockInv
<1>2. WaitingLotsAreUnclaimed'
  BY ClaimsStep DEF WaitingLotsAreUnclaimed, StandInv
<1>3. CASE NobodyLoses
  <2>1. CapHolds'
    <3> SUFFICES ASSUME NEW p \in Participants PROVE Cardinality(Owned(p)') <= OwnershipCap
      BY DEF CapHolds
    <3>1. Cardinality(Owned(p)) <= OwnershipCap
      BY DEF StandInv, CapHolds
    <3> QED BY <1>1, <1>3, <3>1, OwningNoMore, OwnedIsFinite
  <2>2. ClaimsStand'
    <3> SUFFICES ASSUME NEW l \in Lots, lot'[l].state = "open", NEW b \in Claims(l)'
                 PROVE  CanStand(b)'
      BY DEF ClaimsStand, OpenLots
    <3>1. b \in Bid /\ CanStand(b)
      BY <1>1, ClaimsStep, ClaimsAreBids DEF StandInv, ClaimsStand, OpenLots
    <3> QED BY <1>3, <3>1, StillStands
  <2> QED BY <1>2, <2>1, <2>2 DEF StandInv
<1>4. ASSUME NEW q \in Questions, NEW p \in Participants, NEW price \in Nat, HammerFalls(q, p, price)
      PROVE  StandInv'
  <2>1. PICK l \in Lots :
          /\ l[1] = q /\ lot[l].state = "open"
          /\ lot' = [lot EXCEPT ![l].state = "closed"]
          /\ UnderCap(p) \/ (lot[l].top # NoBid /\ p = lot[l].top.by)
    BY <1>4, Zenon DEF HammerFalls
  <2>2. UnderCap(p)
    BY <1>1, <2>1, ClaimsAreBids DEF StandInv, ClaimsStand, OpenLots, CanStand
  <2>3. ~own[q].live /\ own' = [own EXCEPT ![q] = [by |-> p, price |-> price, live |-> TRUE]]
    BY <1>4 DEF HammerFalls, Sold, Sell, Grant, Grantable
  <2>4. own \in [Questions -> SaleRow] /\ lot \in [Lots -> LotRow]
    BY DEF TypeInv, TypeOK
  <2>5. ClaimsStand'
    <3>1. \A m \in Lots : lot'[m].state # "open"
      BY <1>1, <2>1, <2>4 DEF OneLotOnTheBlock, OpenLots, LotRow
    <3> QED BY <3>1 DEF ClaimsStand, OpenLots
  <2>6. CapHolds'
    <3> SUFFICES ASSUME NEW r \in Participants PROVE Cardinality(Owned(r)') <= OwnershipCap
      BY DEF CapHolds
    <3>1. Cardinality(Owned(r)) <= OwnershipCap
      BY DEF StandInv, CapHolds
    <3>2. own'[q].by = p /\ own'[q].live /\ \A o \in Questions \ {q} : own'[o] = own[o]
      BY <2>3, <2>4
    <3>3. CASE r # p
      <4>1. Owned(r)' = Owned(r)
        BY <2>3, <3>2, <3>3 DEF Owned
      <4> QED BY <3>1, <4>1
    <3>4. CASE r = p
      <4>1. Owned(p)' = Owned(p) \cup {q} /\ q \notin Owned(p)
        BY <2>3, <3>2 DEF Owned
      <4>2. Cardinality(Owned(p)') = Cardinality(Owned(p)) + 1
        BY <4>1, OwnedIsFinite, FS_AddElement
      <4> QED BY <1>1, <2>2, <3>4, <4>2, OwnedIsFinite DEF UnderCap
    <3> QED BY <3>3, <3>4
  <2> QED BY <1>2, <2>5, <2>6 DEF StandInv
<1> QED BY <1>3, <1>4, OnlyTheHammerTakes

\* A bid is checked against the balance and the cap when it is made, reserves nothing, and
\* is still good when the hammer falls, whoever bids, retracts or crashes in between: one
\* lot at a time is enough, provided nothing else is spent meanwhile.
THEOREM TopBidKeepsStanding ==
  ASSUME NothingElseIsSpent
  PROVE  Spec => []TopBidStands
<1>1. Init => StandInv
  <2> SUFFICES ASSUME Init PROVE StandInv
    OBVIOUS
  <2>1. \A l \in Lots : lot[l] = NoRow /\ bids[l] = <<>>
    BY DEF Init
  <2>2. \A l \in Lots : Claims(l) = {} /\ lot[l].state # "open"
    BY <2>1 DEF Claims, NoRow
  <2>3. \A p \in Participants : Owned(p) = {}
    BY DEF Init, Owned
  <2>4. CapHolds
    BY <2>3, FS_EmptySet, AuctionAssumption DEF CapHolds
  <2> QED BY <2>2, <2>4 DEF StandInv, ClaimsStand, OpenLots, WaitingLotsAreUnclaimed
<1>2. TypeInv /\ TypeInv' /\ BlockInv /\ StandInv /\ [Next]_vars => StandInv'
  BY StandInvStep
<1>3. TypeInv /\ BlockInv /\ StandInv => TopBidStands
  <2> SUFFICES ASSUME TypeInv, BlockInv, StandInv PROVE TopBidIsCovered
    BY DEF TopBidStands, StandInv
  <2> SUFFICES ASSUME NEW l \in OpenLots, lot[l].top # NoBid
               PROVE  lot[l].top.amount <= balance[lot[l].top.by]
    BY DEF TopBidIsCovered
  <2>1. lot[l].top \in Claims(l)
    BY ClaimsAreBids DEF BlockInv, OpenLots
  <2> QED BY <2>1 DEF StandInv, ClaimsStand, CanStand, Covers
<1> QED BY <1>1, <1>2, <1>3, TypeInvHolds, BlockInvHolds, PTL DEF Spec
=============================================================================
