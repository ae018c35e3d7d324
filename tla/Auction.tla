------------------------------- MODULE Auction -------------------------------
(***************************************************************************)
(* The auction of engine/engine/auction with the corrections that touch a  *)
(* sale: lots on the block, the bids on them, who owns which question and  *)
(* what everybody paid.                                                    *)
(*                                                                         *)
(* One action is one database transaction, except where a transaction      *)
(* reads before it locks.  A worker (the scheduler, or a thread serving an *)
(* organiser's request) that runs several transactions one after the other *)
(* keeps what it read in job[w]; everything else is a row of the database. *)
(*                                                                         *)
(* A lot's two deadline columns are one clock: "off" (NULL), "live" (in    *)
(* the future) or "due" (passed).  While the auction is paused the clock   *)
(* stands still, because resume shifts the deadlines by the time held.     *)
(***************************************************************************)
EXTENDS Integers, Sequences, FiniteSets

CONSTANTS
  Participants, Questions,
  Rank,             \* a question's place by auction_order, then by id
  BasePrice, BidIncrement, StartingBalance, HintPrice,
  OwnershipCap,     \* contest.ownership_cap
  Countdown,        \* contest.countdown_seconds > 0
  Scheduler, Organisers,
  Nobody,           \* NULL in a participant column
  \* Bounds of an instance, not of the program.
  Interventions,    \* the organiser operations the instance exercises
  MaxInterventions, \* how many of them a behaviour may contain
  LastPhase,        \* the contest is not advanced beyond this phase
  MaxBids,          \* bid rows kept for one lot
  HintCount,        \* hints a question has
  Prices,           \* prices an organiser may type in
  Adjustments       \* balance corrections an organiser may type in

Workers == Organisers \cup {Scheduler}
Lots == Questions \X {1, 2}
Phases == {"review", "auction1", "coding1", "auction2", "final", "ended"}
Bid == [by : Participants, amount : Nat]
NoBid == [by |-> Nobody, amount |-> 0]

ASSUME AuctionAssumption ==
  /\ Nobody \notin Participants
  /\ Scheduler \notin Organisers
  /\ IsFiniteSet(Questions)
  /\ Rank \in [Questions -> Nat]
  /\ \A q, o \in Questions : Rank[q] = Rank[o] => q = o
  /\ {BasePrice, BidIncrement, StartingBalance, HintPrice} \subseteq Nat
  /\ {OwnershipCap, MaxBids, HintCount, MaxInterventions} \subseteq Nat
  /\ Countdown \in BOOLEAN
  /\ LastPhase \in Phases
  /\ Prices \subseteq Nat
  /\ Adjustments \subseteq Int

VARIABLES
  phase, paused, mode,      \* the contest row
  lot,                      \* lot rows by (question, round)
  bids,                     \* bid rows of each lot, oldest first
  status,                   \* question.status
  own,                      \* ownership rows; live is voided_at IS NULL
  balance,                  \* participant.balance
  ledger,                   \* sum of a participant's ledger lines about a question
  hints,                    \* hint_purchase rows: how many hints are bought
  disqualified,             \* participants with disqualified_at set
  job,                      \* what each worker is in the middle of
  interventions             \* organiser operations so far (bound only)

contest == <<phase, paused, mode>>
block == <<lot, bids>>
sales == <<status, own>>
money == <<balance, ledger>>
vars == <<contest, block, sales, money, hints, disqualified, job, interventions>>

-----------------------------------------------------------------------------
(* The contest's phases. *)

NextPhase == [review |-> "auction1", auction1 |-> "coding1", coding1 |-> "auction2",
              auction2 |-> "final", final |-> "ended"]
IsAuction(ph) == ph \in {"auction1", "auction2"}
AuctionRound(ph) == IF ph = "auction2" THEN 2 ELSE 1
ActiveRound(ph) == IF IsAuction(ph) THEN AuctionRound(ph) ELSE 0

(* Workers.  "settle" and "close" hold a lot read earlier, "open" and "pick" *)
(* a round read earlier; "pick" is inside _open_next, after it has locked    *)
(* the contest row and seen no open lot.                                     *)

JobSteps == {"idle", "settle", "close", "open", "pick"}
NoLot == <<Nobody, 0>>
Idle == [at |-> "idle", round |-> 0, lot |-> NoLot]
Busy(step, round, l) == [at |-> step, round |-> round, lot |-> l]
Goes(w, j) == job' = [job EXCEPT ![w] = j]

\* Phase, pause and mode change under FOR UPDATE: not while a worker holds the
\* contest row FOR SHARE.
ContestUnlocked == \A w \in Workers : job[w].at # "pick"

Intervene(op) ==
  /\ op \in Interventions
  /\ interventions < MaxInterventions
  /\ interventions' = interventions + 1

-----------------------------------------------------------------------------
(* Lots and clocks. *)

LotStates == {"none", "pending", "open", "closed", "unsold", "withdrawn"}
Clocks == {"off", "live", "due"}
NoRow == [state |-> "none", order |-> 0, top |-> NoBid, clock |-> "off"]
Fresh(order) == [state |-> "pending", order |-> order, top |-> NoBid, clock |-> "off"]

OpenLots == {l \in Lots : lot[l].state = "open"}
Round(r) == {l \in Lots : l[2] = r}
Pending(r) == {l \in Round(r) : lot[l].state = "pending"}

LastOrder(r) ==
  CHOOSE n \in {lot[l].order : l \in Round(r)} : \A l \in Round(r) : lot[l].order <= n

\* Mutant: the last lot of the queue is never next.
NextPendingButLast(r) ==
  {l \in Pending(r) : /\ \A m \in Pending(r) : lot[l].order <= lot[m].order
                      /\ \E m \in Pending(r) : lot[l].order < lot[m].order}

NextPending(r) == {l \in Pending(r) : \A m \in Pending(r) : lot[l].order <= lot[m].order}

DeadlinePassed(l) == lot[l].clock = "due"
AfterBid == IF Countdown THEN "live" ELSE "off"

CreateLots(r) ==
  LET offered == {q \in Questions : IF r = 1 THEN status[q] # "void" ELSE status[q] = "unsold"}
      place(q) == Cardinality({o \in offered : Rank[o] <= Rank[q]})
  IN lot' = [l \in Lots |->
               IF l[2] = r /\ l[1] \in offered /\ lot[l].state = "none"
               THEN Fresh(place(l[1])) ELSE lot[l]]

-----------------------------------------------------------------------------
(* Money and ownership.  wallet.move refuses what would leave a balance     *)
(* negative; a refusal anywhere rolls the whole transaction back.           *)

Covers(p, amount) == amount <= balance[p]

Move(p, delta, q) ==
  /\ balance[p] + delta >= 0
  /\ balance' = [balance EXCEPT ![p] = @ + delta]
  /\ ledger' = [ledger EXCEPT ![p][q] = @ + delta]

Owned(p) == {q \in Questions : own[q].live /\ own[q].by = p}
\* Mutant: one question above the cap.
UnderCapOffByOne(p) == Cardinality(Owned(p)) <= OwnershipCap

UnderCap(p) == Cardinality(Owned(p)) < OwnershipCap

\* Mutant: the upsert overwrites a live row.
GrantableAlways(q) == TRUE

\* An ownership row is written only where none is, or over a voided one.
Grantable(q) == ~own[q].live
Grant(q, p, price) ==
  /\ Grantable(q)
  /\ own' = [own EXCEPT ![q] = [by |-> p, price |-> price, live |-> TRUE]]

MarkSold(q) == status' = [status EXCEPT ![q] = "sold"]

Sell(q, p, price) == Move(p, -price, q) /\ Grant(q, p, price) /\ MarkSold(q)

Awardable(l, p, price) == Covers(p, price) /\ Grantable(l[1])
Award(l, p, price) ==
  /\ Sell(l[1], p, price)
  /\ lot' = [lot EXCEPT ![l].state = "closed"]

\* Mutant: the winner is charged the base price.
SettleAtBasePrice(l) ==
  \/ /\ lot[l].top = NoBid
     /\ lot' = [lot EXCEPT ![l].state = "unsold"]
     /\ UNCHANGED <<sales, money>>
  \/ /\ lot[l].top # NoBid
     /\ Award(l, lot[l].top.by, BasePrice)

\* _settle: award to the highest bidder, or mark the lot unsold.
Settle(l) ==
  \/ /\ lot[l].top = NoBid
     /\ lot' = [lot EXCEPT ![l].state = "unsold"]
     /\ UNCHANGED <<sales, money>>
  \/ /\ lot[l].top # NoBid
     /\ Award(l, lot[l].top.by, lot[l].top.amount)

SettleRaises(l) ==
  lot[l].top # NoBid /\ ~Awardable(l, lot[l].top.by, lot[l].top.amount)

\* What refund_sale credits for the live sale of q.
Refund(q, price, hinted) ==
  (IF price THEN own[q].price ELSE 0)
    + (IF hinted THEN hints[own[q].by][q] * HintPrice ELSE 0)

-----------------------------------------------------------------------------
(* Bidding. *)

NextBidAmount(l) == IF lot[l].top = NoBid THEN BasePrice ELSE lot[l].top.amount + BidIncrement

OnTheBlock(l) == lot[l].state = "open" /\ ~DeadlinePassed(l)

\* A bid of any other amount, or by anybody else, is refused.
PlaceBid(p, l) ==
  LET row == [by |-> p, amount |-> NextBidAmount(l)]
  IN /\ p \notin disqualified
     /\ mode = "online"
     /\ ~paused
     /\ OnTheBlock(l)
     /\ lot[l].top.by # p
     /\ Covers(p, row.amount)
     /\ UnderCap(p)
     /\ Len(bids[l]) < MaxBids
     /\ bids' = [bids EXCEPT ![l] = Append(@, row)]
     /\ lot' = [lot EXCEPT ![l].top = row, ![l].clock = AfterBid]
     /\ UNCHANGED <<contest, sales, money, hints, disqualified, job, interventions>>

\* Time passes: the running clock of the lot on the block reaches its deadline.
ClockRunsOut(l) ==
  /\ lot[l].state = "open"
  /\ lot[l].clock = "live"
  /\ ~paused
  /\ lot' = [lot EXCEPT ![l].clock = "due"]
  /\ UNCHANGED <<contest, bids, sales, money, hints, disqualified, job, interventions>>

\* buy_hint asks for no phase and no contest lock: an owner may spend at any time.
BuyHint(p, q) ==
  /\ own[q].live /\ own[q].by = p
  /\ hints[p][q] < HintCount
  /\ Move(p, -HintPrice, q)
  /\ hints' = [hints EXCEPT ![p][q] = @ + 1]
  /\ UNCHANGED <<contest, block, sales, disqualified, job, interventions>>

-----------------------------------------------------------------------------
(* The scheduler's tick, and opening the next lot.  Each step is a          *)
(* transaction or, inside _open_next, a statement with its own snapshot.    *)

TickRead(w) ==
  /\ w = Scheduler
  /\ job[w].at = "idle"
  /\ IsAuction(phase)
  /\ ~paused
  /\ \/ /\ OpenLots = {}
        /\ Goes(w, Busy("open", AuctionRound(phase), NoLot))
     \/ \E l \in OpenLots : /\ mode = "online"
                            /\ DeadlinePassed(l)
                            /\ Goes(w, Busy("settle", AuctionRound(phase), l))
  /\ UNCHANGED <<contest, block, sales, money, hints, disqualified, interventions>>

\* Mutant: the deadline is not read again under the lock.
StillOpen(l) == ~paused /\ mode = "online" /\ lot[l].state = "open"

\* Re-read under the lot's lock: only a lot that is still open and due is settled.
StillDue(l) == ~paused /\ mode = "online" /\ lot[l].state = "open" /\ DeadlinePassed(l)
SettleIfDue(w) ==
  LET l == job[w].lot
  IN /\ job[w].at = "settle"
     /\ \/ /\ StillDue(l)
           /\ Settle(l)
           /\ Goes(w, Busy("open", job[w].round, NoLot))
        \/ /\ StillDue(l) => SettleRaises(l)
           /\ Goes(w, Idle)
           /\ UNCHANGED <<lot, sales, money>>
     /\ UNCHANGED <<contest, bids, hints, disqualified, interventions>>

\* The first statements of _open_next.
CheckBlock(w) ==
  /\ job[w].at = "open"
  /\ Goes(w, IF paused \/ OpenLots # {} THEN Idle ELSE Busy("pick", job[w].round, NoLot))
  /\ UNCHANGED <<contest, block, sales, money, hints, disqualified, interventions>>

\* Mutant: no such index.
NoIndex == TRUE

\* The unique index lot_single_open, checked when the row is written.
LotSingleOpen == OpenLots = {}
PickLot(w) ==
  LET next == NextPending(job[w].round)
  IN /\ job[w].at = "pick"
     /\ \/ \E l \in next :
             /\ LotSingleOpen
             /\ lot' = [lot EXCEPT ![l].state = "open",
                                   ![l].clock = IF mode = "offline" THEN "off" ELSE "live"]
        \/ /\ next = {} \/ ~LotSingleOpen
           /\ UNCHANGED lot
     /\ Goes(w, Idle)
     /\ UNCHANGED <<contest, bids, sales, money, hints, disqualified, interventions>>

\* A process dies between two transactions, or inside one, which rolls back.
Crash(w) ==
  /\ job[w].at # "idle"
  /\ Goes(w, Idle)
  /\ Intervene("crash")
  /\ UNCHANGED <<contest, block, sales, money, hints, disqualified>>

-----------------------------------------------------------------------------
(* An organiser at a running auction.  Operations that end by offering the  *)
(* next lot leave the worker at "open" with the round they read.            *)

Then(w, r) == Goes(w, IF r = 0 THEN Idle ELSE Busy("open", r, NoLot))

\* Leaving a phase asks nothing of the lots: one may still be on the block.
Advance(w) ==
  /\ w \in Organisers
  /\ job[w].at = "idle"
  /\ phase \notin {LastPhase, "ended"}
  /\ ContestUnlocked
  /\ phase' = NextPhase[phase]
  /\ IF ActiveRound(phase') = 0 THEN UNCHANGED lot ELSE CreateLots(ActiveRound(phase'))
  /\ Then(w, ActiveRound(phase'))
  /\ UNCHANGED <<paused, mode, bids, sales, money, hints, disqualified, interventions>>

Pause ==
  /\ Intervene("pause")
  /\ IsAuction(phase) /\ ~paused
  /\ ContestUnlocked
  /\ paused' = TRUE
  /\ UNCHANGED <<phase, mode, block, sales, money, hints, disqualified, job>>

\* Not an intervention: whatever the bound, what was paused may be resumed.
Resume ==
  /\ IsAuction(phase) /\ paused
  /\ ContestUnlocked
  /\ paused' = FALSE
  /\ UNCHANGED <<phase, mode, block, sales, money, hints, disqualified, job, interventions>>

ChangeMode ==
  /\ Intervene("mode")
  /\ ~IsAuction(phase)
  /\ ContestUnlocked
  /\ mode' = IF mode = "online" THEN "offline" ELSE "online"
  /\ UNCHANGED <<phase, paused, block, sales, money, hints, disqualified, job>>

\* close_lot_now reads the lot on the block and the phase, in one transaction...
CloseLotNow(w) ==
  /\ w \in Organisers
  /\ job[w].at = "idle"
  /\ Intervene("close")
  /\ \E l \in OpenLots : Goes(w, Busy("close", AuctionRound(phase), l))
  /\ UNCHANGED <<contest, block, sales, money, hints, disqualified>>

\* ...and close_lot settles that lot in the next, whatever its clock says.
CloseLot(w) ==
  LET l == job[w].lot
  IN /\ job[w].at = "close"
     /\ \/ /\ lot[l].state = "open"
           /\ Settle(l)
           /\ Goes(w, Busy("open", job[w].round, NoLot))
        \/ /\ lot[l].state = "open" => SettleRaises(l)
           /\ Goes(w, Idle)
           /\ UNCHANGED <<lot, sales, money>>
     /\ UNCHANGED <<contest, bids, hints, disqualified, interventions>>

\* The clock after "off", "restart" or "adjust".
NewClocks(l) ==
  {"off"} \cup (IF lot[l].top = NoBid \/ Countdown THEN {"live"} ELSE {})
          \cup (IF lot[l].clock # "off" THEN {"live"} ELSE {})

SetLotTimer ==
  /\ Intervene("timer")
  /\ \E l \in OpenLots : \E c \in NewClocks(l) : lot' = [lot EXCEPT ![l].clock = c]
  /\ UNCHANGED <<contest, bids, sales, money, hints, disqualified, job>>

\* The two newest bid rows of the lot: one is deleted, the other restored.
WithoutLast(s) == SubSeq(s, 1, Len(s) - 1)
PreviousBid(l) == IF Len(bids[l]) > 1 THEN bids[l][Len(bids[l]) - 1] ELSE NoBid

RetractTopBid ==
  /\ Intervene("retract")
  /\ \E l \in OpenLots :
       /\ bids[l] # <<>>
       /\ bids' = [bids EXCEPT ![l] = WithoutLast(@)]
       /\ lot' = [lot EXCEPT ![l].top = PreviousBid(l),
                             ![l].clock = IF PreviousBid(l) = NoBid THEN "live" ELSE AfterBid]
  /\ UNCHANGED <<contest, sales, money, hints, disqualified, job>>

\* The bids are kept, and so are the current bid columns.
WithdrawLot(w, l) ==
  /\ w \in Organisers
  /\ job[w].at = "idle"
  /\ Intervene("withdraw")
  /\ lot[l].state \in {"pending", "open"}
  /\ lot' = [lot EXCEPT ![l].state = "withdrawn", ![l].clock = "off"]
  /\ Then(w, IF lot[l].state = "open" THEN ActiveRound(phase) ELSE 0)
  /\ UNCHANGED <<contest, bids, sales, money, hints, disqualified>>

\* Back of the queue with its bid columns cleared; the clock was cleared before.
RestoreLot(l) ==
  /\ Intervene("restore")
  /\ lot[l].state = "withdrawn"
  /\ lot' = [lot EXCEPT ![l].state = "pending", ![l].order = LastOrder(l[2]) + 1,
                        ![l].top = NoBid]
  /\ UNCHANGED <<contest, bids, sales, money, hints, disqualified, job>>

\* Only lots still to be offered move, among the slots they already hold.
ReorderLots(r) ==
  /\ Intervene("reorder")
  /\ Pending(r) # {}
  /\ \E slot \in [Pending(r) -> Pending(r)] :
       /\ \A l, m \in Pending(r) : slot[l] = slot[m] => l = m
       /\ lot' = [l \in Lots |-> IF l \in Pending(r)
                                 THEN [lot[l] EXCEPT !.order = lot[slot[l]].order] ELSE lot[l]]
  /\ UNCHANGED <<contest, bids, sales, money, hints, disqualified, job>>

\* The offline auction: the organiser types in what the room decided.
RecordSale(w, l, p, price) ==
  /\ w \in Organisers
  /\ job[w].at = "idle"
  /\ mode = "offline" /\ IsAuction(phase) /\ ~paused
  /\ lot[l].state = "open"
  /\ price >= BasePrice
  /\ p \notin disqualified
  /\ UnderCap(p)
  /\ Awardable(l, p, price)
  /\ Award(l, p, price)
  /\ Goes(w, Busy("open", AuctionRound(phase), NoLot))
  /\ UNCHANGED <<contest, bids, hints, disqualified, interventions>>

RecordUnsold(w, l) ==
  /\ w \in Organisers
  /\ job[w].at = "idle"
  /\ mode = "offline"
  /\ lot[l].state = "open"
  /\ lot' = [lot EXCEPT ![l].state = "unsold", ![l].clock = "off"]
  /\ Then(w, ActiveRound(phase))
  /\ UNCHANGED <<contest, bids, sales, money, hints, disqualified, interventions>>

-----------------------------------------------------------------------------
(* An organiser correcting a sale.                                          *)

\* Mutant: the sale is recorded and nobody is charged.
AssignForFree(q, p, price) ==
  /\ Intervene("assign")
  /\ status[q] = "unsold"
  /\ Covers(p, price)
  /\ Grant(q, p, price) /\ MarkSold(q)
  /\ UNCHANGED <<contest, block, money, hints, disqualified, job>>

\* assign_question takes no contest lock and looks at no lot.
AssignQuestion(q, p, price) ==
  /\ Intervene("assign")
  /\ status[q] = "unsold"
  /\ Covers(p, price)
  /\ Sell(q, p, price)
  /\ UNCHANGED <<contest, block, hints, disqualified, job>>

\* Mutant: the ownership row stays live.
VoidNothing(q) == own' = own

VoidSale(q) == own' = [own EXCEPT ![q].live = FALSE]

Relist(l) == lot' = [lot EXCEPT ![l] = Fresh(LastOrder(l[2]) + 1)]

\* Mutant: refunded hints stay bought.
TakeBackKeepingHints(q, refundPrice, refundHints, relist) ==
  /\ Intervene("take back")
  /\ own[q].live
  /\ VoidSale(q)
  /\ Move(own[q].by, Refund(q, refundPrice, refundHints), q)
  /\ status' = [status EXCEPT ![q] = "unsold"]
  /\ IF relist THEN Relist(<<q, AuctionRound(phase)>>) ELSE UNCHANGED lot
  /\ UNCHANGED <<contest, bids, hints, disqualified, job>>

TakeBackQuestion(q, refundPrice, refundHints, relist) ==
  /\ Intervene("take back")
  /\ own[q].live
  /\ VoidSale(q)
  /\ Move(own[q].by, Refund(q, refundPrice, refundHints), q)
  /\ hints' = IF refundHints THEN [hints EXCEPT ![own[q].by][q] = 0] ELSE hints
  /\ status' = [status EXCEPT ![q] = "unsold"]
  /\ IF relist THEN Relist(<<q, AuctionRound(phase)>>) ELSE UNCHANGED lot
  /\ UNCHANGED <<contest, bids, disqualified, job>>

\* The question leaves the contest; its hints stay bought and its lots stay.
VoidQuestion(q, refundPrice, refundHints) ==
  /\ Intervene("void")
  /\ status' = [status EXCEPT ![q] = "void"]
  /\ IF own[q].live
     THEN VoidSale(q) /\ Move(own[q].by, Refund(q, refundPrice, refundHints), q)
     ELSE UNCHANGED <<own, money>>
  /\ UNCHANGED <<contest, block, hints, disqualified, job>>

\* rejudge_outcome "refund": the owner keeps the question and gets the price back.
RejudgeRefund(q) ==
  /\ Intervene("rejudge refund")
  /\ own[q].live
  /\ Move(own[q].by, own[q].price, q)
  /\ UNCHANGED <<contest, block, sales, hints, disqualified, job>>

\* No money changes hands; a voided ownership row can be transferred too.
TransferOwnership(q, p) ==
  /\ Intervene("transfer")
  /\ own[q].by # Nobody
  /\ own' = [own EXCEPT ![q].by = p]
  /\ UNCHANGED <<contest, block, status, money, hints, disqualified, job>>

AdjustBalance(p, delta) ==
  /\ Intervene("adjust")
  /\ balance[p] + delta >= 0
  /\ balance' = [balance EXCEPT ![p] = @ + delta]
  /\ UNCHANGED <<contest, block, sales, ledger, hints, disqualified, job>>

Disqualify(p) ==
  /\ Intervene("disqualify")
  /\ disqualified' = IF p \in disqualified THEN disqualified \ {p} ELSE disqualified \cup {p}
  /\ UNCHANGED <<contest, block, sales, money, hints, job>>

-----------------------------------------------------------------------------
(* The specification.                                                       *)

Init ==
  /\ phase = "review" /\ paused = FALSE /\ mode \in {"online", "offline"}
  /\ lot = [l \in Lots |-> NoRow]
  /\ bids = [l \in Lots |-> <<>>]
  /\ status = [q \in Questions |-> "unsold"]
  /\ own = [q \in Questions |-> [by |-> Nobody, price |-> 0, live |-> FALSE]]
  /\ balance = [p \in Participants |-> StartingBalance]
  /\ ledger = [p \in Participants |-> [q \in Questions |-> 0]]
  /\ hints = [p \in Participants |-> [q \in Questions |-> 0]]
  /\ disqualified = {}
  /\ job = [w \in Workers |-> Idle]
  /\ interventions = 0

Tick == TickRead(Scheduler) \/ SettleIfDue(Scheduler)
        \/ CheckBlock(Scheduler) \/ PickLot(Scheduler)

Playing ==
  \/ \E p \in Participants, l \in Lots : PlaceBid(p, l)
  \/ \E p \in Participants, q \in Questions : BuyHint(p, q)
  \/ \E l \in Lots : ClockRunsOut(l)

Working ==
  \/ Tick
  \/ \E w \in Organisers : CloseLot(w) \/ CheckBlock(w) \/ PickLot(w)
  \/ \E w \in Workers : Crash(w)

Running ==
  \/ Pause \/ Resume \/ ChangeMode \/ SetLotTimer \/ RetractTopBid
  \/ \E w \in Organisers : Advance(w) \/ CloseLotNow(w)
  \/ \E w \in Organisers, l \in Lots : WithdrawLot(w, l) \/ RecordUnsold(w, l)
  \/ \E w \in Organisers, l \in Lots, p \in Participants, price \in Prices :
       RecordSale(w, l, p, price)
  \/ \E l \in Lots : RestoreLot(l)
  \/ \E r \in {1, 2} : ReorderLots(r)

Correcting ==
  \/ \E q \in Questions, p \in Participants, price \in Prices : AssignQuestion(q, p, price)
  \/ \E q \in Questions, a, b, c \in BOOLEAN : TakeBackQuestion(q, a, b, c)
  \/ \E q \in Questions, a, b \in BOOLEAN : VoidQuestion(q, a, b)
  \/ \E q \in Questions : RejudgeRefund(q)
  \/ \E q \in Questions, p \in Participants : TransferOwnership(q, p)
  \/ \E p \in Participants, delta \in Adjustments : AdjustBalance(p, delta)
  \/ \E p \in Participants : Disqualify(p)

Next == Playing \/ Working \/ Running \/ Correcting

Spec == Init /\ [][Next]_vars

\* The scheduler thread ticks every second and time passes; nobody has to bid
\* and no organiser has to do anything.
Fairness == WF_vars(Tick) /\ \A l \in Lots : WF_vars(ClockRunsOut(l))

FairSpec == Spec /\ Fairness
=============================================================================
