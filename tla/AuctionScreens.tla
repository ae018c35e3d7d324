---------------------------- MODULE AuctionScreens ----------------------------
(***************************************************************************)
(* What the web client makes of the auction: the floor a participant bids  *)
(* on, the organisers' control page and the card on their dashboard, each  *)
(* as the controls it offers on a fresh view of the contest.  A control is *)
(* a record of what it asks the engine for.                                *)
(***************************************************************************)
EXTENDS AuctionProperties

Control(op, l) == [op |-> op, lot |-> l]

-----------------------------------------------------------------------------
(* The participant's floor.                                                 *)

\* current_lot: what is on the block, of whichever round; there is no board
\* outside an auction phase.
FloorLots == IF IsAuction(phase) THEN OpenLots ELSE {}

Mine(p, l) == lot[l].top.by = p

Affordable(p, l) == Covers(p, NextBidAmount(l))

\* The one button: the next amount, or why it is not to be pressed.
FloorButton(p, l) ==
  IF mode = "offline" THEN "in the room"
  ELSE IF p \in disqualified THEN "not eligible"
  ELSE IF paused THEN "paused"
  ELSE IF Mine(p, l) THEN "winning"
  ELSE IF ~Affordable(p, l) THEN "too expensive"
  ELSE "bid"

-----------------------------------------------------------------------------
(* The organisers' control page: the lots of the phase's round.             *)

Listed == {l \in Round(AuctionRound(phase)) : lot[l].state # "none"}
OnBlock == {l \in Listed : lot[l].state = "open"}
ToCome == {l \in Listed : lot[l].state = "pending"}
Settled == Listed \ (OnBlock \cup ToCome)

HoldControls == {Control(IF paused THEN "resume" ELSE "pause", NoLot)}

\* Mutant: a lot is withdrawn only while its clock runs.
LiveLotWithdrawnInTime(l) ==
  {Control(op, l) : op \in {"close", "add time", "restart", "stop"}}
    \cup (IF lot[l].clock = "off" THEN {} ELSE {Control("withdraw", l)})
    \cup (IF lot[l].top = NoBid THEN {} ELSE {Control("retract", l)})

\* LiveLot: close it, give it time, take it away.
LiveLot(l) ==
  {Control(op, l) : op \in {"close", "add time", "restart", "stop", "withdraw"}}
    \cup (IF lot[l].top = NoBid THEN {} ELSE {Control("retract", l)})

\* Who can afford what, and the same test on the form: a whole price, from the base
\* price up to the balance of somebody who is not disqualified.
Eligible == Participants \ disqualified

ValidSale(p, price) == p \in Eligible /\ price >= BasePrice /\ Covers(p, price)

\* OfflineLot: write down what the room decided.
OfflineLot(l) ==
  {Control("withdraw", l)}
    \cup (IF paused THEN {} ELSE {Control("unsold", l)}
            \cup {[op |-> "sale", lot |-> l, who |-> p, price |-> n] :
                    <<p, n>> \in {s \in Participants \X Prices : ValidSale(s[1], s[2])}})

BlockControls == UNION {IF mode = "offline" THEN OfflineLot(l) ELSE LiveLot(l) : l \in OnBlock}

\* A withdrawn lot can be put back, an owned question taken back.
SettledControls ==
  {IF lot[l].state = "withdrawn" THEN Control("restore", l) ELSE Control("take back", l) :
     l \in {m \in Settled : lot[m].state = "withdrawn" \/ own[m[1]].live}}

QueueControls == {Control("withdraw", l) : l \in ToCome}
                   \cup (IF Cardinality(ToCome) > 1 THEN {Control("reorder", NoLot)} ELSE {})

PageControls ==
  IF IsAuction(phase) THEN HoldControls \cup BlockControls \cup SettledControls \cup QueueControls
                      ELSE {}

\* The dashboard's card reads the public board.
DashboardCard ==
  (IF IsAuction(phase) THEN HoldControls ELSE {}) \cup
    UNION {{Control("close", l)}
             \cup (IF mode = "offline" THEN {}
                   ELSE {Control(IF lot[l].clock = "off" THEN "restart" ELSE "stop", l)}) :
           l \in FloorLots}

-----------------------------------------------------------------------------
(* What the engine says to a control.                                       *)

\* An organiser's thread is free, and the instance's bound is not reached.
EngineFree == interventions < MaxInterventions /\ \A w \in Workers : job[w].at = "idle"

Exercised(c) ==
  CASE c.op \in {"add time", "restart", "stop"} -> "timer" \in Interventions
    [] c.op \in {"sale", "unsold", "resume"} -> TRUE
    [] OTHER -> c.op \in Interventions

Accepted(c) ==
  CASE c.op = "pause" -> ENABLED Pause
    [] c.op = "resume" -> ENABLED Resume
    [] c.op = "close" -> \E w \in Organisers : ENABLED CloseLotNow(w)
    [] c.op = "add time" -> lot[c.lot].clock # "off"
    [] c.op = "restart" -> lot[c.lot].top = NoBid \/ Countdown
    [] c.op = "stop" -> ENABLED SetLotTimer
    [] c.op = "retract" -> ENABLED RetractTopBid
    [] c.op = "withdraw" -> \E w \in Organisers : ENABLED WithdrawLot(w, c.lot)
    [] c.op = "restore" -> ENABLED RestoreLot(c.lot)
    [] c.op = "take back" -> ENABLED TakeBackQuestion(c.lot[1], TRUE, TRUE, TRUE)
    [] c.op = "reorder" -> ENABLED ReorderLots(AuctionRound(phase))
    [] c.op = "unsold" -> \E w \in Organisers : ENABLED RecordUnsold(w, c.lot)
    [] c.op = "sale" -> \E w \in Organisers : ENABLED RecordSale(w, c.lot, c.who, c.price)

\* What the screens let an organiser ask for and the engine refuses: thirty seconds more
\* on a stopped clock, a clock where the contest has none, a buyer at the cap, and a sale
\* of a question that was assigned by hand.
KnownRefusal(c) ==
  \/ c.op = "add time" /\ lot[c.lot].clock = "off"
  \/ c.op = "restart" /\ ~Countdown
  \/ c.op = "sale" /\ (~UnderCap(c.who) \/ own[c.lot[1]].live)

-----------------------------------------------------------------------------
(* The screens and the engine agree.                                        *)

\* A button that offers a bid is taken at its word, for the very amount it shows: only
\* the clock and the ownership cap, which the floor does not look at, refuse it.
BidButtonWorks ==
  \A p \in Participants, l \in FloorLots :
    FloorButton(p, l) = "bid" =>
      ENABLED PlaceBid(p, l) \/ DeadlinePassed(l) \/ ~UnderCap(p) \/ Len(bids[l]) = MaxBids

\* Whoever may bid on the lot on the block of a running auction finds the button.
BiddersFindTheButton ==
  \A p \in Participants, l \in OpenLots :
    IsAuction(phase) /\ ENABLED PlaceBid(p, l) => l \in FloorLots /\ FloorButton(p, l) = "bid"

\* Every control of the organisers' two screens does what it says, but for the refusals
\* listed: "the form says so before you submit, so the refusal is not a surprise after
\* the hammer has already come down" (admin/auction/page.tsx:480).
ControlsWork ==
  EngineFree => \A c \in PageControls \cup DashboardCard : Exercised(c) => Accepted(c) \/ KnownRefusal(c)

\* However a lot of the running round got stuck (its clock stopped, its top bid no longer
\* covered, its question assigned meanwhile), the control page can take it off the block.
BlockCanBeCleared ==
  EngineFree /\ "withdraw" \in Interventions /\ IsAuction(phase) =>
    \A l \in OpenLots : l[2] = AuctionRound(phase) =>
      \E c \in BlockControls : c.op = "withdraw" /\ c.lot = l /\ Accepted(c)

\* The screens agree with the engine, both ways: what the floor and the organisers' pages
\* offer is taken, and whoever may act, or has to, finds the control.
ScreensAgree == BidButtonWorks /\ BiddersFindTheButton /\ ControlsWork /\ BlockCanBeCleared
=============================================================================
