SPECIFICATION FairSpec
CONSTANTS
  Participants = {p1, p2}
  Questions = {q1, q2}
  Rank <- MCRank
  BasePrice = 1
  BidIncrement = 1
  StartingBalance = 2
  HintPrice = 1
  OwnershipCap = 1
  Countdown = TRUE
  Scheduler = scheduler
  Organisers = {o1}
  Nobody = nobody
  Interventions = {"close", "withdraw", "retract", "timer", "pause", "crash", "disqualify"}
  MaxInterventions = 3
  LastPhase = "coding1"
  MaxBids = 3
  HintCount = 0
  Prices = {1}
  Adjustments <- MCAdjustments
INVARIANTS TopBidStands
PROPERTIES AuctionMovesOn
CHECK_DEADLOCK FALSE
