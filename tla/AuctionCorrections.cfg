SPECIFICATION Spec
CONSTANTS
  Participants = {p1, p2}
  Questions = {q1}
  Rank <- MCRank
  BasePrice = 1
  BidIncrement = 1
  StartingBalance = 2
  HintPrice = 1
  OwnershipCap = 2
  Countdown = TRUE
  Scheduler = scheduler
  Organisers = {o1}
  Nobody = nobody
  Interventions = {"assign", "take back", "void", "rejudge refund", "transfer", "adjust", "disqualify", "mode"}
  MaxInterventions = 2
  LastPhase = "auction2"
  MaxBids = 2
  HintCount = 1
  Prices = {0, 1}
  Adjustments <- MCAdjustments
SYMMETRY Symmetry
INVARIANTS SoldIffOwned
PROPERTIES ChargedOnlyForOwning ImplementsSale
CHECK_DEADLOCK FALSE
