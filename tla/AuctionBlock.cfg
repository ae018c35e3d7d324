SPECIFICATION Spec
CONSTANTS
  Participants = {p1, p2}
  Questions = {q1, q2}
  Rank <- MCRank
  BasePrice = 1
  BidIncrement = 1
  StartingBalance = 3
  HintPrice = 1
  OwnershipCap = 2
  Countdown = TRUE
  Scheduler = scheduler
  Organisers = {o1}
  Nobody = nobody
  Interventions = {"close", "withdraw", "restore", "retract", "timer", "pause", "reorder", "crash", "assign", "take back"}
  MaxInterventions = 2
  LastPhase = "coding1"
  MaxBids = 3
  HintCount = 1
  Prices = {1}
  Adjustments <- MCAdjustments
SYMMETRY Symmetry
INVARIANTS BlockAgrees OwnersHavePaid ScreensAgree
PROPERTIES NoEarlySettlement HammerPrice
CHECK_DEADLOCK FALSE
