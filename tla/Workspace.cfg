SPECIFICATION FairSpec
CONSTANTS
  Languages = {"cpp", "py"}
  Preferred = "cpp"
  None = None
  Accepted <- MCAccepted
  Hints = 3
  Faults = {"network", "crash", "refused", "forgotten"}
  MaxLoads = 2
  Budgets <- MCBudgets
INVARIANTS PressedInGoodFaith SwapFindsTheCode
PROPERTIES RunsEndForGood 
CHECK_DEADLOCK FALSE
