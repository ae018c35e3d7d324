SPECIFICATION FairSpec
CONSTANTS
  None = None
  p1 = p1
  p2 = p2
  People = {p1, p2}
  Organisers = {"o1", "o2"}
  Minutes = 2
  Defaults <- MCDefaults
  SettingEdits <- MCEdits
  Zips <- MCZips
  Setups <- MCSetups
  Budgets <- MCBudgets
INVARIANTS ContestInv SeatInv ShelfInv
PROPERTIES RoundsStand VersionsStand 
CHECK_DEADLOCK FALSE
