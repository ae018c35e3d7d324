SPECIFICATION FairSpec
CONSTANTS
  Sections = {"puzzles", "hacking"}
  Authors = {a}
  Words = {"x", "y", ""}
  Languages = {"cpp", "py"}
  Codes = {"c1", "c2"}
  None = None
  Budgets <- MCBudgets
  MaxOptions = 3
  Faults = {"refused", "down", "forgotten", "IE", "crash"}
   
PROPERTIES AttemptsSettle
CHECK_DEADLOCK FALSE
