SPECIFICATION FairSpec
CONSTANTS
  a = a
  b = b
  None = None
  People = {a, b}
  Organisers = {"o1", "o2"}
  Purse = 6
  Faults = {"lost", "again", "check"}
  MaxLoads = 1
  Edits <- MCEdits
  RuleEdits <- MCRuleEdits
  Budgets <- MCBudgets
INVARIANTS MarketInv RecordExplains
PROPERTIES AttacksAsRuled TimesKept
CHECK_DEADLOCK FALSE
