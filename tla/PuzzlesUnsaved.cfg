SPECIFICATION Spec
CONSTANTS
  Questions = {q1, q2}
  Validated = {q1}
  Answers = {a1, a2}
  Reasons = {w1}
  None = None
  Malformed = Malformed
  MaxEdits = 2
  MaxOpens = 2
  MaxJobs = 2
  MaxFaults = 1
  Faults = {"request", "answer", "judge", "forget", "IE"}
  MaxMarks = 2
  Marks = {1, 2}
INVARIANT TypedIsPersisted
CHECK_DEADLOCK FALSE
