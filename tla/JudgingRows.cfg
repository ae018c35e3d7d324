SPECIFICATION Spec
CONSTANTS
  Participants = {p1}
  Questions = {q1}
  Senders = {s1}
  Pollers = {w1}
  Requests = {t1, t2}
  Organisers = {o1, o2}
  Verdicts = {accepted}
  Nobody = nobody
  Undecided = undecided
  MaxRows = 3
  MaxJobs = 1
  Faults = {"reject", "crash", "lost_reply"}
  MaxFaults = 1
SYMMETRY Symmetry
INVARIANTS JudgingInv StoppedJobsDoNotCount
PROPERTIES VerdictIsFinal
CHECK_DEADLOCK FALSE
