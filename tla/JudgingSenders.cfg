SPECIFICATION FairSpec
CONSTANTS
  Participants = {p1}
  Questions = {q1}
  Senders = {s1, s2}
  Pollers = {w1, w2}
  Requests = {t1}
  Organisers = {}
  Verdicts = {accepted, wrong}
  Nobody = nobody
  Undecided = undecided
  MaxRows = 1
  MaxJobs = 3
  Faults = {"restart", "expire", "busy"}
  MaxFaults = 2

INVARIANTS SentOnce
PROPERTIES ResultOfTheJobWaitedFor 
CHECK_DEADLOCK FALSE
