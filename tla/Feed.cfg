SPECIFICATION FairSpec
CONSTANTS
  Publishers = {p1, p2}
  RETENTION = 1
  MaxChanges = 2
  MaxFailures = 3
  MaxOpens = 2
  Faults = {"poll", "read", "publish"}
 
PROPERTIES NothingStaleShown 
CHECK_DEADLOCK FALSE
