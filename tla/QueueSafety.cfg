SPECIFICATION FairSpec
CONSTANTS
  w1 = w1  w2 = w2  loud = loud  quiet = quiet  eve = eve  dan = dan
  Workers = {w1, w2}
  Offices = {loud, quiet}
  Staff = {eve, dan}
  Unassigned = Unassigned
  Keys = {"turn"}
  NoKey = NoKey
  Requests <- MCRequests
  OfficePriority <- EqualPriority
  MaxInFlight = 2
  MaxPerOffice = 2
  MaxPerEmployee = 1
  MaxAttempts = 2
  LeaseTicks = 2
  BackoffTicks = 1
  DedupeTicks = 1
  Never = Never
  NoLease = NoLease
  MaxJobs = 3
  MaxFaults = 1
CHECK_DEADLOCK FALSE
INVARIANTS InOrder
PROPERTIES EndsOnce Delivers EveryJobSettles
