SPECIFICATION FairSpec
CONSTANTS
  hq = hq  dev = dev  law = law  ann = ann  bob = bob  cy = cy
  w1 = w1  w2 = w2  essay = essay  brief = brief  digest = digest  report = report
  rivals = rivals
  Nobody = Nobody
  NoBudget = NoBudget
  Workers = {w1, w2}
  Lease = 2
  RenewAfter = 1
  Office = hq
  Depts = {dev, law}
  People = {ann, bob, cy}
  DeptOf <- MCDeptOf
  Hours <- MCHours
  Budgets <- MCBudgets
  Tasks <- MCTasks
  Judges <- MCJudges
  Recurring <- MCRecurring
  Day = 3
  DedupeFor = 9
  MaxClock = 6
  Courses <- MCCourses
CHECK_DEADLOCK FALSE
INVARIANTS OneLeader OverIsSaid
PROPERTIES QueuedAsDue EveryOccurrenceFires
