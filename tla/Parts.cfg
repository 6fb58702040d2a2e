CONSTANTS
  ann = ann sue = sue bob = bob lee = lee desk1 = desk1 law = law
  Nobody = Nobody NoStage = NoStage Absent = Absent
  Gone = Gone Unpriced = Unpriced
  Employees = {ann, sue, bob, lee}
  Departments = {desk1, law}
  Home = desk1
  DepartmentOf <- MCDepartmentOf
  SupervisorOf <- MCSupervisorOf
  Checkers <- NoCheckers
  Criteria = {}
  DefinitionOfDone = {}
  Gates = {"spend"}
  TaskGates = {"spend"}
  StageNames = {}
  Policies <- MCPolicies
  Onward = law
  Rosters <- MCRosters
  BatchSize = 4
  MaxTicks = 7
  MaxStops = 2
  MaxPapers = 1
  Handlers = {r1, r2}
  DocumentIds = {1, 2, 3}
  Page = 1
  Arrivals <- MCArrivals
  MaxFilingStops = 1
  Trays = {a, b}
  NoRow = NoRow
SYMMETRY Symmetry
SPECIFICATION PartSpec
CHECK_DEADLOCK FALSE
INVARIANTS ListsHold CommandHolds DueAndUp MetersHold
PROPERTIES StorageHolds
