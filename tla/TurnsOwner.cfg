SPECIFICATION FairSpec
CONSTANTS
  ann = ann  bob = bob  sue = sue
  eng = eng
  Nobody = Nobody
  NoStage = NoStage
  NoTurn = NoTurn
  NoRun = NoRun
  Employees = {ann, bob}
  Departments = {eng}
  Home = eng
  DepartmentOf <- MCDepartmentOf
  SupervisorOf <- MCSupervisorOf
  Checkers <- NoCheckers
  Criteria = {}
  DefinitionOfDone = {}
  Gates = {}
  TaskGates = {}
  StageNames = {}
  Roster <- MCRoster
  Policies <- MCPolicies
  Policy0 <- ByTheOwner
  Answers = {"submitted"}
  GatedCalls = TRUE
  PeopleMay = {"cancel", "review"}
  Midturn = TRUE
  FaultsMay = {"restart", "save", "provider"}
  MaxAttempts = 3
  MaxRevisions = 8
  MaxCalls = 6
  MaxFaults = 2
CHECK_DEADLOCK FALSE
INVARIANTS
  TurnsSound
PROPERTIES
  WorkMovesOn ApprovedCallsAreMade
