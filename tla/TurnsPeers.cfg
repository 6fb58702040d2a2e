SPECIFICATION FairSpec
CONSTANTS
  ann = ann  bob = bob  sue = sue
  eng = eng
  Nobody = Nobody
  NoStage = NoStage
  NoTurn = NoTurn
  NoRun = NoRun
  Employees = {ann, bob}
  Departments = {eng}
  Home = eng
  DepartmentOf <- MCDepartmentOf
  SupervisorOf <- MCSupervisorOf
  Checkers <- NoCheckers
  Criteria = {}
  DefinitionOfDone = {}
  Gates = {}
  TaskGates = {}
  StageNames = {}
  Roster <- MCRoster
  Policies <- MCPolicies
  Policy0 <- ByAPeer
  Answers = {"submitted", "approved", "rejected"}
  GatedCalls = TRUE
  PeopleMay = {}
  Midturn = TRUE
  FaultsMay = {"restart", "event", "load", "save", "office"}
  MaxAttempts = 3
  MaxRevisions = 8
  MaxCalls = 4
  MaxFaults = 1
CHECK_DEADLOCK FALSE
PROPERTIES
  ReviewMovesOn
