SPECIFICATION Spec
CONSTANTS
  ann = ann  bob = bob  sue = sue
  eng = eng
  Nobody = Nobody
  NoStage = NoStage
  NoTurn = NoTurn
  NoRun = NoRun
  Employees = {ann, bob}
  Departments = {eng}
  Home = eng
  DepartmentOf <- MCDepartmentOf
  SupervisorOf <- MCSupervisorOf
  Checkers <- NoCheckers
  Criteria = {}
  DefinitionOfDone = {}
  Gates = {}
  TaskGates = {}
  StageNames = {}
  Roster <- MCRoster
  Policies <- MCPolicies
  Policy0 <- ByTheOwner
  Answers = {"submitted"}
  GatedCalls = TRUE
  PeopleMay = {"unblock", "reassign"}
  Midturn = TRUE
  FaultsMay = {"restart", "save", "load", "event", "office"}
  MaxAttempts = 2
  MaxRevisions = 3
  MaxCalls = 2
  MaxFaults = 2
CHECK_DEADLOCK FALSE
INVARIANTS
  CallsAreSound
