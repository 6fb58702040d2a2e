SPECIFICATION FairSpec
CONSTANTS
  ann = ann  bob = bob  sue = sue  quinn = quinn  lee = lee
  eng = eng  qa = qa  legal = legal
  Nobody = Nobody
  NoStage = NoStage
  Employees <- MCEmployees
  Departments <- MCDepartments
  Home = eng
  DepartmentOf <- MCDepartmentOf
  SupervisorOf <- MCSupervisorOf
  Checkers <- TwoCheckers
  Criteria = {"c1"}
  DefinitionOfDone = {}
  Gates = {"spend"}
  TaskGates = {}
  StageNames = {"draft", "check", "publish"}
  Policies <- HumanPolicies
  PolicyEdits = FALSE
  Pausable = {quinn}
  MaxRounds = 0
CHECK_DEADLOCK FALSE
INVARIANTS EndsFairly
PROPERTIES ChecksHold ReviewEnds
