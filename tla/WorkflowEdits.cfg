SPECIFICATION Spec
CONSTANTS
  ann = ann  bob = bob  sue = sue  quinn = quinn  lee = lee
  eng = eng  qa = qa  legal = legal
  Nobody = Nobody
  NoStage = NoStage
  Employees <- MCEmployees
  Departments <- MCDepartments
  Home = eng
  DepartmentOf <- MCDepartmentOf
  SupervisorOf <- MCSupervisorOf
  Checkers <- OneChecker
  Criteria = {}
  DefinitionOfDone = {}
  Gates = {"spend"}
  TaskGates = {"spend"}
  StageNames = {"draft", "check", "publish"}
  Policies <- EveryPolicy
  PolicyEdits = TRUE
  Pausable = {}
  MaxRounds = 1
CHECK_DEADLOCK FALSE
INVARIANTS Resting NoSelfReview ApprovalsAreCurrent
PROPERTIES FinishedIsFinal
