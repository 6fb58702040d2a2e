CONSTANTS
  Catalog = {"mail", "read"}
  Gated = {"mail"}
  ResultSize = 2
  MaxBytes = 7
  TriggerTokens = 6
  KeepRecent = 1
  BudgetLimit = 3
  SpendThreshold = 1
  AnswerCost = 1
  MaxSteps = 3
  LoopThreshold = 3
  MaxLoaded = 1
  MaxAsks = 4
  MaxFaults = 1
  Tools = {"read"}
  Configs = {"pipe", "web"}
  Kind <- Kinds
  Grants = {{"read"}, {}}
  TTL = 1
  MaxPages = 2
  MaxAttempts = 2
  Starts <- OverAPipe
  MaxTime = 2
  MaxEdits = 1
  MaxChanges = 1
  MaxMishaps = 2
  MaxTurns = 1
  MaxCalls = 2
  Providers = {"p", "q"}
  Settings <- WithAFallback
  Calls = {"c1", "c2"}
  MaxTries = 2
  Threshold = 2
  Window = 1
  Cooldown = 1
  TrialCalls = 1
  MaxInstant = 2
SPECIFICATION OutsideSpec
CHECK_DEADLOCK FALSE
INVARIANTS RunsHold
PROPERTIES CallsHold ToolsHold NothingHangs
