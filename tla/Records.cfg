CONSTANTS
  Requests = {r1, r2}
  Editors = {r1, r2}
  Rooms = {1, 2, 3}
  Staff = {1, 2}
  Connectors = {1}
  Names = {"a", "b", "c"}
  MaxEdits = 4
  w1 = w1
  w2 = w2
  Words = {w1, w2}
  NoWords = NoWords
  NoVoice = NoVoice
  MaxAsked = 4
  MaxProposals = 1
  MaxHeard = 1
  MaxStops = 1
  Records = {"dept", "emp"}
  c1 = c1
  Contents = {c1}
  Absent = Absent
  NotRead = NotRead
  NoTx = NoTx
  Clients = {"canvas"}
  MaxVersion = 4
  MaxOutside = 1
  Callers = {r1, r2}
  Services = {1, 2}
  Made = {1}
  MaxCalls = 3
  MaxFaults = 1
SYMMETRY Symmetry
SPECIFICATION RecordsSpec
CHECK_DEADLOCK FALSE
INVARIANTS KeysFit OfficeStands
PROPERTIES WordIsKept StoresHold
