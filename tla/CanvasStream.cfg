SPECIFICATION FairSpec
CONSTANTS
  dept = dept
  arrow = arrow
  Records = {dept, arrow}
  Listed = {arrow}
  Restored = {dept}
  HistoryLimit = 1
  Courses <- MCCourses
CHECK_DEADLOCK FALSE
INVARIANTS ShowsTheOffice
PROPERTIES SavesKnewOfIt EventuallyTold
