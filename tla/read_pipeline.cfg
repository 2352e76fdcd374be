SPECIFICATION Spec

CONSTANTS
  NumTasks = 2
  Url = {u1, u2}
  MaxUserRetries = 1
  MaxRequests = 1
  MaxCrashes = 1
  MaxFaults = 1

CONSTRAINT TwoTroubles

SYMMETRY UrlSymmetry

\* The system may stop: every task has ended and no retry is left.
CHECK_DEADLOCK FALSE


  
  

PROPERTIES
  LaunchedOnlyIfNew
  SummaryKept
