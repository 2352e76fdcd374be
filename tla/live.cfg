SPECIFICATION FairSpec

CONSTANTS
  NumTasks = 2
  NumInstances = 1
  MaxUserRetries = 0
  Mode = "fargate"
  MaxInstances = 1
  ContainersPerInst = 1
  ReadTasks = {}
  Requests = {r1}
  Ops = {"cancel"}
  Glitches = FALSE
  MaxCrashes = 1
  MaxFaults = 1
  MaxStoreFaults = 0

INVARIANTS
  SlotsAccounted

PROPERTIES
  EndedIsRetryable
  CancelledIsStopped
  EveryTaskEnds
