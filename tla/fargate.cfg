SPECIFICATION Spec

CONSTRAINT TwoTroubles

CONSTANTS
  NumTasks = 2
  NumInstances = 1
  MaxUserRetries = 1
  Mode = "fargate"
  MaxInstances = 1
  ContainersPerInst = 2
  ReadTasks = {2}
  Requests = {r1}
  Ops = {"retry"}
  Glitches = TRUE
  MaxCrashes = 1
  MaxFaults = 1
  MaxStoreFaults = 1

INVARIANTS
  SlotsAccounted
  RelaunchesHaveACause
