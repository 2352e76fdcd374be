SPECIFICATION FairSpec

CONSTANTS
  NumTasks = 1
  NumInstances = 1
  MaxUserRetries = 0
  Mode = "fargate"
  MaxInstances = 1
  ContainersPerInst = 1
  ReadTasks = {}
  Requests = {r1}
  Ops = {"retry"}
  Glitches = FALSE
  MaxCrashes = 0
  MaxFaults = 1
  MaxStoreFaults = 0

PROPERTIES
  PendingIsDispatched
