SPECIFICATION Spec

CONSTANTS
  NumTasks = 2
  NumInstances = 1
  MaxUserRetries = 1
  Mode = "local"
  MaxInstances = 1
  ContainersPerInst = 1
  ReadTasks = {}
  Requests = {r1}
  Ops = {"cancel", "delete", "retry"}
  Glitches = FALSE
  MaxCrashes = 0
  MaxFaults = 0
  MaxStoreFaults = 0

INVARIANTS
  IInv

PROPERTIES
  OldestFirstDispatch
  RetriesWithinBudget
