SPECIFICATION Spec

CONSTANTS
  NumTasks = 2
  NumInstances = 2
  MaxUserRetries = 1
  Mode = "ec2"
  MaxInstances = 1
  ContainersPerInst = 1
  ReadTasks = {}
  Requests = {r1}
  Ops = {"retry"}
  Glitches = FALSE
  MaxCrashes = 1
  MaxFaults = 1
  MaxStoreFaults = 0

INVARIANTS
  InstancesWithinLimit
  InstanceSlotsCovered
  OneAgentPerTask

PROPERTIES
  DispatchWithinLimit
  BusyHostKept
  FollowsLifecycle
