SPECIFICATION FairSpec

CONSTANTS
  Host = {1, 2, 3}
  MaxInstances = 1
  ContainersPerInst = 1
  MaxFaults = 2

INVARIANTS
  ScalerInv
  HostsAccounted

PROPERTIES
  TaskServed
  IdleTerminated
