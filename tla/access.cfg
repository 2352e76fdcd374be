SPECIFICATION Spec

CONSTANTS
  Request = {r1, r2}
  k1 = k1
  Key = {k1}
  Permissions <- MCPermissions
  Route = {"getStats", "getTask", "postTask"}
  Command = {"modal", "cancel", "retry button"}
  Setup <- MCSetup
  hasKeysCacheTTL = 2
  MaxWait = 1

SYMMETRY RequestSymmetry

INVARIANTS
  AccessInv

PROPERTIES
  ActedForCause
  TurnedAwayForCause
