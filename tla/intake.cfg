SPECIFICATION Spec

CONSTANTS
  Task = {t1}
  Environment <- MCEnvironment

INVARIANTS
  IntakeInv
  ReadsEquipped
  RefusedForCause
  AskedIsGiven
