SPECIFICATION Spec
CONSTANTS
  Kinds = {"ses"}
  MaxIrqs = 1
INVARIANTS
  KeptSesIsRegistered
CHECK_DEADLOCK FALSE
