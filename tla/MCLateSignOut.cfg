CONSTANTS
  Cases = {"late"}
SPECIFICATION Spec
CHECK_DEADLOCK FALSE
INVARIANT StoredSignOutStays
