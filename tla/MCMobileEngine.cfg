CONSTANTS
  Cases = {"unbound", "revoking", "keyed"}
SPECIFICATION Spec
CHECK_DEADLOCK FALSE
INVARIANTS StoredIsUsable SignOutHolds NothingForgotten
PROPERTIES NeverOlder
