CONSTANTS
  Cases = {"unread"}
SPECIFICATION Spec
CHECK_DEADLOCK FALSE
INVARIANT UnreadForgetsNothing
