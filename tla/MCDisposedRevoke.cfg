CONSTANTS
  Cases = {"readable"}
SPECIFICATION Spec
CHECK_DEADLOCK FALSE
INVARIANT RevokesCarryProof
