\* A Mac that loses its socket after its commit resets on a 401.
CONSTANTS
  Mac = Mac
  None = None
  Phone = {p1}
  Invocation = {i1, i2}
  Events = {"network", "forget"}
SPECIFICATION Spec
CHECK_DEADLOCK FALSE
INVARIANTS ForgottenLeavesNoLink
