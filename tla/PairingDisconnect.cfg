\* A socket that is lost while its join is under way.
CONSTANTS
  Mac = Mac
  None = None
  Phone = {p1}
  Invocation = {i1, i2}
  Events = {"network"}
SPECIFICATION Spec
CHECK_DEADLOCK FALSE
INVARIANTS DisconnectCancels
