\* The user stops, rejects and lets deadlines pass; stores fail, the code expires.
CONSTANTS
  Mac = Mac
  None = None
  Phone = {p1}
  Invocation = {i1}
  Events = {"stop", "reject", "storage", "expire", "giveUp", "device", "throttle"}
SPECIFICATION Spec
SYMMETRY Symmetry
CHECK_DEADLOCK FALSE
INVARIANTS StopDuringApprovalHolds
PROPERTIES ImplementsJointActivation
