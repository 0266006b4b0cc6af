\* A Mac and a phone: sockets, invocations, devices and the database fail.
CONSTANTS
  Mac = Mac
  None = None
  Phone = {p1}
  Invocation = {i1, i2}
  Events = {"network", "lambda", "quota", "storeError", "reset"}
SPECIFICATION Spec
SYMMETRY Symmetry
CHECK_DEADLOCK FALSE
INVARIANTS TypeOK ActivatedSidesHoldCredentials
PROPERTIES PairIsDecidedOnce ImplementsJointActivation
