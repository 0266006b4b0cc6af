\* Two phones scan the code; the user stops, quota and stores refuse, and a Mac
\* resets on a 401.
CONSTANTS
  Mac = Mac
  None = None
  Phone = {p1, p2}
  Invocation = {i1, i2}
  Events = {"quota", "storage", "forget"}
SPECIFICATION Spec
SYMMETRY Symmetry
CHECK_DEADLOCK FALSE
INVARIANTS ActiveMeansActivated
PROPERTIES PairIsDecidedOnce
