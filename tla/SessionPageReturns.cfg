\* One session in which nothing is lost: the user changes the page by hand.
CONSTANTS
  Window = 2
  MaxRequests = 2
  LateWindow = 1
  Pages = {edit, color}
  MaxSessions = 1
  edit = edit
  color = color
  MaxCommands = 1
  MaxChanges = 2
  MaxRepeats = 0
  Events = {"user"}
SYMMETRY Symmetry
SPECIFICATION Spec
CHECK_DEADLOCK FALSE
INVARIANTS PageSettles
