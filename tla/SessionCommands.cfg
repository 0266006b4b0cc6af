\* Two sessions, two commands; connections are lost, commands expire.
CONSTANTS
  Window = 2
  MaxRequests = 2
  LateWindow = 1
  Pages = {edit, color}
  MaxSessions = 2
  edit = edit
  color = color
  MaxCommands = 2
  MaxChanges = 0
  MaxRepeats = 0
  Events = {"expire", "cut"}
SYMMETRY Symmetry
SPECIFICATION Spec
CHECK_DEADLOCK FALSE
INVARIANTS TypeOK
PROPERTIES ImplementsCommandLog
