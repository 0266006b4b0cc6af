\* One session in which a post may be repeated: the user changes the page by
\* hand between commands; the second command finds the response cache full.
CONSTANTS
  Window = 2
  MaxRequests = 1
  LateWindow = 1
  Pages = {edit, color}
  MaxSessions = 1
  edit = edit
  color = color
  MaxCommands = 2
  MaxChanges = 2
  MaxRepeats = 1
  Events = {"user"}
SYMMETRY Symmetry
SPECIFICATION Spec
CHECK_DEADLOCK FALSE
PROPERTIES SelectedPageNeverGoesBack ImplementsCommandLog
