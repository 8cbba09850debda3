SPECIFICATION Spec
CONSTANTS
  Threads = 4
  Watches = {}
  Gui = Gui
INVARIANT ApprovedLoginHasToken
CHECK_DEADLOCK FALSE
