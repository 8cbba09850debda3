SPECIFICATION Spec
CONSTANTS
  Threads = 4
  Watches = {w1, w2}
  Gui = Gui
INVARIANTS
  TypeOK
  OnlyPollsFreeze
  GuiAloneNeverFreezes
  LoginsReleaseThreads
PROPERTY LoginEnds
\* Logins that wait for each other for ever are a behaviour of the program.
CHECK_DEADLOCK FALSE
