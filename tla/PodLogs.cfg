SPECIFICATION Spec
CONSTANTS
  MaxLog = 5
  TailLines = 3
  MaxColumn = 3
INVARIANTS
  TypeOK
  CsvShownFromColumn
  NoLineLost
PROPERTY RereadExtends
\* The program may have crashed with the log full.
CHECK_DEADLOCK FALSE
