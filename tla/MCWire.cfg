SPECIFICATION Spec
CONSTANTS
  Statements <- MCStatements
  Times <- MCTimes
  Rows <- MCRows
  MaxRows = 2
  MaxAccesses = 2
  Strange <- MCStrange
  Heading <- MCHeading
  COLUMN_WIDTH = 4
  printRowLimit = 1
INVARIANTS
  TypeOK
  RequestArrives
  RowsArrive
  SizeIsRight
  ConcatenationMerges
  TablesAreWhole
