SPECIFICATION Spec
CHECK_DEADLOCK FALSE
CONSTANTS
  None = None
  Words <- MCWords
  Comma = Comma
  Quote = Quote
  LF = LF
  CR = CR
  Numbers <- MCNumbers
  Starts <- MCStarts
  Companions <- MCCompanions
  MaxCalls = 2
  MaxRows = 6
INVARIANTS
  WellFormed
  NullsOpaque
  RowsKeepTogether
  MergeIsJoin
  RoundTrips
  WindowsAgree
  RowsPartition
  SumsConserve
