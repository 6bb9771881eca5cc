SPECIFICATION Spec
CONSTANTS
  Names <- MCNames
  Digits <- MCDigits
  Strings <- MCStrings
  Programs <- MCPrograms
  Inds <- MCInds
  MaxEdits <- MCMaxEdits
INVARIANTS
  SameTree
  OverIndentRejected
CHECK_DEADLOCK FALSE
