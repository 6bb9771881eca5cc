SPECIFICATION Spec
CHECK_DEADLOCK FALSE
CONSTANTS
  ExcType = {"A", "B"}
  Try <- Separate
  None = None
  Gen = {g1}
  MAX_FRAMES = 2
  MaxDepth = 3
  MaxNest = 2
  MaxHandlers = 2
  Uses = {"callbacks", "generators"}
INVARIANTS
  HandlersMatch
  PendingMatches
PROPERTIES
  FinallyRuns
  BoundaryRestored
  Unwinds
