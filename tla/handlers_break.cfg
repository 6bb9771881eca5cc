SPECIFICATION Spec
CHECK_DEADLOCK FALSE
CONSTANTS
  ExcType = {"A"}
  Try <- Separate
  None = None
  Gen = {}
  MAX_FRAMES = 1
  MaxDepth = 1
  MaxNest = 2
  MaxHandlers = 6
  Uses = {"break"}
INVARIANTS
  HandlersMatch
