SPECIFICATION Spec
CHECK_DEADLOCK FALSE
CONSTANTS
  ExcType = {"A"}
  Try <- Mixed
  None = None
  Gen = {g1}
  MAX_FRAMES = 2
  MaxDepth = 3
  MaxNest = 1
  MaxHandlers = 2
  Uses = {"callbacks", "generators", "jit", "break", "try_in_cleanup", "yield_in_try", "return_in_finally_try"}
INVARIANTS
  ObjectNeverWrong
PROPERTIES
  DriverNotSkipped
