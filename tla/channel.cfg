SPECIFICATION FairSpec
CONSTANTS
  Thread = {t1, t2, t3}
  NoThread = NoThread
  Capacities <- MCCapacities
  MaxCalls = 2
  None = None
  Sent = Sent
  Refused = Refused
  End = End
INVARIANTS EndIsFinal
PROPERTIES CloseEndsRecv NobodyStranded Implements
CHECK_DEADLOCK FALSE
