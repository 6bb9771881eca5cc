SPECIFICATION Spec
CHECK_DEADLOCK FALSE
CONSTANTS
  Thread = {t1}
  Addr = {a1, a2, a3}
  DictTable = DictTable
  NoThread = NoThread
  NoObj = NoObj
  Threshold = 1
  AllocKinds = {"refs", "leaf"}
  RoomCap = 4
SYMMETRY Symmetry
INVARIANTS
  NoDangling
PROPERTIES
  SweepSound
  SweepComplete
