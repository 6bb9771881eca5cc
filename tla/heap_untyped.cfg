SPECIFICATION Spec
CHECK_DEADLOCK FALSE
CONSTANTS
  Thread = {t1}
  Addr = {a1, a2}
  DictTable = DictTable
  NoThread = NoThread
  NoObj = NoObj
  Threshold = 1
  AllocKinds = {"refs", "untyped"}
  RoomCap = 2
SYMMETRY Symmetry
INVARIANTS
  TuplesAreScanned
