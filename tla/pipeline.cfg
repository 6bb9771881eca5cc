SPECIFICATION Spec
CONSTANTS
  Half <- MCHalf
  Scale = 4
  MaxFrames = 6
  Source <- MCSource
INVARIANTS
  OperandsFit
  SameOutcome
