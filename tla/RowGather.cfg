SPECIFICATION Spec
CONSTANTS
  Word = 32
  U32 = 8
  Tensors <- MCTensors
  Gathered <- MCGathered
  Rows = {0, 1, 2, 3, 7}
  Index = {0, 1, 10}
  MaxRows = 2
  MaxWritten = 4
  None = None
INVARIANTS TypeOK RowsInsideTensor RowsAbut RowsDecode NativeAgrees RowsAreThoseNamed OnlyRowsOfTensor ReadsBounded
PROPERTY GatherSettles
CHECK_DEADLOCK FALSE
