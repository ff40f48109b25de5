SPECIFICATION Spec
CONSTANTS
  align = align
  other = other
  t1 = t1
  t2 = t2
  Together = 2
  Prefixes <- MCPrefixes
  Word = 256
  Keys = {align, other}
  AlignmentKey = align
  Names = {t1, t2}
  Counts = {0, 1, 2, 3}
  Lengths = {0, 3, 5}
  Extents = {0, 1, 3, 20}
  Offsets = {0, 120, 254}
  Alignments = {0, 3, 8}
  Dtypes <- MCDtypes
  MaxEntries = 2
  MaxTensors = 2
  MaxArray = 2
  MaxString = 4
  MaxDims = 2
  MaxElements = 60
  DefaultAlignment = 32
INVARIANTS TypeOK PrefixLaw ShortIsShort ReservationsBacked TensorRangesExact
CONSTRAINT BoundedHeader
CHECK_DEADLOCK FALSE
