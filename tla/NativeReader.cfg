SPECIFICATION Spec
CONSTANTS
  empty = empty
  cut = cut
  whole = whole
  long = long
  bad = bad
  None = None
  Versions <- MCVersions
  Length <- MCLength
  Needs <- MCNeeds
  Malformed <- MCMalformed
  Table <- MCTable
  First = 1
  Largest = 5
  MaxRows = 2
INVARIANTS TypeOK PrefixBounded RefusedForCause WholeTensors
PROPERTIES PrefixGrowsOrEnds OpenSettles
