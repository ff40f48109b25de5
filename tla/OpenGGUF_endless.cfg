SPECIFICATION OpenSpec
CONSTANTS
  v1 = v1
  v2 = v2
  v3 = v3
  e1 = e1
  w = w
  d1 = d1
  d2 = d2
  d3 = d3
  None = None
  StrongTags = {e1}
  WeakTags = {w}
  Dates = {d1, d2, d3}
  Versions <- MCVersions
  Length <- MCLength
  Reads <- MCReads
  Callers = {m1}
  ETag <- MCETag
  Modified <- MCModified
  AllowUnvalidated = FALSE
  ProbeWays <- ShowsBoth
  ReadWays <- ShowsBoth
  Faults = {}
  OneOpenAtATime = TRUE
  First = 1
  Largest = 6
  Needs <- TooLong
  Malformed <- MCMalformed
  Table <- MCTable
  HasPredicate = TRUE
PROPERTY OpenSettles
