SPECIFICATION Spec
CONSTANTS
  None = None
  Tags = {0, 1, 2, 3, 4, 5, 6, 7, 8, 9, 10, 11, 12, 13, 14, 15, 16, 17, 18, 19, 20, 21, 22, 23, 24, 25, 26, 27, 28, 29, 30, 31, 32, 33, 34, 35, 36}
  Names <- MCNames
  Elements = {0, 8, 32, 64, 256, 512}
  Slack = 1
INVARIANTS AsLaidOut EveryBitOnce ReadableDecodes
CHECK_DEADLOCK FALSE
