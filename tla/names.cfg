SPECIFICATION Spec
CONSTANTS
  Size = 3
  Memory = {0, 97, 255}
  Names <- MCNames
  NULL = NULL
INVARIANTS NameArrives
CHECK_DEADLOCK FALSE
