SPECIFICATION Spec
CONSTANTS
  PodName = {p1, p2}
  NamesReused = FALSE
  Happenings = {"delete", "memcg"}
  Victims = {p1, p2}
  Paths <- MCPaths
  HostPaths <- MCHostPaths
  ignoreGlobalOOM = FALSE
  annotate = TRUE
  RingSize = 2
  MaxPods = 2
  MaxStarts = 1
  MaxKills = 2
  Nil = Nil
  NoMatch = NoMatch
SYMMETRY Symmetry
INVARIANTS Provenance MarkedOnlyVictims
PROPERTIES HandledInOrder
CHECK_DEADLOCK FALSE
