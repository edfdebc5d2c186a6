SPECIFICATION Spec
CONSTANTS
  PodName = {p1}
  NamesReused = TRUE
  Happenings = {"delete", "memcg"}
  Victims = {p1}
  Paths <- MCOnePath
  HostPaths <- MCHostPaths
  ignoreGlobalOOM = FALSE
  annotate = TRUE
  RingSize = 1
  MaxPods = 2
  MaxStarts = 1
  MaxKills = 1
  Nil = Nil
  NoMatch = NoMatch
INVARIANTS MarkedOnlyVictims
CHECK_DEADLOCK FALSE
