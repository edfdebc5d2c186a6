SPECIFICATION Spec
CONSTANTS
  PodName = {p1}
  NamesReused = FALSE
  Happenings = {"memcg"}
  Victims = {p1}
  Paths <- MCOnePath
  HostPaths <- MCHostPaths
  ignoreGlobalOOM = FALSE
  annotate = TRUE
  RingSize = 1
  MaxPods = 1
  MaxStarts = 1
  MaxKills = 2
  Nil = Nil
  NoMatch = NoMatch
INVARIANTS MarkedCountsPods
CHECK_DEADLOCK FALSE
