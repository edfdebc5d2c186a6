SPECIFICATION FairSpec
CONSTANTS
  PodName = {p1}
  NamesReused = TRUE
  Happenings = {"owner", "delete", "signal", "memcg"}
  Victims = {p1}
  Paths <- MCOnePath
  HostPaths <- MCHostPaths
  ignoreGlobalOOM = TRUE
  annotate = TRUE
  RingSize = 1
  MaxPods = 1
  MaxStarts = 1
  MaxKills = 2
  Nil = Nil
  NoMatch = NoMatch
PROPERTIES ShutdownCompletes EventResolved
CHECK_DEADLOCK FALSE
