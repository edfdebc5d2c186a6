SPECIFICATION Spec
CONSTANTS
  PodName = {p1}
  NamesReused = FALSE
  Happenings = {"owner", "end", "delete", "signal", "memcg"}
  Victims = {p1}
  Paths <- MCPaths
  HostPaths <- MCHostPaths
  ignoreGlobalOOM = FALSE
  annotate = TRUE
  RingSize = 1
  MaxPods = 1
  MaxStarts = 2
  MaxKills = 2
  Nil = Nil
  NoMatch = NoMatch
INVARIANTS TypeOK Accounting NoSilentMark ReturnsOnlyOnSignal
PROPERTIES UnmatchedIsUnlisted OwnersValueKept
CHECK_DEADLOCK FALSE
