SPECIFICATION NodeFairSpec
CONSTANTS
  PodName = {p1, p2}
  NamesReused = TRUE
  Happenings = {"delete"}
  Victims = {p1}
  Paths <- MCOnePath
  HostPaths = {}
  ignoreGlobalOOM = FALSE
  annotate = TRUE
  RingSize = 1
  MaxPods = 2
  MaxStarts = 1
  MaxKills = 1
  MaxLives = 2
  Nil = Nil
  NoMatch = NoMatch
INVARIANTS MarkedNameOfVictim WarmCache
PROPERTIES NotStranded
CHECK_DEADLOCK FALSE
