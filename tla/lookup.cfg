SPECIFICATION Spec
CONSTANTS
  Names <- MCNames
  Pods <- MCPods
  MaxListed = 2
  Nil = Nil
  NoMatch = NoMatch
INVARIANTS LoopIsIdentify
CHECK_DEADLOCK FALSE
