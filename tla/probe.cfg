SPECIFICATION FairSpec
CONSTANTS
  CPU = {c1, c2}
  Nodes <- MCNodes
  Calls <- MCCalls
  Capacity = 2
  MaxKills = 3
  NULL = NULL
  Aborted = Aborted
  NoName = NoName
  Junk = Junk
INVARIANTS TypeOK ReadsWhatHappened
PROPERTIES IsEventQueue AllRead
CHECK_DEADLOCK FALSE
