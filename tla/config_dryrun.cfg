SPECIFICATION Spec
CONSTANTS
  MaxLen = 1
  Ports = {"8080", "9090"}
  Versions = {}
  ExtraArgs <- MCExtraArgs
INVARIANTS DryRunOnlyReports
CHECK_DEADLOCK FALSE
