SPECIFICATION Spec
CONSTANTS
  MaxLen = 5
  Ports = {"8080", "9090"}
  Versions <- MCVersions
  ExtraArgs <- MCExtraArgs
INVARIANTS ParsesAsDocumented AnnotatesAsConfigured ObservesAsAsked DeclaredPortServed SplitsVersion
CHECK_DEADLOCK FALSE
