SPECIFICATION Spec
CONSTANTS
  Cmd = {c1, c2}
  Daemon = {d1, d2}
  Caller = {h1}
  Planes = {"sandbox", "transparent"}
  MaxRuns = 2
  MaxKills = 1
  None = None
  Torn = Torn
INVARIANTS Recorded OneDaemon SecretAgrees HostRestored
PROPERTIES ResetLeavesNothing AskedEnds
CHECK_DEADLOCK FALSE
