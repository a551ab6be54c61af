SPECIFICATION FairSpec
CONSTANTS
  f1 = f1  f2 = f2  f3 = f3
  None = None
  Appender = {f1, f2, f3}
  Managed = {f1, f2}
  Payload = {}
  Long = {}
CHECK_DEADLOCK FALSE
INVARIANTS InjectedIsOnRecord HashChained AckedIsDurable
PROPERTIES GateSpec EveryFlowAnswered
