SPECIFICATION FairSpec
CONSTANTS
  start1 = start1  start2 = start2  end1 = end1  end2 = end2  run1 = run1
  sid1 = sid1  sid2 = sid2  k1 = k1  k2 = k2  k3 = k3
  None = None
  Starter = {}
  Ender = {}
  Runner = {run1}
  Sid = {sid1, sid2}
  SidOf <- HookSids
  Kit = {k1,k2,k3}
  FaultSets <- WrapperFaults
  SerialHooks = TRUE
  Prompt = TRUE
INVARIANTS DurableCoversRegistry
PROPERTIES EndedDies ExitedOwnerIsRetired
