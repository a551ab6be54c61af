SPECIFICATION Spec
CONSTANTS
  s1 = s1  s2 = s2  c1 = c1
  None = None  Stranger = Stranger
  Session = {s1, s2}
  Conn = {c1}
  Origin = {"git", "chat", "mcp"}
  Plain = {"chat"}
  LLM = {"git"}
  Tables <- AllTables
  Request <- AllRequests
  BadSegment = {""}
  Discovery = {"oauth-server"}
  Lower <- LowerCase
  AllowSole = FALSE
  VerifyPeer = TRUE
  MaxRestarts = 1
SYMMETRY Symmetry
CHECK_DEADLOCK FALSE
INVARIANTS SessionsIsolated GovernedNeverLeavesBare ActsOnSelected SelectedIsServed
