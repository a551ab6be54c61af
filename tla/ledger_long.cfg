SPECIFICATION LedgerSpec
CONSTANTS
  a1 = a1  a2 = a2  a3 = a3  a4 = a4  p1 = p1  p2 = p2
  None = None
  Appender = {a1, a2}
  Payload = {p1, p2}
  Long = {p2}
CHECK_DEADLOCK FALSE
SYMMETRY AppenderSymmetry
INVARIANTS LedgerReopens
