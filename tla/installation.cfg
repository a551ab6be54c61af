SPECIFICATION Spec
CONSTANTS
  hu = hu  hk = hk  dk = dk  du = du  ca = ca  mine = mine
  s1 = s1  su = su  u1 = u1  p1 = p1
  Handler = {hk, hu}
  KeydrisHandler = {hk}
  Port = {p1}
  Domain = {dk, du}
  EnvKey = {"NODE_EXTRA_CA_CERTS", "EDITOR"}
  CAEnvKeys = {"NODE_EXTRA_CA_CERTS"}
  Path = {ca, mine}
  Server = {s1, su}
  Url = {u1}
  MacOS = FALSE
  None = None
  Torn = Torn
  Integrations = {"claude-code", "codex", "claude-desktop", "codex-desktop"}
  Opt <- MCOpt
  Policies <- MCPolicies
  UserSettings <- MCUserSettings
  UserServer <- MCUserServer
  LegacyHooks <- MCLegacy
  MaxRuns = 3
  MaxCrossed = 1
  MaxKills = 1
INVARIANTS InitIsWhole SharedSetup RemovedIsGone ServedIsTrusted TrustedIsKnown PinOwned UserKept
CHECK_DEADLOCK FALSE
