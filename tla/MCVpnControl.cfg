SPECIFICATION Spec
CONSTANTS
  Relay = {r1}
  Host = {api}
  Api = api
  Proc = {"main", "switch"}
  None = None
  MaxCalls = 4
CHECK_DEADLOCK FALSE
INVARIANTS
  TypeOK
  KillSwitchFirst
  FlagFollowsTunnel
  BypassesAgree
PROPERTIES
  GateShutsWithoutTunnel
  GateReopens
  SwitchTerminates
