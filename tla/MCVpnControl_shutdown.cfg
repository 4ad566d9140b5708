SPECIFICATION Spec
CONSTANTS
  Relay = {r1}
  Host = {api, h}
  Api = api
  Proc = {"main", "switch"}
  None = None
  MaxCalls = 4
CHECK_DEADLOCK FALSE
PROPERTIES
  ShutdownDeregisters
