SPECIFICATION RouterSpec
CONSTANTS
  Servers = {srv1}
  Setups = {g1}
  Ports = {"memory"}
  None = None
INVARIANT RegisteredServiceRefused
CHECK_DEADLOCK FALSE
