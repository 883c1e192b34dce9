SPECIFICATION GatewaySpec
CHECK_DEADLOCK FALSE
CONSTANTS
  NonceModulus = 16
  ChainNonces = {0, 3}
  Offsets = {"k", "l"}
  MaxOperations = 3
  MaxFailures = 2
  MaxErrors = 1
INVARIANTS AcceptedIsGenuine NoncesCounted OutputArrives
