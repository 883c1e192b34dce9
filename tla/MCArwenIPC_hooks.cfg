SPECIFICATION Spec
CONSTANTS
    Clients = {c1}
    NoClient = NoClient
    MaxLoopTime = 2
    NonceModulus = 4
    HookKinds <- AllHooks
    StartFailures = {"path", "exec", "args", "logs"}
    MaxOps = 1
    MaxHooks = 1
    MaxFaults = 0
INVARIANTS HookCallsAnswered
CHECK_DEADLOCK FALSE
