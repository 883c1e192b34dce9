SPECIFICATION FairSpec
CONSTANTS
    Clients = {c1, c2}
    NoClient = NoClient
    MaxLoopTime = 2
    NonceModulus = 4
    HookKinds <- AllHooks
    StartFailures = {"path", "exec", "args", "logs"}
    MaxOps = 2
    MaxHooks = 1
    MaxFaults = 1
PROPERTIES OperationReturnsOrReadsForever
CHECK_DEADLOCK FALSE
