SPECIFICATION Spec
CONSTANTS
    Clients = {c1, c2}
    NoClient = NoClient
    MaxLoopTime = 2
    NonceModulus = 4
    HookKinds <- AllHooks
    StartFailures = {"path", "exec", "args", "logs"}
    MaxOps = 3
    MaxHooks = 1
    MaxFaults = 2
INVARIANTS TypeOK OwnResponse NonceSafetyNet NoLeftovers DialogueInv
PROPERTIES ResponseUsesSchedule ImplementsService
CHECK_DEADLOCK FALSE
