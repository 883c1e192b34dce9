SPECIFICATION Spec
CONSTANTS
    alice = alice  bob = bob  remote = remote  NoValue = NoValue
    Contracts = {alice, bob}  Remote = {remote}
    Balance <- MCBalance
    CodeCost <- MCCodeCost
    WithCallback = {alice}
    Payable = {alice}
    MaxInstances = 3
    TxGas = {13}
    GasLimits = {4}
    CallValues = {0}
    StorageValues = {v1}
    CallTypes = {"DirectCall", "AsynchronousCall", "AsynchronousCallBack"}
    EEI = {"asyncCall", "asyncBuiltIn", "builtInFunction"}
    ApiCost = 1
    EsdtCost = 1
    AsyncCallStep = 1
    AsyncCallbackGasLock = 1
    MaxBigInts = 1
    MaxTransactions = 1
    Users = {}
INVARIANTS GasConserved
PROPERTIES FailureRollsBack GasNeverMinted
