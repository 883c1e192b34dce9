SPECIFICATION DeploymentSpec
CHECK_DEADLOCK FALSE
CONSTANTS
  ProtocolBuiltinFunctions = {"ESDTTransfer"}
  ScAPINames = {"getCaller"}
  IsESDTFunctionsEnabled = TRUE
  Codes <- MCCodes
  WasmModule <- MCWasmModule
  User = "u"
  Creators = {"u", "a"}
  NewAddressOf <- MCNewAddressOf
  Genesis <- MCGenesis
  Owner <- MCOwner
  AotModes = {TRUE, FALSE}
  MaxFrames = 4
  MaxTxs = 3
  MaxOperations = 3
PROPERTY NoDeploymentOverExisting
