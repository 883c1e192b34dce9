--------------------------- MODULE CodeValidator ---------------------------
(***************************************************************************)
(* What is required of the code of a contract before it is deployed        *)
(* (contexts/validator.go, reservedFunctions.go and VerifyContractCode of  *)
(* runtime.go).  A compiled module is                                      *)
(*   [memory |-> BOOLEAN, exports |-> a set of functions, imports |-> ...] *)
(* where a function has a name, [text, length, ascii], and the numbers of  *)
(* its arguments and results, noArity when it has no signature.            *)
(***************************************************************************)
EXTENDS Integers

CONSTANTS ProtocolBuiltinFunctions, ScAPINames,
          IsESDTFunctionsEnabled

noArity == -1
maxLengthOfFunctionName == 256
UpgradeFunctionName == "upgradeContract"

FunctionNamesReserved ==
    ProtocolBuiltinFunctions \cup ScAPINames \cup {UpgradeFunctionName}

IsReserved(text) == text \in FunctionNamesReserved

verifyMemoryDeclaration(module) == module.memory

verifyValidFunctionName(name) ==
    /\ name.length > 0 /\ name.length < maxLengthOfFunctionName
    /\ name.ascii
    /\ ~IsReserved(name.text)

verifyVoidFunction(f) == f.inArity = 0 /\ f.outArity = 0

verifyFunctions(module) ==
    \A f \in module.exports : verifyValidFunctionName(f.name) /\ verifyVoidFunction(f)

(* Functions of the EEI that contracts may not import before the epoch that *)
(* enables them.                                                            *)
ESDTImports ==
    {"transferESDTExecute", "transferESDTNFTExecute", "transferValueExecute",
     "getESDTBalance", "getESDTTokenData", "getESDTTokenType",
     "getESDTTokenNonce", "getCurrentESDTNFTNonce", "getESDTNFTNameLength",
     "getESDTNFTAttributeLength", "getESDTNFTURILength",
     "bigIntGetESDTExternalBalance"}

checkBackwardCompatibility(module) ==
    IsESDTFunctionsEnabled \/ module.imports \cap ESDTImports = {}

IsValid(module) ==
    /\ verifyMemoryDeclaration(module)
    /\ verifyFunctions(module)
    /\ checkBackwardCompatibility(module)
=============================================================================
