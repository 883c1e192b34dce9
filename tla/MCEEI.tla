------------------------------- MODULE MCEEI -------------------------------
(***************************************************************************)
(* Instances of EEI for TLC: bytes of two bits, an int64 of two bytes, and  *)
(* contracts that import a few functions each.                              *)
(***************************************************************************)
EXTENDS EEI

PlainKey == Key(NoPrefix, "k", FALSE)
ProtectedKey == Key(ProtectedStoragePrefix, "", FALSE)

MCContractKeys == {PlainKey, NodeKey, ProtectedKey}
MCReadKeys == {PlainKey, NodeKey, ProtectedKey}
MCNumberKeys == {PlainKey}
MCStrings == {NoBytes, ByteString(1, 1), ByteString(3, 5)}
MCShiftBits == {-1, 1, 12}
MCArgumentIds == {-1, 0, 1}
MCContractInts == {-8, -1, 0, 3}
MCLengths == {-1, 0, 1}
MCLockTimes == {-2, 1, 2, 3}

\* All offsets and lengths of an int32 of three bits.
MCInt32 == Signed(8)

Contract(imports, calls, gas, inputs) ==
    [imports |-> imports, calls |-> calls, gas |-> gas, inputs |-> inputs]
SomeInput == {Input(<<ByteString(2, 15)>>, 1, <<>>)}

\* Calls with a payment or without, with an argument or without.
Payments == {Input(<<>>, 0, <<>>), Input(<<ByteString(2, 15)>>, 3, <<>>),
             Input(<<ByteString(3, 33)>>, 0, <<2>>)}

MCContracts ==
    {Contract({"storageStore", "storageLoad", "storageLoadLength"}, 1, 12, SomeInput),
     Contract({"storageStore", "storageLoad", "storageLoadFromAddress", "builtInFunction"},
              2, 4, SomeInput),
     Contract({"storageStore", "setStorageLock", "isStorageLocked", "clearStorageLock",
               "getStorageLock"}, 2, 4, SomeInput),
     Contract({"storageStore", "setStorageLock", "writeLog", "executeReadOnly",
               "delegateExecution", "executeOnDestContextByCaller"}, 1, 5, SomeInput),
     Contract({"bigIntNew", "bigIntAdd", "bigIntSub", "bigIntMul", "bigIntShl", "bigIntNot"},
              1, 5, SomeInput),
     Contract({"bigIntGetUnsignedArgument", "bigIntGetSignedArgument", "bigIntTDiv",
               "bigIntTMod", "bigIntEDiv", "bigIntEMod"}, 1, 6, SomeInput),
     Contract({"bigIntSetInt64", "bigIntAnd", "bigIntOr", "bigIntXor", "bigIntShr",
               "bigIntNeg", "bigIntAbs"}, 1, 4, SomeInput),
     Contract({"bigIntNew", "bigIntSign", "bigIntCmp", "bigIntIsInt64", "bigIntGetInt64",
               "bigIntUnsignedByteLength", "bigIntSignedByteLength", "bigIntGetUnsignedBytes",
               "bigIntGetSignedBytes", "bigIntMul"}, 1, 5, SomeInput),
     Contract({"bigIntNew", "bigIntSetUnsignedBytes", "bigIntSetSignedBytes",
               "bigIntFinishUnsigned", "bigIntFinishSigned", "getNumReturnData",
               "getReturnData", "getReturnDataSize"}, 1, 5, SomeInput),
     Contract({"bigIntNew", "bigIntGetCallValue", "bigIntGetESDTCallValue",
               "bigIntGetExternalBalance", "bigIntGetESDTExternalBalance",
               "getESDTTokenData"}, 1, 4, Payments),
     Contract({"smallIntStorageStoreUnsigned", "smallIntStorageStoreSigned",
               "smallIntStorageLoadUnsigned", "smallIntStorageLoadSigned",
               "int64storageStore", "int64storageLoad", "bigIntStorageStoreUnsigned",
               "bigIntStorageLoadUnsigned"}, 2, 5, SomeInput),
     Contract({"smallIntGetUnsignedArgument", "smallIntGetSignedArgument", "int64getArgument",
               "smallIntFinishUnsigned", "smallIntFinishSigned", "int64finish", "finish",
               "signalError"}, 1, 4, Payments),
     Contract({"sha256", "keccak256", "ripemd160", "verifyBLS", "verifyEd25519",
               "verifySecp256k1", "writeEventLog"}, 1, 4, SomeInput),
     Contract({"getSCAddress", "getOwnerAddress", "getShardOfAddress", "isSmartContract",
               "getExternalBalance", "blockHash", "transferValue", "transferESDT",
               "getArgumentLength", "getArgument", "getFunction", "getNumArguments",
               "getCaller", "checkNoPayment", "callValue", "getESDTValue",
               "getESDTTokenName", "getESDTTokenNonce", "getESDTTokenType",
               "getCallValueTokenName", "getESDTBalance", "getESDTNFTNameLength",
               "getESDTNFTAttributeLength", "getESDTNFTURILength",
               "getCurrentESDTNFTNonce", "getOriginalTxHash", "executeOnDestContextByCaller"},
              1, 4, Payments),
     Contract({"getGasLeft", "getBlockTimestamp", "getBlockNonce", "getBlockRound",
               "getBlockEpoch", "getBlockRandomSeed", "getStateRootHash",
               "getPrevBlockTimestamp", "getPrevBlockNonce", "getPrevBlockRound",
               "getPrevBlockEpoch", "getPrevBlockRandomSeed"}, 2, 3, SomeInput),
     Contract({"memory"}, 1, 0, SomeInput)}
=============================================================================
