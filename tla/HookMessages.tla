---------------------------- MODULE HookMessages ----------------------------
(***************************************************************************)
(* The calls of the Node's blockchain hook as messages                     *)
(* (ipc/common/messagesBlockchain.go): a request and, with the next kind,  *)
(* its response.  What matters of a message is its kind and whether its    *)
(* response has room for the error of the hook.                            *)
(***************************************************************************)
EXTENDS Messages

\* Look-ups that may fail: NewAddress, GetStorageData, GetBlockhash.
LookupMessages == {BlockchainNewAddressRequest, 10, 12}

\* LastNonce, LastRound, LastTimeStamp, LastRandomSeed, LastEpoch.
LastBlockMessages == {14, 16, 18, 20, 22}

\* GetStateRootHash; CurrentNonce, CurrentRound, CurrentTimeStamp,
\* CurrentRandomSeed, CurrentEpoch.
GetStateRootHash == 24
CurrentBlockMessages == {26, 28, 30, 32, 34}

ProcessBuiltInFunction == BlockchainProcessBuiltInFunctionRequest
GetBuiltinFunctionNames == 40

GetAllState == 42
GetUserAccount == 44
StateMessages == {GetAllState, GetUserAccount}

GetCode == 46
GetShardOfAddress == 48
IsSmartContract == 52
AddressMessages == {GetCode, GetShardOfAddress, IsSmartContract}
IsPayable == 50

\* SaveCompiledCode, GetCompiledCode, ClearCompiledCodes.
CompiledCodeMessages ==
    {54, BlockchainGetCompiledCodeRequest, BlockchainClearCompiledCodesRequest}

GetESDTToken == 38
IsInterfaceNil == 66
GetSnapshot == BlockchainGetSnapshotRequest
RevertToSnapshot == 68

GetBlockhash == 12
NewAddress == BlockchainNewAddressRequest

\* The responses that carry an error (their constructor calls SetError).
CarriesError ==
    LookupMessages \cup StateMessages
    \cup {ProcessBuiltInFunction, IsPayable, GetESDTToken, RevertToSnapshot}

HookMessageKinds ==
    CarriesError \cup LastBlockMessages \cup CurrentBlockMessages
    \cup AddressMessages \cup CompiledCodeMessages
    \cup {GetStateRootHash, GetBuiltinFunctionNames, IsInterfaceNil, GetSnapshot}

\* Every request has a replier, and the receiver of a request or a response can
\* rebuild its Go type (CreateMessage).
ASSUME HooksHaveRepliers == HookMessageKinds = HookRequest
ASSUME HooksCanBeCreated ==
    \A k \in HookMessageKinds : {k, k + 1} \subseteq MessageCreators
=============================================================================
