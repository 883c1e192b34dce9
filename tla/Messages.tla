------------------------------ MODULE Messages ------------------------------
(***************************************************************************)
(* The message kinds of the Node <-> Arwen protocol (ipc/common) and the   *)
(* predicates both message loops branch on.  A kind is the number that     *)
(* iota gives it in the source, because IsHookCall and IsDiagnose are      *)
(* range tests on that number; a request is followed by its response.      *)
(***************************************************************************)
EXTENDS Naturals

Stop                              == 2
ContractDeployRequest             == 3
ContractCallRequest               == 4
ContractResponse                  == 5
GasScheduleChangeRequest          == 6
GasScheduleChangeResponse         == 7
BlockchainNewAddressRequest       == 8
BlockchainGetCompiledCodeRequest  == 56
BlockchainGetCompiledCodeResponse == 57
DiagnoseWaitRequest               == 58
DiagnoseWaitResponse              == 59
VersionRequest                    == 60
VersionResponse                   == 61
BlockchainClearCompiledCodesRequest     == 62
BlockchainGetSnapshotRequest            == 64
BlockchainProcessBuiltInFunctionRequest == 70
UndefinedRequestOrResponse        == 72

MessageKind == Nat     \* uint32; the declared kinds are 0 .. 73

ContractRequest == {ContractDeployRequest, ContractCallRequest}

(* What the driver asks of Arwen, one kind per public operation.           *)
NodeRequest == ContractRequest \cup
    {GasScheduleChangeRequest, DiagnoseWaitRequest, VersionRequest}

(* The hook kinds that have a replier on the Node's side; kind + 1 is the  *)
(* kind of the reply.  Kind 36 (ProcessBuiltinFunction, lower case i) is   *)
(* declared but has neither a sender nor a replier.                        *)
HookRequest ==
    {k \in BlockchainNewAddressRequest .. BlockchainGetCompiledCodeRequest :
        k % 2 = 0 /\ k # 36}
    \cup {k \in BlockchainClearCompiledCodesRequest ..
                BlockchainProcessBuiltInFunctionRequest : k % 2 = 0}

(* messageCreators: the kinds whose Go type the receiver can rebuild.  Any *)
(* other kind arrives as an UndefinedMessage that only keeps the header.   *)
MessageCreators ==
    ContractRequest
    \cup {Stop, ContractResponse, DiagnoseWaitRequest, DiagnoseWaitResponse,
          VersionRequest, VersionResponse}
    \cup HookRequest \cup {k + 1 : k \in HookRequest}

IsHookCall(kind) ==
    /\ kind >= BlockchainNewAddressRequest
    /\ kind <= BlockchainGetCompiledCodeResponse

IsDiagnose(kind) ==
    /\ kind >= DiagnoseWaitRequest
    /\ kind <= DiagnoseWaitResponse

(* The kinds on which the Node's loop returns the message to the driver.   *)
EndsDialogue(kind) ==
    \/ kind \in {VersionResponse, ContractResponse, GasScheduleChangeResponse}
    \/ IsDiagnose(kind)

(* The kind of the message Arwen's repliers build for a request.           *)
ResponseKind(kind) ==
    IF kind \in ContractRequest THEN ContractResponse ELSE kind + 1

=============================================================================
