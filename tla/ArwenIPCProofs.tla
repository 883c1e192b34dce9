--------------------------- MODULE ArwenIPCProofs ---------------------------
(***************************************************************************)
(* Proofs about ArwenIPC for any number of clients, any bounds, any nonce  *)
(* width and any set of hook calls.                                        *)
(***************************************************************************)
EXTENDS ArwenIPC, SequenceTheorems, TLAPS

-----------------------------------------------------------------------------
(* Facts about the operators.                                              *)

(* The dialogue nonce stays a number of the messenger's width.             *)
LEMMA IncType == \A n \in Nonces : Inc(n) \in Nonces
  BY IPCAssumption DEF Nonces, Inc

(* A dialogue starts from nonce 0, and its first message has a nonce too. *)
LEMMA ZeroNonce == 0 \in Nonces /\ Inc(0) \in Nonces
  BY IPCAssumption DEF Nonces, Inc

(* Every message of a driver's dialogue has a kind that the loops know.    *)
LEMMA KindFacts ==
    /\ NodeRequest \subseteq MessageKind
    /\ HookRequest \subseteq MessageKind
    /\ \A k \in HookRequest : k + 1 \in MessageKind /\ ~EndsDialogue(k)
    /\ \A k \in NodeRequest : /\ ResponseKind(k) \in MessageKind
                              /\ EndsDialogue(ResponseKind(k))
                              /\ ~IsHookCall(ResponseKind(k))
                              /\ k # Stop
    /\ \A k \in MessageKind : ~(IsHookCall(k) /\ EndsDialogue(k))
    /\ 0 \in MessageKind /\ Stop \in MessageKind
    /\ VersionRequest \in NodeRequest
    /\ UndefinedRequestOrResponse \in MessageKind
  BY DEF NodeRequest, HookRequest, ContractRequest, MessageKind, EndsDialogue,
         ResponseKind, IsDiagnose, IsHookCall, Stop, ContractDeployRequest,
         ContractCallRequest, ContractResponse, GasScheduleChangeRequest,
         GasScheduleChangeResponse, BlockchainNewAddressRequest,
         BlockchainGetCompiledCodeRequest, BlockchainGetCompiledCodeResponse,
         DiagnoseWaitRequest, DiagnoseWaitResponse, VersionRequest,
         VersionResponse, BlockchainClearCompiledCodesRequest,
         BlockchainProcessBuiltInFunctionRequest, UndefinedRequestOrResponse

(* A pipe with one message in it is empty once that message is read.       *)
LEMMA SingletonTail ==
    ASSUME NEW S, NEW s \in Seq(S), s # <<>>, Len(s) <= 1
    PROVE  Tail(s) = <<>> /\ Head(s) \in S /\ Len(s) = 1
  <1>1. Len(s) = 1
    <2>1. Len(s) \in Nat /\ Len(s) # 0
      BY EmptySeq
    <2> QED BY <2>1
  <1>2. Tail(s) \in Seq(S) /\ Len(Tail(s)) = 0 /\ Head(s) \in S
    BY <1>1, HeadTailProperties
  <1>3. Tail(s) = <<>>
    BY <1>2, EmptySeq
  <1> QED
    BY <1>1, <1>2, <1>3

(* Reading a message from a pipe (Receiver.Receive): what is read is a
   message, and what stays in the pipe are messages. *)
LEMMA PipeRead ==
    ASSUME NEW S, NEW s \in Seq(S), s # <<>>
    PROVE  Tail(s) \in Seq(S) /\ Head(s) \in S /\ Head(s) = s[1]
  OBVIOUS

(* Writing a message to a pipe (Sender.Send) leaves messages in it. *)
LEMMA PipeWrite ==
    ASSUME NEW S, NEW s \in Seq(S), NEW m \in S
    PROVE  /\ Append(s, m) \in Seq(S)
           /\ Append(s, m) # <<>>
           /\ Len(Append(s, m)) = Len(s) + 1
           /\ s = <<>> => Len(Append(s, m)) = 1 /\ Head(Append(s, m)) = m
           /\ s # <<>> => Head(Append(s, m)) = Head(s)
           /\ \A i \in 1 .. Len(Append(s, m)) :
                 Append(s, m)[i] = IF i <= Len(s) THEN s[i] ELSE m
  OBVIOUS

(* What follows the first message of a pipe, by position. *)
LEMMA PipeRest ==
    ASSUME NEW S, NEW s \in Seq(S), s # <<>>
    PROVE  /\ Len(Tail(s)) = Len(s) - 1
           /\ \A i \in 1 .. Len(Tail(s)) : i + 1 \in 1 .. Len(s) /\ Tail(s)[i] = s[i + 1]
           /\ 1 \in 1 .. Len(s)
  OBVIOUS

-----------------------------------------------------------------------------
(* Types.                                                                  *)

(* The driver starts with well-typed state.                                *)
LEMMA InitType == Init => TypeOK
  BY IPCAssumption, KindFacts, ZeroNonce
  DEF Init, TypeOK, NoOutcome, Outcome, OutcomeType, Errors

(* A message built by either side is well typed. *)
LEMMA MessageTyped ==
    ASSUME NEW k \in MessageKind, NEW n \in Nonces, NEW i \in Nat, NEW g \in Nat
    PROVE  Message(k, n, i, g) \in MessageType
  BY DEF Message, MessageType

(* What an operation returns is well typed. *)
LEMMA OutcomeTyped ==
    ASSUME NEW e \in Errors, NEW k \in MessageKind, NEW i \in Nat, NEW g \in Nat
    PROVE  Outcome(e, k, i, g) \in OutcomeType
  BY DEF Outcome, OutcomeType

(* A critical error that an operation returns is well typed. *)
LEMMA CriticalTyped == \A e \in Errors : Outcome(e, 0, 0, 0) \in OutcomeType
  BY OutcomeTyped, KindFacts

(* What a client holds before an operation of its own returns is well typed. *)
LEMMA NoOutcomeTyped == NoOutcome \in OutcomeType
  BY CriticalTyped DEF NoOutcome, Errors

(* No step of the driver, of Arwen or of the environment leaves the types: *)
(* in particular the loop never goes on with a negative remaining time.    *)
LEMMA NextType == TypeOK /\ [Next]_vars => TypeOK'
  <1> SUFFICES ASSUME TypeOK, [Next]_vars PROVE TypeOK'
    OBVIOUS
  <1> USE IPCAssumption
  <1>1. ASSUME NEW c \in Clients, NEW kind \in NodeRequest, Invoke(c, kind)
        PROVE  TypeOK'
    BY <1>1, NoOutcomeTyped
    DEF Invoke, Goto, TypeOK, driverVars, nodeVars, procVars, pipeVars
  <1>2. ASSUME NEW c \in Clients, LockOperations(c)
        PROVE  TypeOK'
    BY <1>2
    DEF LockOperations, Goto, TypeOK, nodeVars, procVars, pipeVars, boundVars
  <1>3. ASSUME NEW c \in Clients, RestartArwenIfNecessary(c)
        PROVE  TypeOK'
    BY <1>3 DEF RestartArwenIfNecessary, Return, Goto, TypeOK, nodeVars, procVars, pipeVars, boundVars
  <1>4. ASSUME NEW c \in Clients, StartArwen(c)
        PROVE  TypeOK'
    BY <1>4, ZeroNonce DEF StartArwen, LaunchArwen, ResetPipeStreams, Goto, TypeOK, boundVars
  <1>5. ASSUME NEW c \in Clients, NEW step \in StartFailures, StartArwenFails(c, step)
        PROVE  TypeOK'
    <2>1. Outcome("start", 0, 0, 0) \in OutcomeType
      BY CriticalTyped DEF Errors
    <2>2. CASE step = "logs"
      BY <1>5, <2>1, <2>2, ZeroNonce
      DEF StartArwenFails, LaunchArwen, ResetPipeStreams, Return, Goto, Fault,
          TypeOK
    <2>3. CASE step # "logs"
      BY <1>5, <2>1, <2>3
      DEF StartArwenFails, ResetPipeStreams, Return, Goto, Fault, TypeOK
    <2> QED BY <2>2, <2>3
  <1>6. ASSUME NEW c \in Clients, SendContractRequest(c)
        PROVE  TypeOK'
    <2> DEFINE m == Message(request[c].kind, Inc(nodeNonce), request[c].id, 0)
    <2>1. m \in MessageType /\ Inc(nodeNonce) \in Nonces
      BY MessageTyped, IncType, KindFacts DEF TypeOK
    <2>2. Append(nodeToArwen, m) \in Seq(MessageType)
      BY <2>1, PipeWrite DEF TypeOK
    <2> HIDE DEF m
    <2>3. Outcome("ErrCannotSendContractRequest", 0, 0, 0) \in OutcomeType
      BY CriticalTyped DEF Errors
    <2>4. CASE part = "open"
      <3>1. nodeToArwen' = Append(nodeToArwen, m)
        BY <1>6, <2>4 DEF SendContractRequest, m
      <3>2. remaining' \in 0 .. MaxLoopTime
        BY <1>6, <2>4 DEF SendContractRequest
      <3> QED
        BY <1>6, <2>1, <2>2, <2>4, <3>1, <3>2
        DEF SendContractRequest, Goto, TypeOK, driverVars, procVars, boundVars
    <2>5. CASE part # "open"
      BY <1>6, <2>1, <2>3, <2>5
      DEF SendContractRequest, FailOperation, Goto, TypeOK, driverVars,
          procVars, boundVars
    <2> QED BY <2>4, <2>5
  <1>7. ASSUME NEW c \in Clients, NEW d \in 0 .. MaxLoopTime + 1,
               ReplyToHookCall(c, d)
        PROVE  TypeOK'
    <2> DEFINE m == Head(arwenToNode)
               kind == IF m.kind \in HookRequest
                       THEN m.kind + 1 ELSE UndefinedRequestOrResponse
               reply == Message(kind, Inc(m.nonce), m.id, 0)
    <2>1. m \in MessageType /\ Tail(arwenToNode) \in Seq(MessageType)
      BY <1>7, PipeRead DEF ReplyToHookCall, NodeReceives, TypeOK
    <2>2. reply \in MessageType /\ Inc(m.nonce) \in Nonces
      BY <2>1, MessageTyped, IncType, KindFacts DEF MessageType
    <2>3. Append(nodeToArwen, reply) \in Seq(MessageType)
      BY <2>2, PipeWrite DEF TypeOK
    <2>4. remaining - d >= 0
      BY <1>7 DEF ReplyToHookCall, DoLoopError, TypeOK
    <2>5. remaining' \in 0 .. MaxLoopTime
      BY <1>7, <2>4 DEF ReplyToHookCall, TypeOK
    <2>6. /\ nodeToArwen' = Append(nodeToArwen, reply)
          /\ nodeNonce' = Inc(m.nonce)
          /\ arwenToNode' = Tail(arwenToNode)
      BY <1>7 DEF ReplyToHookCall, NodeReceives
    <2> HIDE DEF m, kind, reply
    <2> QED
      BY <1>7, <2>1, <2>2, <2>3, <2>5, <2>6
      DEF ReplyToHookCall, NodeReceives, TypeOK, procVars, boundVars
  <1>8. ASSUME NEW c \in Clients, NEW d \in 0 .. MaxLoopTime + 1,
               ReceiveResponse(c, d)
        PROVE  TypeOK'
    <2> DEFINE m == Head(arwenToNode)
               result == Outcome("nil", m.kind, m.id, m.gas)
    <2>1. m \in MessageType /\ Tail(arwenToNode) \in Seq(MessageType)
      BY <1>8, PipeRead DEF ReceiveResponse, NodeReceives, TypeOK
    <2>2. result \in OutcomeType
      BY <2>1, OutcomeTyped DEF MessageType, Errors
    <2>3. /\ Return(c, "idle", result)
          /\ arwenToNode' = Tail(arwenToNode)
          /\ nodeNonce' = 0
          /\ UNCHANGED <<remaining, nodeToArwen, request, gasSchedule, command,
                         part, procVars, boundVars>>
      BY <1>8 DEF ReceiveResponse, NodeReceives
    <2> HIDE DEF m, result
    <2> QED
      BY <2>1, <2>2, <2>3, ZeroNonce DEF Return, Goto, TypeOK, procVars, boundVars
  <1>9. ASSUME NEW c \in Clients, NEW d \in 0 .. MaxLoopTime + 1,
               ReceiveError(c, d)
        PROVE  TypeOK'
    <2> DEFINE err == DoLoopError(Head(arwenToNode), d)
    <2>1. Tail(arwenToNode) \in Seq(MessageType)
      BY <1>9, PipeRead DEF ReceiveError, NodeReceives, TypeOK
    <2>2. err \in Errors
      BY DEF DoLoopError, Errors
    <2>3. Outcome(err, 0, 0, 0) \in OutcomeType
      BY <2>2, CriticalTyped
    <2>4. /\ FailOperation(c, err)
          /\ arwenToNode' = Tail(arwenToNode)
          /\ nodeNonce' = 0
          /\ UNCHANGED <<mutex, remaining, nodeToArwen, request, gasSchedule,
                         command, part, procVars, boundVars>>
      BY <1>9 DEF ReceiveError, NodeReceives
    <2> HIDE DEF err
    <2> QED
      BY <2>1, <2>3, <2>4, ZeroNonce
      DEF FailOperation, Goto, TypeOK, procVars, boundVars
  <1>10. ASSUME NEW c \in Clients, ReceiveTimeout(c)
         PROVE  TypeOK'
    <2>1. Outcome("timeout", 0, 0, 0) \in OutcomeType
      BY CriticalTyped DEF Errors
    <2> QED
      BY <1>10, <2>1, ZeroNonce
      DEF ReceiveTimeout, FailOperation, Goto, TypeOK, driverVars, procVars,
          pipeVars, boundVars
  <1>11. ASSUME NEW c \in Clients, CloseArwen(c)
         PROVE  TypeOK'
    BY <1>11
    DEF CloseArwen, Return, Goto, TypeOK, nodeVars, pipeVars, boundVars
  <1>12. ASSUME ReceiveNodeRequest
         PROVE  TypeOK'
    <2> DEFINE m == Head(nodeToArwen)
    <2>1. m \in MessageType /\ Tail(nodeToArwen) \in Seq(MessageType)
      BY <1>12, PipeRead DEF ReceiveNodeRequest, TypeOK
    <2>2. /\ nodeToArwen' = Tail(nodeToArwen)
          /\ UNCHANGED <<clientVars, driverVars, nodeVars, arwenGas,
                         arwenToNode, boundVars>>
      BY <1>12 DEF ReceiveNodeRequest
    <2>3. /\ proc' \in {"running", "exited", "reaped"}
          /\ exitCause' \in {"none", "stop", "nonce", "panic", "crash"}
          /\ loop' \in {"args", "receive", "work", "hook", "hung", "off"}
          /\ arwenNonce' \in Nonces
          /\ current' \in [kind : MessageKind, id : Nat]
          /\ hooks' \in Nat
      BY <1>12, <2>1 DEF ReceiveNodeRequest, ArwenExits, ArwenLoopEnd, TypeOK, MessageType
    <2> QED
      BY <2>1, <2>2, <2>3
      DEF TypeOK, clientVars, driverVars, nodeVars, boundVars
  <1>13. ASSUME NEW kind \in HookKinds, SendHookCallRequest(kind)
         PROVE  TypeOK'
    <2> DEFINE m == Message(kind, Inc(arwenNonce), current.id, 0)
    <2>1. m \in MessageType /\ Inc(arwenNonce) \in Nonces
      BY MessageTyped, IncType, KindFacts DEF TypeOK
    <2>2. Append(arwenToNode, m) \in Seq(MessageType)
      BY <2>1, PipeWrite DEF TypeOK
    <2>3. arwenToNode' = Append(arwenToNode, m)
      BY <1>13 DEF SendHookCallRequest
    <2> HIDE DEF m
    <2> QED
      BY <1>13, <2>1, <2>2, <2>3
      DEF SendHookCallRequest, TypeOK, clientVars, driverVars, nodeVars, boundVars
  <1>14. ASSUME ReceiveHookCallResponse
         PROVE  TypeOK'
    <2>1. /\ Head(nodeToArwen) \in MessageType
          /\ Tail(nodeToArwen) \in Seq(MessageType)
      BY <1>14, PipeRead DEF ReceiveHookCallResponse, TypeOK
    <2> QED
      BY <1>14, <2>1
      DEF ReceiveHookCallResponse, TypeOK, MessageType, clientVars, driverVars,
          nodeVars, boundVars
  <1>15. ASSUME SendContractResponse
         PROVE  TypeOK'
    <2> DEFINE m == Message(ResponseKind(current.kind), Inc(arwenNonce),
                            current.id, arwenGas')
    <2>1. arwenGas' \in Nat
      BY <1>15 DEF SendContractResponse, TypeOK
    <2>2. ResponseKind(current.kind) \in MessageKind
      BY DEF TypeOK, ResponseKind, MessageKind, ContractResponse
    <2>3. m \in MessageType
      BY <2>1, <2>2, MessageTyped, IncType DEF TypeOK
    <2>4. Append(arwenToNode, m) \in Seq(MessageType)
      BY <2>3, PipeWrite DEF TypeOK
    <2>5. arwenToNode' = Append(arwenToNode, m)
      BY <1>15 DEF SendContractResponse
    <2> HIDE DEF m
    <2> QED
      BY <1>15, <2>1, <2>4, <2>5, ZeroNonce
      DEF SendContractResponse, TypeOK, clientVars, driverVars, nodeVars, boundVars
  <1>16. ASSUME Environment
         PROVE  TypeOK'
    <2>1. CASE ArwenCrashes
      BY <2>1 DEF ArwenCrashes, ArwenExits, Fault, TypeOK, clientVars,
                  driverVars, nodeVars, pipeVars
    <2>2. CASE ArwenHangs
      BY <2>2 DEF ArwenHangs, Fault, TypeOK, clientVars, driverVars, nodeVars,
                  pipeVars
    <2>3. CASE SendStopSignal
      <3>1. Message(Stop, Inc(nodeNonce), 0, 0) \in MessageType
        BY MessageTyped, IncType, KindFacts DEF TypeOK
      <3>2. nodeToArwen' \in Seq(MessageType)
        BY <2>3, <3>1, PipeWrite DEF SendStopSignal, TypeOK
      <3>3. nodeNonce' \in Nonces
        BY <2>3, IncType DEF SendStopSignal, TypeOK
      <3> QED
        BY <2>3, <3>2, <3>3
        DEF SendStopSignal, Fault, TypeOK, clientVars, driverVars, procVars
    <2>4. CASE ExternalClose
      BY <2>4 DEF ExternalClose, Fault, TypeOK, clientVars, driverVars,
                  nodeVars, pipeVars
    <2> QED
      BY <1>16, <2>1, <2>2, <2>3, <2>4 DEF Environment
  <1>17. CASE UNCHANGED vars
    BY <1>17 DEF vars, TypeOK
  <1> QED
    BY <1>1, <1>2, <1>3, <1>4, <1>5, <1>6, <1>7, <1>8, <1>9, <1>10, <1>11,
       <1>12, <1>13, <1>14, <1>15, <1>16, <1>17
    DEF Next, ClientStep, ArwenStep

(* Every variable of the driver and of Arwen keeps its type.               *)
THEOREM TypeCorrect == Spec => []TypeOK
  <1>1. Init => TypeOK
    BY InitType
  <1>2. TypeOK /\ [Next]_vars => TypeOK'
    BY NextType
  <1> QED
    BY <1>1, <1>2, PTL DEF Spec

-----------------------------------------------------------------------------
(* The dialogue invariant.                                                 *)

(* Only the holder of operationsMutex is ever inside an operation.         *)
LEMMA OneOperationStep == TypeOK /\ DialogueInv /\ [Next]_vars => OneOperation'
  <1> SUFFICES ASSUME TypeOK, DialogueInv, [Next]_vars PROVE OneOperation'
    OBVIOUS
  <1> USE IPCAssumption DEF DialogueInv
  <1>1. ASSUME NEW c \in Clients, NEW kind \in NodeRequest, Invoke(c, kind)
        PROVE  OneOperation'
    BY <1>1
    DEF Invoke, Goto, driverVars, nodeVars, procVars, pipeVars, TypeOK,
        OneOperation, InOperation
  <1>2. ASSUME NEW c \in Clients, LockOperations(c)
        PROVE  OneOperation'
    BY <1>2
    DEF LockOperations, Goto, nodeVars, procVars, pipeVars, boundVars, TypeOK,
        OneOperation, InOperation
  <1>3. ASSUME NEW c \in Clients, RestartArwenIfNecessary(c)
        PROVE  OneOperation'
    BY <1>3
    DEF RestartArwenIfNecessary, IsClosed, Return, Goto, nodeVars, procVars, pipeVars, boundVars, TypeOK,
        OneOperation, InOperation
  <1>4. ASSUME NEW c \in Clients, StartArwen(c)
        PROVE  OneOperation'
    BY <1>4
    DEF StartArwen, LaunchArwen, ResetPipeStreams, Goto, boundVars, TypeOK,
        OneOperation, InOperation
  <1>5. ASSUME NEW c \in Clients, NEW step \in StartFailures, StartArwenFails(c, step)
        PROVE  OneOperation'
    BY <1>5
    DEF StartArwenFails, LaunchArwen, ResetPipeStreams, Return, Goto, Fault, TypeOK,
        OneOperation, InOperation
  <1>6. ASSUME NEW c \in Clients, SendContractRequest(c)
        PROVE  OneOperation'
    BY <1>6
    DEF SendContractRequest, FailOperation, Goto, driverVars, procVars, boundVars, TypeOK,
        OneOperation, InOperation
  <1>7. ASSUME NEW c \in Clients, NEW d \in 0 .. MaxLoopTime + 1, ReplyToHookCall(c, d)
        PROVE  OneOperation'
    BY <1>7
    DEF ReplyToHookCall, NodeReceives, procVars, boundVars, TypeOK,
        OneOperation, InOperation
  <1>8. ASSUME NEW c \in Clients, NEW d \in 0 .. MaxLoopTime + 1, ReceiveResponse(c, d)
        PROVE  OneOperation'
    BY <1>8
    DEF ReceiveResponse, NodeReceives, Return, Goto, procVars, boundVars, TypeOK,
        OneOperation, InOperation
  <1>9. ASSUME NEW c \in Clients, NEW d \in 0 .. MaxLoopTime + 1, ReceiveError(c, d)
        PROVE  OneOperation'
    BY <1>9
    DEF ReceiveError, NodeReceives, FailOperation, Goto, procVars, boundVars, TypeOK,
        OneOperation, InOperation
  <1>10. ASSUME NEW c \in Clients, ReceiveTimeout(c)
        PROVE  OneOperation'
    BY <1>10
    DEF ReceiveTimeout, FailOperation, Goto, driverVars, procVars, pipeVars, boundVars, TypeOK,
        OneOperation, InOperation
  <1>11. ASSUME NEW c \in Clients, CloseArwen(c)
        PROVE  OneOperation'
    BY <1>11
    DEF CloseArwen, Return, Goto, nodeVars, pipeVars, boundVars, TypeOK,
        OneOperation, InOperation
  <1>12. ASSUME ReceiveNodeRequest
        PROVE  OneOperation'
    BY <1>12
    DEF ReceiveNodeRequest, ArwenExits, clientVars, driverVars, nodeVars, boundVars, TypeOK,
        OneOperation, InOperation
  <1>13. ASSUME NEW kind \in HookKinds, SendHookCallRequest(kind)
        PROVE  OneOperation'
    BY <1>13
    DEF SendHookCallRequest, clientVars, driverVars, nodeVars, boundVars, TypeOK,
        OneOperation, InOperation
  <1>14. ASSUME ReceiveHookCallResponse
        PROVE  OneOperation'
    BY <1>14
    DEF ReceiveHookCallResponse, clientVars, driverVars, nodeVars, boundVars, TypeOK,
        OneOperation, InOperation
  <1>15. ASSUME SendContractResponse
        PROVE  OneOperation'
    BY <1>15
    DEF SendContractResponse, clientVars, driverVars, nodeVars, boundVars, TypeOK,
        OneOperation, InOperation
  <1>16. ASSUME ArwenCrashes
        PROVE  OneOperation'
    BY <1>16
    DEF ArwenCrashes, ArwenExits, Fault, clientVars, driverVars, nodeVars, pipeVars, TypeOK,
        OneOperation, InOperation
  <1>17. ASSUME ArwenHangs
        PROVE  OneOperation'
    BY <1>17
    DEF ArwenHangs, Fault, clientVars, driverVars, nodeVars, pipeVars, TypeOK,
        OneOperation, InOperation
  <1>18. ASSUME SendStopSignal
        PROVE  OneOperation'
    BY <1>18
    DEF SendStopSignal, Fault, clientVars, driverVars, procVars, TypeOK,
        OneOperation, InOperation
  <1>19. ASSUME ExternalClose
        PROVE  OneOperation'
    BY <1>19
    DEF ExternalClose, Fault, clientVars, driverVars, nodeVars, pipeVars, TypeOK,
        OneOperation, InOperation
  <1>20. CASE UNCHANGED vars
    BY <1>20 DEF vars, OneOperation, InOperation
  <1> QED
    BY <1>1, <1>2, <1>3, <1>4, <1>5, <1>6, <1>7, <1>8, <1>9, <1>10,
       <1>11, <1>12, <1>13, <1>14, <1>15, <1>16, <1>17, <1>18, <1>19, <1>20
    DEF Next, ClientStep, ArwenStep, Environment

(* A start happens only when the old process is gone for good.             *)
LEMMA ProcessStep == TypeOK /\ DialogueInv /\ [Next]_vars => ProcessInv'
  <1> SUFFICES ASSUME TypeOK, DialogueInv, [Next]_vars PROVE ProcessInv'
    OBVIOUS
  <1> USE IPCAssumption DEF DialogueInv
  <1>1. ASSUME NEW c \in Clients, NEW kind \in NodeRequest, Invoke(c, kind)
        PROVE  ProcessInv'
    BY <1>1
    DEF Invoke, Goto, driverVars, nodeVars, procVars, pipeVars, TypeOK,
        ProcessInv, OneOperation, InOperation
  <1>2. ASSUME NEW c \in Clients, LockOperations(c)
        PROVE  ProcessInv'
    BY <1>2
    DEF LockOperations, Goto, nodeVars, procVars, pipeVars, boundVars, TypeOK,
        ProcessInv, OneOperation, InOperation
  <1>3. ASSUME NEW c \in Clients, RestartArwenIfNecessary(c)
        PROVE  ProcessInv'
    BY <1>3
    DEF RestartArwenIfNecessary, IsClosed, Return, Goto, nodeVars, procVars, pipeVars, boundVars, TypeOK,
        ProcessInv, OneOperation, InOperation
  <1>4. ASSUME NEW c \in Clients, StartArwen(c)
        PROVE  ProcessInv'
    BY <1>4
    DEF StartArwen, LaunchArwen, ResetPipeStreams, Goto, boundVars, TypeOK,
        ProcessInv, OneOperation, InOperation
  <1>5. ASSUME NEW c \in Clients, NEW step \in StartFailures, StartArwenFails(c, step)
        PROVE  ProcessInv'
    <2>1. proc = "reaped" /\ \A other \in Clients : pc'[other] # "start"
      BY <1>5 DEF StartArwenFails, Return, Goto, TypeOK, ProcessInv,
                  OneOperation, InOperation
    <2>2. CASE step = "logs"
      BY <1>5, <2>1, <2>2 DEF StartArwenFails, LaunchArwen, ProcessInv
    <2>3. CASE step # "logs"
      BY <1>5, <2>1, <2>3 DEF StartArwenFails, ProcessInv
    <2> QED BY <2>2, <2>3
  <1>6. ASSUME NEW c \in Clients, SendContractRequest(c)
        PROVE  ProcessInv'
    BY <1>6
    DEF SendContractRequest, FailOperation, Goto, driverVars, procVars, boundVars, TypeOK,
        ProcessInv, OneOperation, InOperation
  <1>7. ASSUME NEW c \in Clients, NEW d \in 0 .. MaxLoopTime + 1, ReplyToHookCall(c, d)
        PROVE  ProcessInv'
    BY <1>7
    DEF ReplyToHookCall, NodeReceives, procVars, boundVars, TypeOK,
        ProcessInv, OneOperation, InOperation
  <1>8. ASSUME NEW c \in Clients, NEW d \in 0 .. MaxLoopTime + 1, ReceiveResponse(c, d)
        PROVE  ProcessInv'
    BY <1>8
    DEF ReceiveResponse, NodeReceives, Return, Goto, procVars, boundVars, TypeOK,
        ProcessInv, OneOperation, InOperation
  <1>9. ASSUME NEW c \in Clients, NEW d \in 0 .. MaxLoopTime + 1, ReceiveError(c, d)
        PROVE  ProcessInv'
    BY <1>9
    DEF ReceiveError, NodeReceives, FailOperation, Goto, procVars, boundVars, TypeOK,
        ProcessInv, OneOperation, InOperation
  <1>10. ASSUME NEW c \in Clients, ReceiveTimeout(c)
        PROVE  ProcessInv'
    BY <1>10
    DEF ReceiveTimeout, FailOperation, Goto, driverVars, procVars, pipeVars, boundVars, TypeOK,
        ProcessInv, OneOperation, InOperation
  <1>11. ASSUME NEW c \in Clients, CloseArwen(c)
        PROVE  ProcessInv'
    BY <1>11
    DEF CloseArwen, Return, Goto, nodeVars, pipeVars, boundVars, TypeOK,
        ProcessInv, OneOperation, InOperation
  <1>12. ASSUME ReceiveNodeRequest
        PROVE  ProcessInv'
    BY <1>12
    DEF ReceiveNodeRequest, ArwenExits, clientVars, driverVars, nodeVars, boundVars, TypeOK,
        ProcessInv, OneOperation, InOperation
  <1>13. ASSUME NEW kind \in HookKinds, SendHookCallRequest(kind)
        PROVE  ProcessInv'
    BY <1>13
    DEF SendHookCallRequest, clientVars, driverVars, nodeVars, boundVars, TypeOK,
        ProcessInv, OneOperation, InOperation
  <1>14. ASSUME ReceiveHookCallResponse
        PROVE  ProcessInv'
    BY <1>14
    DEF ReceiveHookCallResponse, clientVars, driverVars, nodeVars, boundVars, TypeOK,
        ProcessInv, OneOperation, InOperation
  <1>15. ASSUME SendContractResponse
        PROVE  ProcessInv'
    BY <1>15
    DEF SendContractResponse, clientVars, driverVars, nodeVars, boundVars, TypeOK,
        ProcessInv, OneOperation, InOperation
  <1>16. ASSUME ArwenCrashes
        PROVE  ProcessInv'
    BY <1>16
    DEF ArwenCrashes, ArwenExits, Fault, clientVars, driverVars, nodeVars, pipeVars, TypeOK,
        ProcessInv, OneOperation, InOperation
  <1>17. ASSUME ArwenHangs
        PROVE  ProcessInv'
    BY <1>17
    DEF ArwenHangs, Fault, clientVars, driverVars, nodeVars, pipeVars, TypeOK,
        ProcessInv, OneOperation, InOperation
  <1>18. ASSUME SendStopSignal
        PROVE  ProcessInv'
    BY <1>18
    DEF SendStopSignal, Fault, clientVars, driverVars, procVars, TypeOK,
        ProcessInv, OneOperation, InOperation
  <1>19. ASSUME ExternalClose
        PROVE  ProcessInv'
    BY <1>19
    DEF ExternalClose, Fault, clientVars, driverVars, nodeVars, pipeVars, TypeOK,
        ProcessInv, OneOperation, InOperation
  <1>20. CASE UNCHANGED vars
    BY <1>20 DEF vars, ProcessInv, OneOperation, InOperation
  <1> QED
    BY <1>1, <1>2, <1>3, <1>4, <1>5, <1>6, <1>7, <1>8, <1>9, <1>10,
       <1>11, <1>12, <1>13, <1>14, <1>15, <1>16, <1>17, <1>18, <1>19, <1>20
    DEF Next, ClientStep, ArwenStep, Environment

(* A process that serves contracts has the schedule the driver stored.     *)
LEMMA GasStep == TypeOK /\ DialogueInv /\ [Next]_vars => GasInv'
  <1> SUFFICES ASSUME TypeOK, DialogueInv, [Next]_vars PROVE GasInv'
    OBVIOUS
  <1> USE IPCAssumption DEF DialogueInv
  <1>1. ASSUME NEW c \in Clients, NEW kind \in NodeRequest, Invoke(c, kind)
        PROVE  GasInv'
    BY <1>1
    DEF Invoke, Goto, driverVars, nodeVars, procVars, pipeVars, TypeOK,
        GasInv, OneOperation, ProcessInv, InOperation
  <1>2. ASSUME NEW c \in Clients, LockOperations(c)
        PROVE  GasInv'
    BY <1>2
    DEF LockOperations, Goto, nodeVars, procVars, pipeVars, boundVars, TypeOK,
        GasInv, OneOperation, ProcessInv, InOperation
  <1>3. ASSUME NEW c \in Clients, RestartArwenIfNecessary(c)
        PROVE  GasInv'
    BY <1>3
    DEF RestartArwenIfNecessary, IsClosed, Return, Goto, nodeVars, procVars, pipeVars, boundVars, TypeOK,
        GasInv, OneOperation, ProcessInv, InOperation
  <1>4. ASSUME NEW c \in Clients, StartArwen(c)
        PROVE  GasInv'
    BY <1>4
    DEF StartArwen, LaunchArwen, ResetPipeStreams, Goto, boundVars, TypeOK,
        GasInv, OneOperation, ProcessInv, InOperation
  <1>5. ASSUME NEW c \in Clients, NEW step \in StartFailures, StartArwenFails(c, step)
        PROVE  GasInv'
    BY <1>5
    DEF StartArwenFails, LaunchArwen, ResetPipeStreams, Return, Goto, Fault, TypeOK,
        GasInv, OneOperation, ProcessInv, InOperation
  <1>6. ASSUME NEW c \in Clients, SendContractRequest(c)
        PROVE  GasInv'
    BY <1>6
    DEF SendContractRequest, FailOperation, Goto, driverVars, procVars, boundVars, TypeOK,
        GasInv, OneOperation, ProcessInv, InOperation
  <1>7. ASSUME NEW c \in Clients, NEW d \in 0 .. MaxLoopTime + 1, ReplyToHookCall(c, d)
        PROVE  GasInv'
    BY <1>7
    DEF ReplyToHookCall, NodeReceives, procVars, boundVars, TypeOK,
        GasInv, OneOperation, ProcessInv, InOperation
  <1>8. ASSUME NEW c \in Clients, NEW d \in 0 .. MaxLoopTime + 1, ReceiveResponse(c, d)
        PROVE  GasInv'
    <2>1. proc = "running" => arwenGas = gasSchedule
      BY <1>8 DEF ReceiveResponse, NodeReceives, TurnsInv, Turns
    <2> QED
      BY <1>8, <2>1
      DEF ReceiveResponse, NodeReceives, Return, Goto, procVars, boundVars,
          TypeOK, GasInv, OneOperation, InOperation
  <1>9. ASSUME NEW c \in Clients, NEW d \in 0 .. MaxLoopTime + 1, ReceiveError(c, d)
        PROVE  GasInv'
    BY <1>9
    DEF ReceiveError, NodeReceives, FailOperation, Goto, procVars, boundVars, TypeOK,
        GasInv, OneOperation, ProcessInv, InOperation
  <1>10. ASSUME NEW c \in Clients, ReceiveTimeout(c)
        PROVE  GasInv'
    BY <1>10
    DEF ReceiveTimeout, FailOperation, Goto, driverVars, procVars, pipeVars, boundVars, TypeOK,
        GasInv, OneOperation, ProcessInv, InOperation
  <1>11. ASSUME NEW c \in Clients, CloseArwen(c)
        PROVE  GasInv'
    BY <1>11
    DEF CloseArwen, Return, Goto, nodeVars, pipeVars, boundVars, TypeOK,
        GasInv, OneOperation, ProcessInv, InOperation
  <1>12. ASSUME ReceiveNodeRequest
        PROVE  GasInv'
    BY <1>12
    DEF ReceiveNodeRequest, ArwenExits, clientVars, driverVars, nodeVars, boundVars, TypeOK,
        GasInv, OneOperation, ProcessInv, InOperation
  <1>13. ASSUME NEW kind \in HookKinds, SendHookCallRequest(kind)
        PROVE  GasInv'
    BY <1>13
    DEF SendHookCallRequest, clientVars, driverVars, nodeVars, boundVars, TypeOK,
        GasInv, OneOperation, ProcessInv, InOperation
  <1>14. ASSUME ReceiveHookCallResponse
        PROVE  GasInv'
    BY <1>14
    DEF ReceiveHookCallResponse, clientVars, driverVars, nodeVars, boundVars, TypeOK,
        GasInv, OneOperation, ProcessInv, InOperation
  <1>15. ASSUME SendContractResponse
        PROVE  GasInv'
    <2>1. PICK c \in Clients : pc[c] \in {"receive", "close"}
      BY <1>15 DEF SendContractResponse, QuietInv, Quiet
    <2>2. CASE pc[c] = "close"
      BY <1>15, <2>1, <2>2
      DEF SendContractResponse, clientVars, driverVars, GasInv, InOperation
    <2>3. CASE pc[c] = "receive"
      <3>1. \/ arwenGas' = gasSchedule
            \/ request[c].kind = GasScheduleChangeRequest
        BY <1>15, <2>1, <2>3 DEF SendContractResponse, TurnsInv, Turns
      <3> QED
        BY <1>15, <2>1, <2>3, <3>1
        DEF SendContractResponse, clientVars, driverVars, GasInv, InOperation
    <2> QED BY <2>1, <2>2, <2>3
  <1>16. ASSUME ArwenCrashes
        PROVE  GasInv'
    BY <1>16
    DEF ArwenCrashes, ArwenExits, Fault, clientVars, driverVars, nodeVars, pipeVars, TypeOK,
        GasInv, OneOperation, ProcessInv, InOperation
  <1>17. ASSUME ArwenHangs
        PROVE  GasInv'
    BY <1>17
    DEF ArwenHangs, Fault, clientVars, driverVars, nodeVars, pipeVars, TypeOK,
        GasInv, OneOperation, ProcessInv, InOperation
  <1>18. ASSUME SendStopSignal
        PROVE  GasInv'
    BY <1>18
    DEF SendStopSignal, Fault, clientVars, driverVars, procVars, TypeOK,
        GasInv, OneOperation, ProcessInv, InOperation
  <1>19. ASSUME ExternalClose
        PROVE  GasInv'
    BY <1>19
    DEF ExternalClose, Fault, clientVars, driverVars, nodeVars, pipeVars, TypeOK,
        GasInv, OneOperation, ProcessInv, InOperation
  <1>20. CASE UNCHANGED vars
    BY <1>20 DEF vars, GasInv, OneOperation, ProcessInv, InOperation
  <1> QED
    BY <1>1, <1>2, <1>3, <1>4, <1>5, <1>6, <1>7, <1>8, <1>9, <1>10,
       <1>11, <1>12, <1>13, <1>14, <1>15, <1>16, <1>17, <1>18, <1>19, <1>20
    DEF Next, ClientStep, ArwenStep, Environment

(* An operation leaves nothing behind for the next one.                    *)
LEMMA QuietStep == TypeOK /\ DialogueInv /\ [Next]_vars => QuietInv'
  <1> SUFFICES ASSUME TypeOK, DialogueInv, [Next]_vars PROVE QuietInv'
    OBVIOUS
  <1> USE IPCAssumption DEF DialogueInv
  <1>1. ASSUME NEW c \in Clients, NEW kind \in NodeRequest, Invoke(c, kind)
        PROVE  QuietInv'
    BY <1>1
    DEF Invoke, Goto, driverVars, nodeVars, procVars, pipeVars, TypeOK,
        QuietInv, Quiet, OneOperation, ProcessInv, InOperation
  <1>2. ASSUME NEW c \in Clients, LockOperations(c)
        PROVE  QuietInv'
    BY <1>2
    DEF LockOperations, Goto, nodeVars, procVars, pipeVars, boundVars, TypeOK,
        QuietInv, Quiet, OneOperation, ProcessInv, InOperation
  <1>3. ASSUME NEW c \in Clients, RestartArwenIfNecessary(c)
        PROVE  QuietInv'
    BY <1>3
    DEF RestartArwenIfNecessary, IsClosed, Return, Goto, nodeVars, procVars, pipeVars, boundVars, TypeOK,
        QuietInv, Quiet, OneOperation, ProcessInv, InOperation
  <1>4. ASSUME NEW c \in Clients, StartArwen(c)
        PROVE  QuietInv'
    BY <1>4
    DEF StartArwen, LaunchArwen, ResetPipeStreams, Goto, boundVars, TypeOK,
        QuietInv, Quiet, OneOperation, ProcessInv, InOperation
  <1>5. ASSUME NEW c \in Clients, NEW step \in StartFailures, StartArwenFails(c, step)
        PROVE  QuietInv'
    BY <1>5
    DEF StartArwenFails, LaunchArwen, ResetPipeStreams, Return, Goto, Fault, TypeOK,
        QuietInv, Quiet, OneOperation, ProcessInv, InOperation
  <1>6. ASSUME NEW c \in Clients, SendContractRequest(c)
        PROVE  QuietInv'
    BY <1>6
    DEF SendContractRequest, FailOperation, Goto, driverVars, procVars, boundVars, TypeOK,
        QuietInv, Quiet, OneOperation, ProcessInv, InOperation
  <1>7. ASSUME NEW c \in Clients, NEW d \in 0 .. MaxLoopTime + 1, ReplyToHookCall(c, d)
        PROVE  QuietInv'
    BY <1>7
    DEF ReplyToHookCall, NodeReceives, procVars, boundVars, TypeOK,
        QuietInv, Quiet, OneOperation, ProcessInv, InOperation
  <1>8. ASSUME NEW c \in Clients, NEW d \in 0 .. MaxLoopTime + 1, ReceiveResponse(c, d)
        PROVE  QuietInv'
    <2>1. /\ arwenToNode # <<>> /\ Len(arwenToNode) <= 1
          /\ nodeToArwen = <<>> /\ part = "open"
          /\ proc = "running" => loop = "receive" /\ arwenNonce = 0
      BY <1>8 DEF ReceiveResponse, NodeReceives, TurnsInv, Turns
    <2>2. Tail(arwenToNode) = <<>>
      BY <2>1, SingletonTail DEF TypeOK
    <2>3. proc = "exited" => loop = "off"
      BY DEF ProcessInv
    <2>4. /\ arwenToNode' = <<>> /\ nodeToArwen' = <<>> /\ nodeNonce' = 0
          /\ UNCHANGED <<part, procVars>>
      BY <1>8, <2>1, <2>2 DEF ReceiveResponse, NodeReceives
    <2>5. Len(<<>>) = 0
      OBVIOUS
    <2> QED
      BY <2>1, <2>3, <2>4, <2>5 DEF QuietInv, Quiet, procVars, TypeOK
  <1>9. ASSUME NEW c \in Clients, NEW d \in 0 .. MaxLoopTime + 1, ReceiveError(c, d)
        PROVE  QuietInv'
    BY <1>9
    DEF ReceiveError, NodeReceives, FailOperation, Goto, procVars, boundVars, TypeOK,
        QuietInv, Quiet, OneOperation, ProcessInv, InOperation
  <1>10. ASSUME NEW c \in Clients, ReceiveTimeout(c)
        PROVE  QuietInv'
    BY <1>10
    DEF ReceiveTimeout, FailOperation, Goto, driverVars, procVars, pipeVars, boundVars, TypeOK,
        QuietInv, Quiet, OneOperation, ProcessInv, InOperation
  <1>11. ASSUME NEW c \in Clients, CloseArwen(c)
        PROVE  QuietInv'
    BY <1>11
    DEF CloseArwen, Return, Goto, nodeVars, pipeVars, boundVars, TypeOK,
        QuietInv, Quiet, OneOperation, ProcessInv, InOperation
  <1>12. ASSUME ReceiveNodeRequest
        PROVE  QuietInv'
    <2> SUFFICES ASSUME \A c \in Clients : pc[c] \notin {"receive", "close"}
                 PROVE  Quiet'
      BY <1>12 DEF ReceiveNodeRequest, clientVars, QuietInv
    <2>1. Quiet /\ proc = "running" /\ loop = "receive" /\ nodeToArwen # <<>>
      BY <1>12 DEF ReceiveNodeRequest, QuietInv
    <2>2. Head(nodeToArwen).kind = Stop /\ Head(nodeToArwen).nonce = Inc(arwenNonce)
      BY <2>1, PipeRead, PipeRest DEF Quiet, TypeOK
    <2>3. ArwenLoopEnd(Head(nodeToArwen)) = "stop"
      BY <2>2 DEF ArwenLoopEnd
    <2>4. loop' = "off" /\ nodeToArwen' = Tail(nodeToArwen) /\ arwenToNode' = <<>>
      BY <1>12, <2>1, <2>3 DEF ReceiveNodeRequest, ArwenExits, Quiet
    <2>5. \A i \in 1 .. Len(nodeToArwen') : nodeToArwen'[i].kind = Stop
      BY <2>1, <2>4, PipeRest DEF Quiet, TypeOK
    <2> QED
      BY <2>4, <2>5 DEF Quiet
  <1>13. ASSUME NEW kind \in HookKinds, SendHookCallRequest(kind)
        PROVE  QuietInv'
    BY <1>13
    DEF SendHookCallRequest, clientVars, driverVars, nodeVars, boundVars, TypeOK,
        QuietInv, Quiet, OneOperation, ProcessInv, InOperation
  <1>14. ASSUME ReceiveHookCallResponse
        PROVE  QuietInv'
    BY <1>14
    DEF ReceiveHookCallResponse, clientVars, driverVars, nodeVars, boundVars, TypeOK,
        QuietInv, Quiet, OneOperation, ProcessInv, InOperation
  <1>15. ASSUME SendContractResponse
        PROVE  QuietInv'
    BY <1>15
    DEF SendContractResponse, clientVars, driverVars, nodeVars, boundVars, TypeOK,
        QuietInv, Quiet, OneOperation, ProcessInv, InOperation
  <1>16. ASSUME ArwenCrashes
        PROVE  QuietInv'
    BY <1>16
    DEF ArwenCrashes, ArwenExits, Fault, clientVars, driverVars, nodeVars, pipeVars, TypeOK,
        QuietInv, Quiet, OneOperation, ProcessInv, InOperation
  <1>17. ASSUME ArwenHangs
        PROVE  QuietInv'
    BY <1>17
    DEF ArwenHangs, Fault, clientVars, driverVars, nodeVars, pipeVars, TypeOK,
        QuietInv, Quiet, OneOperation, ProcessInv, InOperation
  <1>18. ASSUME SendStopSignal
        PROVE  QuietInv'
    <2> SUFFICES ASSUME \A c \in Clients : pc[c] \notin {"receive", "close"},
                        proc # "reaped"
                 PROVE  Quiet'
      BY <1>18 DEF SendStopSignal, clientVars, procVars, QuietInv, Quiet
    <2> DEFINE m == Message(Stop, Inc(nodeNonce), 0, 0)
    <2>1. Quiet
      BY DEF QuietInv
    <2>2. m \in MessageType /\ m.kind = Stop /\ m.nonce = Inc(nodeNonce)
      BY MessageTyped, IncType, KindFacts DEF TypeOK, Message
    <2>3. /\ nodeToArwen' = Append(nodeToArwen, m)
          /\ UNCHANGED <<part, proc, loop, arwenNonce, arwenToNode>>
      BY <1>18 DEF SendStopSignal, driverVars, procVars
    <2> HIDE DEF m
    <2>4. \A i \in 1 .. Len(nodeToArwen') : nodeToArwen'[i].kind = Stop
      BY <2>1, <2>2, <2>3, PipeWrite DEF Quiet, TypeOK
    <2>5. loop = "receive" => Head(nodeToArwen').nonce = Inc(0)
      BY <2>1, <2>2, <2>3, PipeWrite DEF Quiet, TypeOK
    <2>6. nodeToArwen' # <<>>
      BY <2>2, <2>3, PipeWrite DEF TypeOK
    <2> QED
      BY <2>1, <2>3, <2>4, <2>5, <2>6 DEF Quiet
  <1>19. ASSUME ExternalClose
        PROVE  QuietInv'
    BY <1>19
    DEF ExternalClose, Fault, clientVars, driverVars, nodeVars, pipeVars, TypeOK,
        QuietInv, Quiet, OneOperation, ProcessInv, InOperation
  <1>20. CASE UNCHANGED vars
    BY <1>20 DEF vars, QuietInv, Quiet, OneOperation, ProcessInv, InOperation
  <1> QED
    BY <1>1, <1>2, <1>3, <1>4, <1>5, <1>6, <1>7, <1>8, <1>9, <1>10,
       <1>11, <1>12, <1>13, <1>14, <1>15, <1>16, <1>17, <1>18, <1>19, <1>20
    DEF Next, ClientStep, ArwenStep, Environment

(* Node and Arwen take turns, and number their messages alike.             *)
LEMMA TurnsStep == TypeOK /\ DialogueInv /\ [Next]_vars => TurnsInv'
  <1> SUFFICES ASSUME TypeOK, DialogueInv, [Next]_vars PROVE TurnsInv'
    OBVIOUS
  <1> USE IPCAssumption DEF DialogueInv
  <1>1. ASSUME NEW c \in Clients, NEW kind \in NodeRequest, Invoke(c, kind)
        PROVE  TurnsInv'
    BY <1>1
    DEF Invoke, Goto, driverVars, nodeVars, procVars, pipeVars, TypeOK,
        TurnsInv, Turns, OneOperation, ProcessInv, InOperation
  <1>2. ASSUME NEW c \in Clients, LockOperations(c)
        PROVE  TurnsInv'
    BY <1>2
    DEF LockOperations, Goto, nodeVars, procVars, pipeVars, boundVars, TypeOK,
        TurnsInv, Turns, OneOperation, ProcessInv, InOperation
  <1>3. ASSUME NEW c \in Clients, RestartArwenIfNecessary(c)
        PROVE  TurnsInv'
    BY <1>3
    DEF RestartArwenIfNecessary, IsClosed, Return, Goto, nodeVars, procVars, pipeVars, boundVars, TypeOK,
        TurnsInv, Turns, OneOperation, ProcessInv, InOperation
  <1>4. ASSUME NEW c \in Clients, StartArwen(c)
        PROVE  TurnsInv'
    BY <1>4
    DEF StartArwen, LaunchArwen, ResetPipeStreams, Goto, boundVars, TypeOK,
        TurnsInv, Turns, OneOperation, ProcessInv, InOperation
  <1>5. ASSUME NEW c \in Clients, NEW step \in StartFailures, StartArwenFails(c, step)
        PROVE  TurnsInv'
    BY <1>5
    DEF StartArwenFails, LaunchArwen, ResetPipeStreams, Return, Goto, Fault, TypeOK,
        TurnsInv, Turns, OneOperation, ProcessInv, InOperation
  <1>6. ASSUME NEW c \in Clients, SendContractRequest(c)
        PROVE  TurnsInv'
    <2> SUFFICES ASSUME part = "open", pc' = [pc EXCEPT ![c] = "receive"]
                 PROVE  TurnsInv'
      BY <1>6 DEF SendContractRequest, FailOperation, Goto, TypeOK, TurnsInv,
                  OneOperation, InOperation
    <2> DEFINE m == Message(request[c].kind, Inc(nodeNonce), request[c].id, 0)
    <2>1. \A other \in Clients : pc'[other] = "receive" => other = c
      BY <1>6 DEF SendContractRequest, TypeOK, OneOperation, InOperation
    <2>2. Quiet
      BY <1>6 DEF SendContractRequest, QuietInv, OneOperation, InOperation
    <2>3. /\ m \in MessageType /\ m.nonce = Inc(nodeNonce)
          /\ m.kind = request[c].kind /\ m.id = request[c].id /\ m.kind # Stop
      BY MessageTyped, IncType, KindFacts DEF TypeOK, Message
    <2>4. /\ nodeToArwen' = Append(nodeToArwen, m)
          /\ nodeNonce' = Inc(nodeNonce)
          /\ UNCHANGED <<request, driverVars, procVars, arwenToNode>>
      BY <1>6 DEF SendContractRequest
    <2> HIDE DEF m
    <2>5. CASE proc = "running"
      <3>1. loop = "receive" /\ arwenToNode = <<>> /\ arwenNonce = 0
        BY <2>2, <2>5 DEF Quiet, ProcessInv
      <3>2. CASE nodeToArwen = <<>>
        <4>1. nodeNonce = 0 /\ Len(nodeToArwen') = 1 /\ Head(nodeToArwen') = m
          BY <2>2, <2>3, <2>4, <2>5, <3>1, <3>2, PipeWrite DEF Quiet, TypeOK
        <4>2. nodeToArwen' # <<>>
          BY <2>3, <2>4, PipeWrite DEF TypeOK
        <4> QED
          BY <2>1, <2>3, <2>4, <2>5, <3>1, <4>1, <4>2
          DEF TurnsInv, Turns, driverVars, procVars
      <3>3. CASE nodeToArwen # <<>>
        <4>1. Head(nodeToArwen).kind = Stop /\ Head(nodeToArwen).nonce = Inc(0)
          BY <2>2, <2>5, <3>1, <3>3, PipeRead, PipeRest DEF Quiet, TypeOK
        <4>2. nodeToArwen' # <<>> /\ Head(nodeToArwen') = Head(nodeToArwen)
          BY <2>3, <2>4, <3>3, PipeWrite DEF TypeOK
        <4> QED
          BY <2>1, <2>4, <2>5, <3>1, <4>1, <4>2
          DEF TurnsInv, Turns, driverVars, procVars
      <3> QED BY <3>2, <3>3
    <2>6. CASE proc = "exited"
      BY <2>1, <2>2, <2>4, <2>6 DEF Quiet, TurnsInv, Turns, driverVars, procVars
    <2>7. CASE proc = "reaped"
      <3>1. arwenToNode = <<>>
        BY <1>6 DEF SendContractRequest, SendInv
      <3> QED
        BY <2>1, <2>4, <2>7, <3>1 DEF TurnsInv, Turns, driverVars, procVars
    <2> QED BY <2>5, <2>6, <2>7 DEF TypeOK
  <1>7. ASSUME NEW c \in Clients, NEW d \in 0 .. MaxLoopTime + 1, ReplyToHookCall(c, d)
        PROVE  TurnsInv'
    <2> DEFINE m == Head(arwenToNode)
               kind == IF m.kind \in HookRequest
                       THEN m.kind + 1 ELSE UndefinedRequestOrResponse
               reply == Message(kind, Inc(m.nonce), m.id, 0)
    <2>1. /\ arwenToNode # <<>> /\ Len(arwenToNode) <= 1 /\ nodeToArwen = <<>>
          /\ pc[c] = "receive" /\ part = "open" /\ IsHookCall(m.kind)
      BY <1>7 DEF ReplyToHookCall, NodeReceives, TurnsInv, Turns
    <2>2. m \in MessageType /\ Tail(arwenToNode) = <<>>
      BY <2>1, SingletonTail DEF TypeOK
    <2>3. ~EndsDialogue(m.kind)
      BY <2>1, <2>2, KindFacts DEF MessageType
    <2>4. proc = "running" =>
             loop = "hook" /\ arwenNonce = m.nonce /\ current = request[c]
             /\ (arwenGas = gasSchedule \/ current.kind = GasScheduleChangeRequest)
      BY <1>7, <2>1, <2>3 DEF TurnsInv, Turns
    <2>5. reply \in MessageType /\ reply.nonce = Inc(m.nonce)
      BY <2>2, MessageTyped, IncType, KindFacts DEF MessageType, Message
    <2>6. /\ arwenToNode' = <<>> /\ nodeNonce' = Inc(m.nonce)
          /\ nodeToArwen' = Append(nodeToArwen, reply)
          /\ UNCHANGED <<pc, request, gasSchedule, part, procVars>>
      BY <1>7, <2>2 DEF ReplyToHookCall, NodeReceives
    <2> HIDE DEF m, kind, reply
    <2>7. Len(nodeToArwen') = 1 /\ Head(nodeToArwen') = reply
      BY <2>1, <2>5, <2>6, PipeWrite DEF TypeOK
    <2>8. \A other \in Clients : pc'[other] = "receive" => other = c
      BY <2>1, <2>6 DEF OneOperation, InOperation
    <2>9. Len(<<>>) = 0
      OBVIOUS
    <2> QED
      BY <2>1, <2>4, <2>5, <2>6, <2>7, <2>8, <2>9 DEF TurnsInv, Turns, procVars
  <1>8. ASSUME NEW c \in Clients, NEW d \in 0 .. MaxLoopTime + 1, ReceiveResponse(c, d)
        PROVE  TurnsInv'
    BY <1>8
    DEF ReceiveResponse, NodeReceives, Return, Goto, procVars, boundVars, TypeOK,
        TurnsInv, Turns, OneOperation, ProcessInv, InOperation
  <1>9. ASSUME NEW c \in Clients, NEW d \in 0 .. MaxLoopTime + 1, ReceiveError(c, d)
        PROVE  TurnsInv'
    BY <1>9
    DEF ReceiveError, NodeReceives, FailOperation, Goto, procVars, boundVars, TypeOK,
        TurnsInv, Turns, OneOperation, ProcessInv, InOperation
  <1>10. ASSUME NEW c \in Clients, ReceiveTimeout(c)
        PROVE  TurnsInv'
    BY <1>10
    DEF ReceiveTimeout, FailOperation, Goto, driverVars, procVars, pipeVars, boundVars, TypeOK,
        TurnsInv, Turns, OneOperation, ProcessInv, InOperation
  <1>11. ASSUME NEW c \in Clients, CloseArwen(c)
        PROVE  TurnsInv'
    BY <1>11
    DEF CloseArwen, Return, Goto, nodeVars, pipeVars, boundVars, TypeOK,
        TurnsInv, Turns, OneOperation, ProcessInv, InOperation
  <1>12. ASSUME ReceiveNodeRequest
        PROVE  TurnsInv'
    <2> SUFFICES ASSUME NEW c \in Clients, pc[c] = "receive"
                 PROVE  Turns(c)'
      BY <1>12 DEF ReceiveNodeRequest, clientVars, TurnsInv
    <2> DEFINE m == Head(nodeToArwen)
    <2>1. /\ Turns(c) /\ proc = "running" /\ loop = "receive"
          /\ nodeToArwen # <<>>
          /\ nodeToArwen' = Tail(nodeToArwen)
          /\ UNCHANGED <<request, part, gasSchedule, nodeNonce, arwenGas,
                         arwenToNode>>
      BY <1>12 DEF ReceiveNodeRequest, clientVars, driverVars, nodeVars, TurnsInv
    <2>2. arwenToNode = <<>> /\ arwenNonce = 0 /\ m.nonce = Inc(0)
      BY <2>1 DEF Turns
    <2>3. CASE ArwenLoopEnd(m) # "none"
      BY <1>12, <2>1, <2>2, <2>3
      DEF ReceiveNodeRequest, ArwenExits, Turns
    <2>4. CASE ArwenLoopEnd(m) = "none"
      <3>1. m.kind # Stop
        BY <2>4 DEF ArwenLoopEnd
      <3>2. /\ Len(nodeToArwen) = 1 /\ nodeNonce = Inc(0)
            /\ m.kind = request[c].kind /\ m.id = request[c].id
        BY <2>1, <2>2, <3>1 DEF Turns
      <3>3. Tail(nodeToArwen) = <<>>
        <4>1. nodeToArwen \in Seq(MessageType) /\ Len(nodeToArwen) <= 1
          BY <3>2 DEF TypeOK
        <4> QED BY <2>1, <4>1, SingletonTail
      <3>4. /\ loop' = "work" /\ arwenNonce' = m.nonce /\ proc' = proc
            /\ current' = [kind |-> m.kind, id |-> m.id]
        BY <1>12, <2>4 DEF ReceiveNodeRequest
      <3>5. current' = request[c]
        BY <3>2, <3>4 DEF TypeOK
      <3>6. arwenGas = gasSchedule \/ request[c].kind = GasScheduleChangeRequest
        BY <2>1 DEF GasInv, OneOperation, InOperation
      <3> QED
        BY <2>1, <2>2, <3>2, <3>3, <3>4, <3>5, <3>6 DEF Turns
    <2> QED BY <2>3, <2>4
  <1>13. ASSUME NEW kind \in HookKinds, SendHookCallRequest(kind)
        PROVE  TurnsInv'
    <2> SUFFICES ASSUME NEW c \in Clients, pc[c] = "receive"
                 PROVE  Turns(c)'
      BY <1>13 DEF SendHookCallRequest, clientVars, TurnsInv
    <2> DEFINE m == Message(kind, Inc(arwenNonce), current.id, 0)
    <2>1. /\ Turns(c) /\ proc = "running" /\ loop = "work"
          /\ loop' = "hook" /\ arwenNonce' = Inc(arwenNonce)
          /\ arwenToNode' = Append(arwenToNode, m)
          /\ UNCHANGED <<request, part, gasSchedule, nodeNonce, arwenGas,
                         current, proc, nodeToArwen>>
      BY <1>13 DEF SendHookCallRequest, clientVars, driverVars, nodeVars, TurnsInv
    <2>2. /\ m \in MessageType /\ m.nonce = Inc(arwenNonce)
          /\ m.kind = kind /\ m.id = current.id
      BY MessageTyped, IncType, KindFacts DEF TypeOK, Message
    <2>3. ~EndsDialogue(m.kind)
      BY <2>2, KindFacts
    <2> HIDE DEF m
    <2>4. arwenToNode = <<>> /\ nodeToArwen = <<>> /\ arwenNonce = nodeNonce
      BY <2>1 DEF Turns
    <2>5. /\ Len(arwenToNode') = 1 /\ Head(arwenToNode') = m
          /\ arwenToNode' # <<>>
      BY <2>1, <2>2, <2>4, PipeWrite DEF TypeOK
    <2> QED
      BY <2>1, <2>2, <2>3, <2>4, <2>5 DEF Turns
  <1>14. ASSUME ReceiveHookCallResponse
        PROVE  TurnsInv'
    BY <1>14
    DEF ReceiveHookCallResponse, clientVars, driverVars, nodeVars, boundVars, TypeOK,
        TurnsInv, Turns, OneOperation, ProcessInv, InOperation
  <1>15. ASSUME SendContractResponse
        PROVE  TurnsInv'
    <2> SUFFICES ASSUME NEW c \in Clients, pc[c] = "receive"
                 PROVE  Turns(c)'
      BY <1>15 DEF SendContractResponse, clientVars, TurnsInv
    <2> DEFINE m == Message(ResponseKind(current.kind), Inc(arwenNonce),
                            current.id, arwenGas')
    <2>1. /\ Turns(c) /\ proc = "running" /\ loop = "work"
          /\ loop' = "receive" /\ arwenNonce' = 0
          /\ arwenToNode' = Append(arwenToNode, m)
          /\ UNCHANGED <<request, part, gasSchedule, nodeNonce, current, proc,
                         nodeToArwen>>
      BY <1>15 DEF SendContractResponse, clientVars, driverVars, nodeVars, TurnsInv
    <2>2. /\ arwenToNode = <<>> /\ nodeToArwen = <<>> /\ arwenNonce = nodeNonce
          /\ current = request[c]
          /\ arwenGas = gasSchedule \/ current.kind = GasScheduleChangeRequest
      BY <2>1 DEF Turns
    <2>3. arwenGas' = gasSchedule /\ arwenGas' \in Nat
      BY <1>15, <2>2 DEF SendContractResponse, GasInv, InOperation, TypeOK
    <2>4. /\ current.kind \in NodeRequest
          /\ EndsDialogue(ResponseKind(current.kind))
          /\ ResponseKind(current.kind) \in MessageKind
      BY <2>2, KindFacts DEF TypeOK
    <2>5. /\ m \in MessageType /\ m.nonce = Inc(arwenNonce)
          /\ m.kind = ResponseKind(current.kind) /\ m.id = current.id
          /\ m.gas = arwenGas'
      BY <2>3, <2>4, MessageTyped, IncType DEF TypeOK, Message
    <2> HIDE DEF m
    <2>6. /\ Len(arwenToNode') = 1 /\ Head(arwenToNode') = m
          /\ arwenToNode' # <<>>
      BY <2>1, <2>2, <2>5, PipeWrite DEF TypeOK
    <2> QED
      BY <2>1, <2>2, <2>3, <2>4, <2>5, <2>6 DEF Turns
  <1>16. ASSUME ArwenCrashes
        PROVE  TurnsInv'
    BY <1>16
    DEF ArwenCrashes, ArwenExits, Fault, clientVars, driverVars, nodeVars, pipeVars, TypeOK,
        TurnsInv, Turns, OneOperation, ProcessInv, InOperation
  <1>17. ASSUME ArwenHangs
        PROVE  TurnsInv'
    BY <1>17
    DEF ArwenHangs, Fault, clientVars, driverVars, nodeVars, pipeVars, TypeOK,
        TurnsInv, Turns, OneOperation, ProcessInv, InOperation
  <1>18. ASSUME SendStopSignal
        PROVE  TurnsInv'
    BY <1>18
    DEF SendStopSignal, Fault, clientVars, driverVars, procVars, TypeOK,
        TurnsInv, Turns, OneOperation, ProcessInv, InOperation
  <1>19. ASSUME ExternalClose
        PROVE  TurnsInv'
    BY <1>19
    DEF ExternalClose, Fault, clientVars, driverVars, nodeVars, pipeVars, TypeOK,
        TurnsInv, Turns, OneOperation, ProcessInv, InOperation
  <1>20. CASE UNCHANGED vars
    BY <1>20 DEF vars, TurnsInv, Turns, OneOperation, ProcessInv, InOperation
  <1> QED
    BY <1>1, <1>2, <1>3, <1>4, <1>5, <1>6, <1>7, <1>8, <1>9, <1>10,
       <1>11, <1>12, <1>13, <1>14, <1>15, <1>16, <1>17, <1>18, <1>19, <1>20
    DEF Next, ClientStep, ArwenStep, Environment

(* A request is sent on an empty line, even if Arwen was closed just before.*)
LEMMA SendStep == TypeOK /\ DialogueInv /\ [Next]_vars => SendInv'
  <1> SUFFICES ASSUME TypeOK, DialogueInv, [Next]_vars PROVE SendInv'
    OBVIOUS
  <1> USE IPCAssumption DEF DialogueInv
  <1>1. ASSUME NEW c \in Clients, NEW kind \in NodeRequest, Invoke(c, kind)
        PROVE  SendInv'
    BY <1>1
    DEF Invoke, Goto, driverVars, nodeVars, procVars, pipeVars, TypeOK,
        SendInv, Quiet, QuietInv, OneOperation, ProcessInv, InOperation, IsClosed
  <1>2. ASSUME NEW c \in Clients, LockOperations(c)
        PROVE  SendInv'
    BY <1>2
    DEF LockOperations, Goto, nodeVars, procVars, pipeVars, boundVars, TypeOK,
        SendInv, Quiet, QuietInv, OneOperation, ProcessInv, InOperation, IsClosed
  <1>3. ASSUME NEW c \in Clients, RestartArwenIfNecessary(c)
        PROVE  SendInv'
    BY <1>3
    DEF RestartArwenIfNecessary, IsClosed, Return, Goto, nodeVars, procVars, pipeVars, boundVars, TypeOK,
        SendInv, Quiet, QuietInv, OneOperation, ProcessInv, InOperation, IsClosed
  <1>4. ASSUME NEW c \in Clients, StartArwen(c)
        PROVE  SendInv'
    BY <1>4
    DEF StartArwen, LaunchArwen, ResetPipeStreams, Goto, boundVars, TypeOK,
        SendInv, Quiet, QuietInv, OneOperation, ProcessInv, InOperation, IsClosed
  <1>5. ASSUME NEW c \in Clients, NEW step \in StartFailures, StartArwenFails(c, step)
        PROVE  SendInv'
    BY <1>5
    DEF StartArwenFails, LaunchArwen, ResetPipeStreams, Return, Goto, Fault, TypeOK,
        SendInv, Quiet, QuietInv, OneOperation, ProcessInv, InOperation, IsClosed
  <1>6. ASSUME NEW c \in Clients, SendContractRequest(c)
        PROVE  SendInv'
    BY <1>6
    DEF SendContractRequest, FailOperation, Goto, driverVars, procVars, boundVars, TypeOK,
        SendInv, Quiet, QuietInv, OneOperation, ProcessInv, InOperation, IsClosed
  <1>7. ASSUME NEW c \in Clients, NEW d \in 0 .. MaxLoopTime + 1, ReplyToHookCall(c, d)
        PROVE  SendInv'
    BY <1>7
    DEF ReplyToHookCall, NodeReceives, procVars, boundVars, TypeOK,
        SendInv, Quiet, QuietInv, OneOperation, ProcessInv, InOperation, IsClosed
  <1>8. ASSUME NEW c \in Clients, NEW d \in 0 .. MaxLoopTime + 1, ReceiveResponse(c, d)
        PROVE  SendInv'
    BY <1>8
    DEF ReceiveResponse, NodeReceives, Return, Goto, procVars, boundVars, TypeOK,
        SendInv, Quiet, QuietInv, OneOperation, ProcessInv, InOperation, IsClosed
  <1>9. ASSUME NEW c \in Clients, NEW d \in 0 .. MaxLoopTime + 1, ReceiveError(c, d)
        PROVE  SendInv'
    BY <1>9
    DEF ReceiveError, NodeReceives, FailOperation, Goto, procVars, boundVars, TypeOK,
        SendInv, Quiet, QuietInv, OneOperation, ProcessInv, InOperation, IsClosed
  <1>10. ASSUME NEW c \in Clients, ReceiveTimeout(c)
        PROVE  SendInv'
    BY <1>10
    DEF ReceiveTimeout, FailOperation, Goto, driverVars, procVars, pipeVars, boundVars, TypeOK,
        SendInv, Quiet, QuietInv, OneOperation, ProcessInv, InOperation, IsClosed
  <1>11. ASSUME NEW c \in Clients, CloseArwen(c)
        PROVE  SendInv'
    BY <1>11
    DEF CloseArwen, Return, Goto, nodeVars, pipeVars, boundVars, TypeOK,
        SendInv, Quiet, QuietInv, OneOperation, ProcessInv, InOperation, IsClosed
  <1>12. ASSUME ReceiveNodeRequest
        PROVE  SendInv'
    BY <1>12
    DEF ReceiveNodeRequest, ArwenExits, clientVars, driverVars, nodeVars, boundVars, TypeOK,
        SendInv, Quiet, QuietInv, OneOperation, ProcessInv, InOperation, IsClosed
  <1>13. ASSUME NEW kind \in HookKinds, SendHookCallRequest(kind)
        PROVE  SendInv'
    BY <1>13
    DEF SendHookCallRequest, clientVars, driverVars, nodeVars, boundVars, TypeOK,
        SendInv, Quiet, QuietInv, OneOperation, ProcessInv, InOperation, IsClosed
  <1>14. ASSUME ReceiveHookCallResponse
        PROVE  SendInv'
    BY <1>14
    DEF ReceiveHookCallResponse, clientVars, driverVars, nodeVars, boundVars, TypeOK,
        SendInv, Quiet, QuietInv, OneOperation, ProcessInv, InOperation, IsClosed
  <1>15. ASSUME SendContractResponse
        PROVE  SendInv'
    BY <1>15
    DEF SendContractResponse, clientVars, driverVars, nodeVars, boundVars, TypeOK,
        SendInv, Quiet, QuietInv, OneOperation, ProcessInv, InOperation, IsClosed
  <1>16. ASSUME ArwenCrashes
        PROVE  SendInv'
    BY <1>16
    DEF ArwenCrashes, ArwenExits, Fault, clientVars, driverVars, nodeVars, pipeVars, TypeOK,
        SendInv, Quiet, QuietInv, OneOperation, ProcessInv, InOperation, IsClosed
  <1>17. ASSUME ArwenHangs
        PROVE  SendInv'
    BY <1>17
    DEF ArwenHangs, Fault, clientVars, driverVars, nodeVars, pipeVars, TypeOK,
        SendInv, Quiet, QuietInv, OneOperation, ProcessInv, InOperation, IsClosed
  <1>18. ASSUME SendStopSignal
        PROVE  SendInv'
    BY <1>18
    DEF SendStopSignal, Fault, clientVars, driverVars, procVars, TypeOK,
        SendInv, Quiet, QuietInv, OneOperation, ProcessInv, InOperation, IsClosed
  <1>19. ASSUME ExternalClose
        PROVE  SendInv'
    BY <1>19
    DEF ExternalClose, Fault, clientVars, driverVars, nodeVars, pipeVars, TypeOK,
        SendInv, Quiet, QuietInv, OneOperation, ProcessInv, InOperation, IsClosed
  <1>20. CASE UNCHANGED vars
    BY <1>20 DEF vars, SendInv, Quiet, QuietInv, OneOperation, ProcessInv, InOperation, IsClosed
  <1> QED
    BY <1>1, <1>2, <1>3, <1>4, <1>5, <1>6, <1>7, <1>8, <1>9, <1>10,
       <1>11, <1>12, <1>13, <1>14, <1>15, <1>16, <1>17, <1>18, <1>19, <1>20
    DEF Next, ClientStep, ArwenStep, Environment

(* Arwen reads only messages that are its turn to read.                    *)
LEMMA ArwenTurnStep == TypeOK /\ DialogueInv /\ [Next]_vars => ArwenTurnInv'
  <1> SUFFICES ASSUME TypeOK, DialogueInv, [Next]_vars PROVE ArwenTurnInv'
    OBVIOUS
  <1> USE IPCAssumption DEF DialogueInv
  <1>1. ASSUME NEW c \in Clients, NEW kind \in NodeRequest, Invoke(c, kind)
        PROVE  ArwenTurnInv'
    BY <1>1
    DEF Invoke, Goto, driverVars, nodeVars, procVars, pipeVars, TypeOK,
        ArwenTurnInv
  <1>2. ASSUME NEW c \in Clients, LockOperations(c)
        PROVE  ArwenTurnInv'
    BY <1>2
    DEF LockOperations, Goto, nodeVars, procVars, pipeVars, boundVars, TypeOK,
        ArwenTurnInv
  <1>3. ASSUME NEW c \in Clients, RestartArwenIfNecessary(c)
        PROVE  ArwenTurnInv'
    BY <1>3
    DEF RestartArwenIfNecessary, IsClosed, Return, Goto, nodeVars, procVars, pipeVars, boundVars, TypeOK,
        ArwenTurnInv
  <1>4. ASSUME NEW c \in Clients, StartArwen(c)
        PROVE  ArwenTurnInv'
    BY <1>4
    DEF StartArwen, LaunchArwen, ResetPipeStreams, Goto, boundVars, TypeOK,
        ArwenTurnInv
  <1>5. ASSUME NEW c \in Clients, NEW step \in StartFailures, StartArwenFails(c, step)
        PROVE  ArwenTurnInv'
    BY <1>5
    DEF StartArwenFails, LaunchArwen, ResetPipeStreams, Return, Goto, Fault, TypeOK,
        ArwenTurnInv
  <1>6. ASSUME NEW c \in Clients, SendContractRequest(c)
        PROVE  ArwenTurnInv'
    <2>1. pc'[c] = "receive" => Turns(c)'
      BY TurnsStep DEF TurnsInv
    <2>2. CASE pc'[c] = "receive"
      BY <2>1, <2>2 DEF Turns, ArwenTurnInv
    <2>3. CASE pc'[c] # "receive"
      BY <1>6, <2>3
      DEF SendContractRequest, FailOperation, Goto, procVars, TypeOK,
          ArwenTurnInv
    <2> QED BY <2>2, <2>3
  <1>7. ASSUME NEW c \in Clients, NEW d \in 0 .. MaxLoopTime + 1, ReplyToHookCall(c, d)
        PROVE  ArwenTurnInv'
    <2>1. pc'[c] = "receive" => Turns(c)'
      BY TurnsStep DEF TurnsInv
    <2>2. CASE pc'[c] = "receive"
      BY <2>1, <2>2 DEF Turns, ArwenTurnInv
    <2>3. CASE pc'[c] # "receive"
      BY <1>7, <2>3
      DEF ReplyToHookCall, NodeReceives, TypeOK
    <2> QED BY <2>2, <2>3
  <1>8. ASSUME NEW c \in Clients, NEW d \in 0 .. MaxLoopTime + 1, ReceiveResponse(c, d)
        PROVE  ArwenTurnInv'
    BY <1>8
    DEF ReceiveResponse, NodeReceives, Return, Goto, procVars, boundVars, TypeOK,
        ArwenTurnInv
  <1>9. ASSUME NEW c \in Clients, NEW d \in 0 .. MaxLoopTime + 1, ReceiveError(c, d)
        PROVE  ArwenTurnInv'
    BY <1>9
    DEF ReceiveError, NodeReceives, FailOperation, Goto, procVars, boundVars, TypeOK,
        ArwenTurnInv
  <1>10. ASSUME NEW c \in Clients, ReceiveTimeout(c)
        PROVE  ArwenTurnInv'
    BY <1>10
    DEF ReceiveTimeout, FailOperation, Goto, driverVars, procVars, pipeVars, boundVars, TypeOK,
        ArwenTurnInv
  <1>11. ASSUME NEW c \in Clients, CloseArwen(c)
        PROVE  ArwenTurnInv'
    BY <1>11
    DEF CloseArwen, Return, Goto, nodeVars, pipeVars, boundVars, TypeOK,
        ArwenTurnInv
  <1>12. ASSUME ReceiveNodeRequest
        PROVE  ArwenTurnInv'
    <2>1. CASE ArwenLoopEnd(Head(nodeToArwen)) # "none"
      BY <1>12, <2>1 DEF ReceiveNodeRequest, ArwenExits, ArwenTurnInv
    <2>2. CASE ArwenLoopEnd(Head(nodeToArwen)) = "none"
      <3>1. Head(nodeToArwen).kind # Stop
        BY <2>2 DEF ArwenLoopEnd
      <3>2. nodeToArwen # <<>> /\ Len(nodeToArwen) <= 1
        BY <1>12, <3>1 DEF ReceiveNodeRequest, ArwenTurnInv
      <3>3. Tail(nodeToArwen) = <<>>
        BY <3>2, SingletonTail DEF TypeOK
      <3> QED
        BY <1>12, <2>2, <3>3 DEF ReceiveNodeRequest, ArwenTurnInv
    <2> QED BY <2>1, <2>2
  <1>13. ASSUME NEW kind \in HookKinds, SendHookCallRequest(kind)
        PROVE  ArwenTurnInv'
    BY <1>13
    DEF SendHookCallRequest, clientVars, driverVars, nodeVars, boundVars, TypeOK,
        ArwenTurnInv
  <1>14. ASSUME ReceiveHookCallResponse
        PROVE  ArwenTurnInv'
    <2>1. nodeToArwen # <<>> /\ Len(nodeToArwen) <= 1
      BY <1>14 DEF ReceiveHookCallResponse, ArwenTurnInv
    <2>2. Tail(nodeToArwen) = <<>>
      BY <2>1, SingletonTail DEF TypeOK
    <2> QED
      BY <1>14, <2>2 DEF ReceiveHookCallResponse, ArwenTurnInv
  <1>15. ASSUME SendContractResponse
        PROVE  ArwenTurnInv'
    BY <1>15
    DEF SendContractResponse, clientVars, driverVars, nodeVars, boundVars, TypeOK,
        ArwenTurnInv
  <1>16. ASSUME ArwenCrashes
        PROVE  ArwenTurnInv'
    BY <1>16
    DEF ArwenCrashes, ArwenExits, Fault, clientVars, driverVars, nodeVars, pipeVars, TypeOK,
        ArwenTurnInv
  <1>17. ASSUME ArwenHangs
        PROVE  ArwenTurnInv'
    BY <1>17
    DEF ArwenHangs, Fault, clientVars, driverVars, nodeVars, pipeVars, TypeOK,
        ArwenTurnInv
  <1>18. ASSUME SendStopSignal
        PROVE  ArwenTurnInv'
    <2>1. QuietInv'
      BY QuietStep
    <2>2. \A c \in Clients : pc'[c] \notin {"receive", "close"}
      BY <1>18 DEF SendStopSignal, clientVars, OneOperation, InOperation
    <2>3. Quiet' /\ nodeToArwen' \in Seq(MessageType)
      BY <2>1, <2>2, NextType DEF QuietInv, TypeOK
    <2>4. proc' = "running" /\ nodeToArwen' # <<>> => Head(nodeToArwen').kind = Stop
      BY <2>3, PipeRead, PipeRest DEF Quiet
    <2> QED
      BY <2>3, <2>4 DEF Quiet, ArwenTurnInv
  <1>19. ASSUME ExternalClose
        PROVE  ArwenTurnInv'
    BY <1>19
    DEF ExternalClose, Fault, clientVars, driverVars, nodeVars, pipeVars, TypeOK,
        ArwenTurnInv
  <1>20. CASE UNCHANGED vars
    BY <1>20 DEF vars, ArwenTurnInv
  <1> QED
    BY <1>1, <1>2, <1>3, <1>4, <1>5, <1>6, <1>7, <1>8, <1>9, <1>10,
       <1>11, <1>12, <1>13, <1>14, <1>15, <1>16, <1>17, <1>18, <1>19, <1>20
    DEF Next, ClientStep, ArwenStep, Environment

(* DialogueInv is inductive.                                               *)
LEMMA DialogueStep == TypeOK /\ DialogueInv /\ [Next]_vars => DialogueInv'
  BY OneOperationStep, ProcessStep, SendStep, TurnsStep, QuietStep, GasStep,
     ArwenTurnStep
  DEF DialogueInv

(* The protocol invariant holds when NewArwenDriver has returned. *)
LEMMA DialogueInit == Init => DialogueInv
  <1> SUFFICES ASSUME Init PROVE DialogueInv
    OBVIOUS
  <1> USE IPCAssumption
  <1>1. OneOperation /\ ProcessInv /\ SendInv /\ TurnsInv /\ GasInv
        /\ ArwenTurnInv
    BY DEF Init, OneOperation, ProcessInv, SendInv, TurnsInv, GasInv,
           ArwenTurnInv, InOperation
  <1>2. QuietInv
    <2>1. Len(<<>>) = 0
      OBVIOUS
    <2> QED BY <2>1 DEF Init, QuietInv, Quiet
  <1> QED BY <1>1, <1>2 DEF DialogueInv

(* The dialogues follow the protocol in every reachable state, for any     *)
(* interleaving of clients, Arwen, crashes, timeouts and closes.           *)
THEOREM DialogueCorrect == Spec => []DialogueInv
  <1>1. Init => TypeOK /\ DialogueInv
    BY InitType, DialogueInit
  <1>2. TypeOK /\ DialogueInv /\ [Next]_vars => (TypeOK /\ DialogueInv)'
    BY NextType, DialogueStep
  <1> QED
    BY <1>1, <1>2, PTL DEF Spec

(* Nothing of one operation is left for the next.                          *)
THEOREM LeftoverFree == Spec => []NoLeftovers
  <1>1. TypeOK /\ DialogueInv => NoLeftovers
    BY IPCAssumption
    DEF TypeOK, DialogueInv, OneOperation, InOperation, QuietInv, Quiet, NoLeftovers
  <1> QED
    BY <1>1, TypeCorrect, DialogueCorrect, PTL

(* Operations return the response to their own request.                    *)
THEOREM OwnResponseCorrect == Spec => []OwnResponse
  <1> USE IPCAssumption
  <1>1. Init => OwnResponse
    BY DEF Init, OwnResponse, NoOutcome, Outcome
  <1>2. TypeOK /\ DialogueInv /\ OwnResponse /\ [Next]_vars => OwnResponse'
    <2> SUFFICES ASSUME TypeOK, DialogueInv, OwnResponse, [Next]_vars
                 PROVE  OwnResponse'
      OBVIOUS
    <2>1. ASSUME NEW c \in Clients, NEW kind \in NodeRequest, Invoke(c, kind)
          PROVE  OwnResponse'
      BY <2>1 DEF Invoke, OwnResponse, NoOutcome, Outcome, TypeOK
    <2>2. ASSUME NEW c \in Clients, NEW d \in 0 .. MaxLoopTime + 1,
                 ReceiveResponse(c, d)
          PROVE  OwnResponse'
      <3> DEFINE m == Head(arwenToNode)
      <3>1. m.id = request[c].id /\ m.kind = ResponseKind(request[c].kind)
        BY <2>2 DEF ReceiveResponse, NodeReceives, DialogueInv, TurnsInv, Turns
      <3>2. /\ outcome' = [outcome EXCEPT ![c] = Outcome("nil", m.kind, m.id, m.gas)]
            /\ request' = request
        BY <2>2 DEF ReceiveResponse, NodeReceives, Return
      <3> HIDE DEF m
      <3> QED
        BY <3>1, <3>2 DEF OwnResponse, Outcome, TypeOK
    <2>3. ASSUME NEW c \in Clients, NEW err \in Errors \ {"nil"},
                 outcome' = [outcome EXCEPT ![c] = Outcome(err, 0, 0, 0)],
                 request' = request
          PROVE  OwnResponse'
      BY <2>3 DEF OwnResponse, Outcome, TypeOK
    <2>4. ASSUME outcome' = outcome, request' = request
          PROVE  OwnResponse'
      BY <2>4 DEF OwnResponse
    <2>5. ASSUME NEW c \in Clients, ClientStep(c)
          PROVE  OwnResponse'
      <3>1. CASE LockOperations(c) \/ StartArwen(c)
        BY <2>4, <3>1 DEF LockOperations, StartArwen
      <3>2. CASE RestartArwenIfNecessary(c) \/ CloseArwen(c)
        <4>1. outcome' = outcome /\ request' = request
          BY <3>2 DEF RestartArwenIfNecessary, CloseArwen, Return, TypeOK
        <4> QED BY <2>4, <4>1
      <3>3. CASE \E step \in StartFailures : StartArwenFails(c, step)
        BY <2>3, <3>3 DEF StartArwenFails, Return, Errors
      <3>4. CASE SendContractRequest(c)
        BY <2>3, <2>4, <3>4 DEF SendContractRequest, FailOperation, Errors
      <3>5. CASE ReceiveTimeout(c)
        BY <2>3, <3>5 DEF ReceiveTimeout, FailOperation, Errors
      <3>6. ASSUME NEW d \in 0 .. MaxLoopTime + 1, ReceiveError(c, d)
            PROVE  OwnResponse'
        <4>1. DoLoopError(Head(arwenToNode), d) \in Errors \ {"nil"}
          BY <3>6 DEF ReceiveError, DoLoopError, Errors
        <4> QED
          BY <2>3, <3>6, <4>1 DEF ReceiveError, NodeReceives, FailOperation
      <3>7. ASSUME NEW d \in 0 .. MaxLoopTime + 1, ReplyToHookCall(c, d)
            PROVE  OwnResponse'
        BY <2>4, <3>7 DEF ReplyToHookCall, NodeReceives
      <3> QED
        BY <2>2, <2>5, <3>1, <3>2, <3>3, <3>4, <3>5, <3>6, <3>7 DEF ClientStep
    <2>6. ASSUME ArwenStep \/ Environment
          PROVE  OwnResponse'
      <3>1. outcome' = outcome /\ request' = request
        BY <2>6
        DEF ArwenStep, Environment, ReceiveNodeRequest, SendHookCallRequest,
            ReceiveHookCallResponse, SendContractResponse, ArwenCrashes,
            ArwenHangs, SendStopSignal, ExternalClose, clientVars
      <3> QED BY <2>4, <3>1
    <2>7. CASE UNCHANGED vars
      BY <2>4, <2>7 DEF vars
    <2> QED
      BY <2>1, <2>5, <2>6, <2>7 DEF Next
  <1> QED
    BY <1>1, <1>2, TypeCorrect, DialogueCorrect, PTL DEF Spec

(* No message is ever read out of turn: the nonce check of                 *)
(* Messenger.Receive never fails on either side.                           *)
THEOREM NonceSafetyNetCorrect == Spec => []NonceSafetyNet
  <1> DEFINE NoNonceError ==
               /\ \A c \in Clients : outcome[c].err # "ErrInvalidMessageNonce"
               /\ exitCause # "nonce"
  <1> USE IPCAssumption
  <1>1. Init => NoNonceError
    BY DEF Init, NoOutcome, Outcome
  <1>2. TypeOK /\ DialogueInv /\ NoNonceError /\ [Next]_vars => NoNonceError'
    <2> SUFFICES ASSUME TypeOK, DialogueInv, NoNonceError, [Next]_vars
                 PROVE  NoNonceError'
      OBVIOUS
    <2> DEFINE Harmless(e) == e # "ErrInvalidMessageNonce"
    <2>1. ASSUME NEW c \in Clients, NEW e, Harmless(e), NEW k, NEW i, NEW g,
                 outcome' = [outcome EXCEPT ![c] = Outcome(e, k, i, g)],
                 exitCause' \in {exitCause, "none"}
          PROVE  NoNonceError'
      BY <2>1 DEF TypeOK, Outcome
    <2>2. ASSUME outcome' = outcome, exitCause' # "nonce"
          PROVE  NoNonceError'
      BY <2>2
    <2>3. exitCause # "nonce"
      OBVIOUS
    <2> HIDE DEF NoNonceError
    <2>4. ASSUME NEW c \in Clients, NEW kind \in NodeRequest, Invoke(c, kind)
          PROVE  NoNonceError'
      BY <2>1, <2>4 DEF Invoke, NoOutcome, procVars
    <2>5. ASSUME NEW c \in Clients, ClientStep(c)
          PROVE  NoNonceError'
      <3>1. CASE LockOperations(c) \/ StartArwen(c)
        BY <2>2, <2>3, <3>1 DEF LockOperations, StartArwen, LaunchArwen, procVars
      <3>2. CASE RestartArwenIfNecessary(c) \/ CloseArwen(c)
        <4>1. outcome' = outcome
          BY <3>2 DEF RestartArwenIfNecessary, CloseArwen, Return, TypeOK
        <4>2. exitCause' = exitCause
          BY <3>2 DEF RestartArwenIfNecessary, CloseArwen, procVars
        <4> QED BY <2>2, <2>3, <4>1, <4>2
      <3>3. ASSUME NEW step \in StartFailures, StartArwenFails(c, step)
            PROVE  NoNonceError'
        <4>1. exitCause' \in {exitCause, "none"}
          BY <3>3 DEF StartArwenFails, LaunchArwen
        <4>2. outcome' = [outcome EXCEPT ![c] = Outcome("start", 0, 0, 0)]
          BY <3>3 DEF StartArwenFails, Return
        <4> QED
          BY <2>1, <4>1, <4>2
      <3>4. CASE SendContractRequest(c)
        BY <2>1, <2>2, <2>3, <3>4
        DEF SendContractRequest, FailOperation, procVars
      <3>5. CASE ReceiveTimeout(c)
        BY <2>1, <3>5 DEF ReceiveTimeout, FailOperation, procVars
      <3>6. ASSUME NEW d \in 0 .. MaxLoopTime + 1, ReceiveError(c, d)
            PROVE  NoNonceError'
        <4> DEFINE err == DoLoopError(Head(arwenToNode), d)
        <4>1. Head(arwenToNode).nonce = Inc(nodeNonce)
          BY <3>6 DEF ReceiveError, NodeReceives, DialogueInv, TurnsInv, Turns
        <4>2. Harmless(err)
          BY <4>1 DEF DoLoopError
        <4>3. /\ outcome' = [outcome EXCEPT ![c] = Outcome(err, 0, 0, 0)]
              /\ exitCause' = exitCause
          BY <3>6 DEF ReceiveError, NodeReceives, FailOperation, procVars
        <4> HIDE DEF err
        <4> QED
          BY <2>1, <4>2, <4>3
      <3>7. ASSUME NEW d \in 0 .. MaxLoopTime + 1,
                   ReplyToHookCall(c, d) \/ ReceiveResponse(c, d)
            PROVE  NoNonceError'
        <4> DEFINE m == Head(arwenToNode)
        <4>1. exitCause' = exitCause
          BY <3>7 DEF ReplyToHookCall, ReceiveResponse, NodeReceives, procVars
        <4>2. \/ outcome' = outcome
              \/ outcome' = [outcome EXCEPT ![c] = Outcome("nil", m.kind, m.id, m.gas)]
          BY <3>7 DEF ReplyToHookCall, ReceiveResponse, Return
        <4> HIDE DEF m
        <4> QED
          BY <2>1, <2>2, <2>3, <4>1, <4>2
      <3> QED
        BY <2>5, <3>1, <3>2, <3>3, <3>4, <3>5, <3>6, <3>7 DEF ClientStep
    <2>6. CASE ReceiveNodeRequest
      <3>1. Head(nodeToArwen).nonce = Inc(arwenNonce)
        BY <2>6 DEF ReceiveNodeRequest, DialogueInv, ArwenTurnInv
      <3>2. ArwenLoopEnd(Head(nodeToArwen)) # "nonce"
        BY <3>1 DEF ArwenLoopEnd
      <3>3. exitCause' # "nonce"
        BY <2>3, <2>6, <3>2 DEF ReceiveNodeRequest, ArwenExits
      <3> QED
        BY <2>2, <2>6, <3>3 DEF ReceiveNodeRequest, clientVars
    <2>7. CASE \/ \E kind \in HookKinds : SendHookCallRequest(kind)
               \/ ReceiveHookCallResponse
               \/ SendContractResponse
      BY <2>2, <2>3, <2>7
      DEF SendHookCallRequest, ReceiveHookCallResponse, SendContractResponse,
          clientVars
    <2>8. CASE Environment
      BY <2>2, <2>3, <2>8
      DEF Environment, ArwenCrashes, ArwenExits, ArwenHangs, SendStopSignal,
          ExternalClose, clientVars, procVars
    <2>9. CASE UNCHANGED vars
      BY <2>2, <2>3, <2>9 DEF vars
    <2> QED
      BY <2>4, <2>5, <2>6, <2>7, <2>8, <2>9 DEF Next, ArwenStep
  <1>3. DialogueInv /\ NoNonceError => NonceSafetyNet
    BY DEF DialogueInv, ArwenTurnInv, NonceSafetyNet
  <1> HIDE DEF NoNonceError
  <1> QED
    BY <1>1, <1>2, <1>3, TypeCorrect, DialogueCorrect, PTL DEF Spec

(* What an operation returns was computed under the schedule of the last   *)
(* GasScheduleChange.                                                      *)
THEOREM ScheduleCorrect == Spec => ResponseUsesSchedule
  <1> DEFINE A == \A c \in Clients : pc[c] = "receive" /\ pc'[c] = "idle" =>
                     outcome'[c].gas = gasSchedule
  <1> USE IPCAssumption
  <1>1. TypeOK /\ DialogueInv /\ [Next]_vars => A
    <2> SUFFICES ASSUME TypeOK, DialogueInv, [Next]_vars, NEW c \in Clients,
                        pc[c] = "receive", pc'[c] = "idle"
                 PROVE  outcome'[c].gas = gasSchedule
      OBVIOUS
    <2>1. PICK d \in 0 .. MaxLoopTime + 1 : ReceiveResponse(c, d)
      <3>1. ASSUME NEW b \in Clients, NEW kind \in NodeRequest, Invoke(b, kind)
            PROVE  FALSE
        BY <3>1 DEF Invoke, Goto, TypeOK
      <3>2. ASSUME NEW b \in Clients, ClientStep(b),
                   ~\E d \in 0 .. MaxLoopTime + 1 : ReceiveResponse(c, d)
            PROVE  FALSE
        <4>1. b = c
          BY <3>2
          DEF ClientStep, LockOperations, RestartArwenIfNecessary, StartArwen,
              StartArwenFails, SendContractRequest, ReplyToHookCall,
              ReceiveResponse, ReceiveError, NodeReceives, ReceiveTimeout,
              CloseArwen, Return, FailOperation, Goto, TypeOK
        <4> QED
          BY <3>2, <4>1
          DEF ClientStep, LockOperations, RestartArwenIfNecessary, StartArwen,
              StartArwenFails, SendContractRequest, ReplyToHookCall,
              ReceiveError, NodeReceives, ReceiveTimeout, CloseArwen,
              FailOperation, Goto, TypeOK
      <3>3. ASSUME ArwenStep \/ Environment \/ UNCHANGED vars
            PROVE  FALSE
        BY <3>3
        DEF ArwenStep, Environment, ReceiveNodeRequest, SendHookCallRequest,
            ReceiveHookCallResponse, SendContractResponse, ArwenCrashes,
            ArwenHangs, SendStopSignal, ExternalClose, clientVars, vars
      <3> QED
        BY <3>1, <3>2, <3>3 DEF Next
    <2>2. Head(arwenToNode).gas = gasSchedule
      BY <2>1 DEF ReceiveResponse, NodeReceives, DialogueInv, TurnsInv, Turns
    <2> QED
      BY <2>1, <2>2 DEF ReceiveResponse, Return, Outcome, TypeOK
  <1> QED
    BY <1>1, TypeCorrect, DialogueCorrect, PTL DEF Spec, ResponseUsesSchedule

-----------------------------------------------------------------------------
(* Refinement.                                                             *)

(* An operation has no outcome before it ends, and one that is about to    *)
(* close Arwen has an error.                                               *)
OutcomeInv ==
    \A c \in Clients :
        /\ pc[c] \in {"lock", "check", "start", "send", "receive"} =>
              outcome[c] = NoOutcome
        /\ pc[c] = "close" => outcome[c].err # "nil"

(* The outcome of a client stays with where it is in its operation.        *)
LEMMA OutcomeStep ==
    TypeOK /\ OutcomeInv /\ [Next]_vars => OutcomeInv'
  <1> SUFFICES ASSUME TypeOK, OutcomeInv, [Next]_vars, NEW b \in Clients
               PROVE  /\ pc'[b] \in {"lock", "check", "start", "send", "receive"} =>
                            outcome'[b] = NoOutcome
                      /\ pc'[b] = "close" => outcome'[b].err # "nil"
    BY DEF OutcomeInv, NoOutcome, Outcome
  <1> USE DEF TypeOK, OutcomeInv, Goto
  <1>1. ASSUME NEW c \in Clients, NEW kind \in NodeRequest, Invoke(c, kind)
        PROVE  /\ pc'[b] \in {"lock", "check", "start", "send", "receive"} =>
                     outcome'[b] = NoOutcome
               /\ pc'[b] = "close" => outcome'[b].err # "nil"
    BY <1>1 DEF Invoke
  <1>2. ASSUME NEW c \in Clients, ClientStep(c)
        PROVE  /\ pc'[b] \in {"lock", "check", "start", "send", "receive"} =>
                     outcome'[b] = NoOutcome
               /\ pc'[b] = "close" => outcome'[b].err # "nil"
    <2>1. CASE LockOperations(c)
      BY <2>1 DEF LockOperations
    <2>2. CASE RestartArwenIfNecessary(c)
      BY <2>2 DEF RestartArwenIfNecessary, Return
    <2>3. CASE StartArwen(c)
      BY <2>3 DEF StartArwen
    <2>4. ASSUME NEW step \in StartFailures, StartArwenFails(c, step)
          PROVE  /\ pc'[b] \in {"lock", "check", "start", "send", "receive"} =>
                       outcome'[b] = NoOutcome
                 /\ pc'[b] = "close" => outcome'[b].err # "nil"
      BY <2>4 DEF StartArwenFails, Return
    <2>5. CASE SendContractRequest(c)
      BY <2>5 DEF SendContractRequest, FailOperation, Outcome
    <2>6. ASSUME NEW d \in 0 .. MaxLoopTime + 1,
                 \/ ReplyToHookCall(c, d)
                 \/ ReceiveResponse(c, d)
                 \/ ReceiveError(c, d)
          PROVE  /\ pc'[b] \in {"lock", "check", "start", "send", "receive"} =>
                       outcome'[b] = NoOutcome
                 /\ pc'[b] = "close" => outcome'[b].err # "nil"
      BY <2>6 DEF ReplyToHookCall, ReceiveResponse, ReceiveError, NodeReceives,
                  Return, FailOperation, Outcome
    <2>7. CASE ReceiveTimeout(c)
      BY <2>7 DEF ReceiveTimeout, FailOperation, Outcome
    <2>8. CASE CloseArwen(c)
      BY <2>8 DEF CloseArwen, Return
    <2> QED
      BY <1>2, <2>1, <2>2, <2>3, <2>4, <2>5, <2>6, <2>7, <2>8 DEF ClientStep
  <1>3. CASE ArwenStep \/ Environment \/ UNCHANGED vars
    <2>1. UNCHANGED <<pc, outcome>>
      BY <1>3 DEF ArwenStep, Environment, ReceiveNodeRequest, SendHookCallRequest,
             ReceiveHookCallResponse, SendContractResponse, ArwenCrashes,
             ArwenHangs, SendStopSignal, ExternalClose, clientVars, vars
    <2> QED  BY <2>1
  <1> QED
    BY <1>1, <1>2, <1>3 DEF Next

(* What a step that only concerns client c does to the mapped state.       *)
LEMMA ServiceFrame ==
    ASSUME NEW c \in Clients,
           \A b \in Clients \ {c} : pc'[b] = pc[b] /\ outcome'[b] = outcome[b]
    PROVE  /\ phases' = [phases EXCEPT ![c] = PhaseOf(c)']
           /\ answers' = [answers EXCEPT ![c] = AnswerOf(c)']
           /\ \A b \in Clients : phases[b] = PhaseOf(b)
  BY DEF phases, answers, PhaseOf, AnswerOf

(* A step that leaves each client's phase and answer alone is a stutter.   *)
LEMMA ServiceStutter ==
    ASSUME NEW c \in Clients,
           \A b \in Clients \ {c} : pc'[b] = pc[b] /\ outcome'[b] = outcome[b],
           PhaseOf(c)' = PhaseOf(c), AnswerOf(c)' = AnswerOf(c),
           UNCHANGED <<request, gasSchedule, ops>>
    PROVE  UNCHANGED Service!serviceVars
  <1>1. phases' = phases /\ answers' = answers
    BY DEF phases, answers, PhaseOf, AnswerOf
  <1> QED
    BY <1>1 DEF Service!serviceVars

(* The driver starts where the service does.                               *)
LEMMA ServiceInitial == Init => Service!ServiceInit
  <1> SUFFICES ASSUME Init PROVE Service!ServiceInit
    OBVIOUS
  <1>1. phases = [c \in Clients |-> "idle"]
    BY DEF Init, phases, PhaseOf
  <1>2. answers = [c \in Clients |-> Service!NoAnswer]
    BY DEF Init, answers, AnswerOf, NoOutcome, Outcome, Service!NoAnswer
  <1> QED
    BY <1>1, <1>2 DEF Init, Service!ServiceInit, VersionRequest, Service!VersionRequest

(* Every error of the driver is a critical error of the service.           *)
LEMMA CriticalAnswer == Outcome("critical", 0, 0, 0) = Service!CriticalError
  <1>1. Service!CriticalError = [err |-> "critical", kind |-> 0, id |-> 0, gas |-> 0]
    BY DEF Service!CriticalError, Service!NoAnswer
  <1> QED  BY <1>1 DEF Outcome

(* Every step of the driver, the pipes or Arwen is a step of the service   *)
(* or changes nothing that the service shows.                              *)
LEMMA ServiceStep ==
    TypeOK /\ TypeOK' /\ DialogueInv /\ OutcomeInv /\ [Next]_vars =>
        [Service!ServiceNext]_(Service!serviceVars)
  <1> SUFFICES ASSUME TypeOK, TypeOK', DialogueInv, OutcomeInv, [Next]_vars
               PROVE  [Service!ServiceNext]_(Service!serviceVars)
    OBVIOUS
  <1> DEFINE Frame(c) ==
        \A b \in Clients \ {c} : pc'[b] = pc[b] /\ outcome'[b] = outcome[b]
  <1>1. ASSUME NEW c \in Clients, NEW kind \in NodeRequest, Invoke(c, kind)
        PROVE  Service!Ask(c)
    <2>1. PhaseOf(c) = "idle" /\ PhaseOf(c)' = "waiting" /\ AnswerOf(c)' = Service!NoAnswer
      BY <1>1 DEF Invoke, Goto, TypeOK, PhaseOf, AnswerOf, NoOutcome, Outcome,
             Service!NoAnswer
    <2>2. Frame(c)
      BY <1>1 DEF Invoke, Goto, TypeOK
    <2>3. /\ ops' = ops + 1
          /\ request' = [request EXCEPT ![c] = [kind |-> kind, id |-> ops + 1]]
          /\ gasSchedule' = gasSchedule
      BY <1>1 DEF Invoke, driverVars
    <2>4. /\ phases' = [phases EXCEPT ![c] = "waiting"]
          /\ answers' = [answers EXCEPT ![c] = Service!NoAnswer]
          /\ phases[c] = "idle"
      BY <2>1, <2>2, ServiceFrame
    <2> QED
      BY <2>3, <2>4 DEF Service!Ask, NodeRequest, ContractRequest,
         ContractDeployRequest, ContractCallRequest, GasScheduleChangeRequest,
         DiagnoseWaitRequest, VersionRequest, Service!NodeRequest,
         Service!ContractRequest, Service!ContractDeployRequest,
         Service!ContractCallRequest, Service!GasScheduleChangeRequest,
         Service!DiagnoseWaitRequest, Service!VersionRequest
  <1>2. ASSUME NEW c \in Clients, LockOperations(c)
        PROVE  Service!Serve(c)
    <2>1. PhaseOf(c) = "waiting" /\ PhaseOf(c)' = "serving" /\ AnswerOf(c)' = AnswerOf(c)
      BY <1>2 DEF LockOperations, Goto, TypeOK, PhaseOf, AnswerOf
    <2>2. Frame(c)
      BY <1>2 DEF LockOperations, Goto, TypeOK
    <2>3. \A b \in Clients : PhaseOf(b) # "serving"
      BY <1>2, IPCAssumption
      DEF LockOperations, DialogueInv, OneOperation, InOperation, PhaseOf, TypeOK
    <2>4. answers' = answers
      BY <2>1, <2>2 DEF answers, AnswerOf
    <2>5. /\ phases' = [phases EXCEPT ![c] = "serving"]
          /\ phases[c] = "waiting"
          /\ \A b \in Clients : phases[b] # "serving"
      BY <2>1, <2>2, <2>3, ServiceFrame
    <2>6. /\ gasSchedule' = IF request[c].kind = GasScheduleChangeRequest
                            THEN request[c].id ELSE gasSchedule
          /\ UNCHANGED <<request, ops>>
      BY <1>2 DEF LockOperations, boundVars
    <2> QED
      BY <2>4, <2>5, <2>6 DEF Service!Serve, GasScheduleChangeRequest,
         Service!GasScheduleChangeRequest
  <1>3. ASSUME NEW c \in Clients, RestartArwenIfNecessary(c)
        PROVE  Service!Panic(c) \/ UNCHANGED Service!serviceVars
    <2>1. Frame(c) /\ UNCHANGED <<request, gasSchedule, ops, outcome>>
      BY <1>3 DEF RestartArwenIfNecessary, Return, Goto, TypeOK, boundVars
    <2>2. PhaseOf(c) = "serving" /\ AnswerOf(c)' = AnswerOf(c)
      BY <1>3, <2>1 DEF RestartArwenIfNecessary, Return, Goto, TypeOK, PhaseOf, AnswerOf
    <2>3. CASE PhaseOf(c)' = "panicked"
      <3>1. answers' = answers
        BY <2>1, <2>2 DEF answers, AnswerOf
      <3> QED
        BY <2>1, <2>2, <2>3, <3>1, ServiceFrame DEF Service!Panic
    <2>4. CASE PhaseOf(c)' = PhaseOf(c)
      BY <2>1, <2>2, <2>4, ServiceStutter
    <2> QED
      BY <1>3, <2>2, <2>3, <2>4 DEF RestartArwenIfNecessary, Return, Goto, TypeOK, PhaseOf
  <1>4. ASSUME NEW c \in Clients, NEW step \in StartFailures, StartArwenFails(c, step)
        PROVE  Service!Fail(c)
    <2>1. Frame(c) /\ UNCHANGED <<request, gasSchedule, ops>>
      BY <1>4 DEF StartArwenFails, Return, Goto, TypeOK
    <2>a. /\ pc[c] = "start" /\ pc'[c] = "idle"
          /\ outcome'[c].err # "nil"
      BY <1>4 DEF StartArwenFails, Return, Goto, TypeOK, Outcome
    <2>2. /\ PhaseOf(c) = "serving" /\ PhaseOf(c)' = "idle"
          /\ AnswerOf(c)' = Service!CriticalError
      BY <2>a, CriticalAnswer DEF PhaseOf, AnswerOf
    <2>3. /\ phases' = [phases EXCEPT ![c] = "idle"]
          /\ answers' = [answers EXCEPT ![c] = Service!CriticalError]
          /\ phases[c] = "serving"
      BY <2>1, <2>2, ServiceFrame
    <2> QED
      BY <2>1, <2>3 DEF Service!Fail
  <1>5. ASSUME NEW c \in Clients, CloseArwen(c)
        PROVE  Service!Fail(c)
    <2>1. Frame(c) /\ UNCHANGED <<request, gasSchedule, ops>>
      BY <1>5 DEF CloseArwen, Return, Goto, TypeOK, boundVars
    <2>a. /\ pc[c] = "close" /\ pc'[c] = "idle"
          /\ outcome'[c].err # "nil"
      BY <1>5 DEF CloseArwen, Return, Goto, TypeOK, OutcomeInv
    <2>2. /\ PhaseOf(c) = "serving" /\ PhaseOf(c)' = "idle"
          /\ AnswerOf(c)' = Service!CriticalError
      BY <2>a, CriticalAnswer DEF PhaseOf, AnswerOf
    <2>3. /\ phases' = [phases EXCEPT ![c] = "idle"]
          /\ answers' = [answers EXCEPT ![c] = Service!CriticalError]
          /\ phases[c] = "serving"
      BY <2>1, <2>2, ServiceFrame
    <2> QED
      BY <2>1, <2>3 DEF Service!Fail
  <1>6. ASSUME NEW c \in Clients, NEW d \in 0 .. MaxLoopTime + 1, ReceiveResponse(c, d)
        PROVE  Service!Answer(c)
    <2> DEFINE m == Head(arwenToNode)
    <2>1. Frame(c) /\ UNCHANGED <<request, gasSchedule, ops>>
      BY <1>6 DEF ReceiveResponse, NodeReceives, Return, Goto, TypeOK, boundVars
    <2>2. /\ m.kind = ResponseKind(request[c].kind)
          /\ m.id = request[c].id
          /\ m.gas = gasSchedule
      BY <1>6 DEF ReceiveResponse, NodeReceives, DialogueInv, TurnsInv, Turns
    <2>3. /\ PhaseOf(c) = "serving" /\ PhaseOf(c)' = "idle"
          /\ outcome'[c] = Outcome("nil", m.kind, m.id, m.gas)
          /\ pc'[c] = "idle"
      BY <1>6 DEF ReceiveResponse, NodeReceives, Return, Goto, TypeOK, PhaseOf
    <2>4. AnswerOf(c)' = [err |-> "nil", kind |-> ResponseKind(request[c].kind),
                          id |-> request[c].id, gas |-> gasSchedule]
      BY <2>2, <2>3 DEF AnswerOf, Outcome
    <2>5. /\ phases' = [phases EXCEPT ![c] = "idle"]
          /\ answers' = [answers EXCEPT ![c] =
                [err |-> "nil", kind |-> ResponseKind(request[c].kind),
                 id |-> request[c].id, gas |-> gasSchedule]]
          /\ phases[c] = "serving"
      BY <2>1, <2>3, <2>4, ServiceFrame
    <2>6. ResponseKind(request[c].kind) = Service!ResponseKind(request[c].kind)
      BY DEF ResponseKind, ContractRequest, ContractDeployRequest,
         ContractCallRequest, ContractResponse, Service!ResponseKind,
         Service!ContractRequest, Service!ContractDeployRequest,
         Service!ContractCallRequest, Service!ContractResponse
    <2> QED
      BY <2>1, <2>5, <2>6 DEF Service!Answer
  <1>7. ASSUME NEW c \in Clients,
               \/ StartArwen(c)
               \/ SendContractRequest(c)
               \/ \E d \in 0 .. MaxLoopTime + 1 : ReplyToHookCall(c, d) \/ ReceiveError(c, d)
               \/ ReceiveTimeout(c)
        PROVE  UNCHANGED Service!serviceVars
    <2>1. Frame(c) /\ UNCHANGED <<request, gasSchedule, ops>>
      BY <1>7 DEF StartArwen, SendContractRequest, ReplyToHookCall, ReceiveError,
             ReceiveTimeout, NodeReceives, FailOperation, Return, Goto, TypeOK,
             boundVars, driverVars
    <2>2. /\ pc[c] \in {"start", "send", "receive"}
          /\ \/ pc'[c] \in {"send", "receive"} /\ outcome'[c] = outcome[c]
             \/ pc'[c] = "close"
      BY <1>7 DEF StartArwen, SendContractRequest, ReplyToHookCall, ReceiveError,
             ReceiveTimeout, NodeReceives, FailOperation, Return, Goto, TypeOK
    <2>3. PhaseOf(c)' = PhaseOf(c) /\ AnswerOf(c)' = AnswerOf(c)
      BY <2>2 DEF PhaseOf, AnswerOf, OutcomeInv, NoOutcome, Outcome
    <2> QED
      BY <2>1, <2>3, ServiceStutter
  <1>8. CASE ArwenStep \/ Environment \/ UNCHANGED vars
    <2>1. UNCHANGED <<pc, outcome, request, gasSchedule, ops>>
      BY <1>8 DEF ArwenStep, Environment, ReceiveNodeRequest, SendHookCallRequest,
             ReceiveHookCallResponse, SendContractResponse, ArwenCrashes,
             ArwenHangs, SendStopSignal, ExternalClose, clientVars, driverVars,
             boundVars, vars
    <2>2. phases' = phases /\ answers' = answers
      BY <2>1 DEF phases, answers, PhaseOf, AnswerOf
    <2> QED
      BY <2>1, <2>2 DEF Service!serviceVars
  <1> QED
    BY <1>1, <1>2, <1>3, <1>4, <1>5, <1>6, <1>7, <1>8
    DEF Next, ClientStep, Service!ServiceNext

(* The driver, whatever Arwen and the pipes do and however often Arwen is  *)
(* restarted, implements the service: operations one at a time, each with  *)
(* its own output under the current gas schedule or a critical error.      *)
THEOREM Refinement == Spec => ImplementsService
  <1>1. Init => OutcomeInv
    BY DEF Init, OutcomeInv
  <1>2. Spec => []OutcomeInv
    BY <1>1, OutcomeStep, TypeCorrect, PTL DEF Spec
  <1> QED
    BY <1>2, ServiceInitial, ServiceStep, TypeCorrect, DialogueCorrect, PTL
    DEF Spec, ImplementsService, Service!ServiceSpec
=============================================================================
