------------------------- MODULE BlockchainGateway -------------------------
(***************************************************************************)
(* One contract execution in the Arwen process, seen from its blockchain    *)
(* context: every operation of the context is one or more calls of the      *)
(* Node's hook, which travel through the gateway (arwenpart), the pipes     *)
(* and the repliers of the Node (nodepart).  At the end the execution        *)
(* answers a VMOutput, which the Node accepts or not.                        *)
(*                                                                          *)
(* Messages may fail to be sent or to be read (a marshalizer's error); the   *)
(* gateway then answers an error or, where a method of the hook has none, a  *)
(* zero value, and the contract goes on.                                     *)
(*                                                                          *)
(* tainted, failed, increases and errors are auxiliary.                      *)
(***************************************************************************)
EXTENDS HookMessages, SerializableOutput, SequencesExt, FiniteSets

CONSTANTS
    NonceModulus,     \* 2^32 in the code
    ChainNonces,      \* the nonces the account may have in the Node; 0: no account
    Offsets,          \* the storage keys a contract writes
    MaxOperations,    \* bound: operations of the context in an execution
    MaxFailures,      \* bound: failures of the transport
    MaxErrors         \* bound: errors of the hook itself

ASSUME GatewayAssumption ==
    /\ NonceModulus \in Nat \ {0, 1} /\ ChainNonces \subseteq Nat
    /\ IsFiniteSet(Offsets)
    /\ {MaxOperations, MaxFailures, MaxErrors} \subseteq Nat
    /\ MaxFailures < NonceModulus   \* else the nonces could meet again

VARIABLES
    chainNonce,   \* the nonce the account has in the Node
    node,         \* the loop of the Node: serving, gaveUp or accepted
    nodeNonce, arwenNonce,
    toNode, toArwen,       \* the pipes
    loop,         \* the execution: running, waiting (for a response) or ended
    operation,    \* the operation of the context under way
    todo,         \* the hook calls it still has to make
    out,          \* the output account of the contract's own address
    result,       \* the VMOutput, as Arwen has it and as the Node has it
    operations,   \* operations so far
    tainted,      \* the contract got an answer the hook did not give
    failed,       \* the failures of the transport: sends and receives
    errors,       \* the errors of the hook
    increases     \* IncreaseNonce so far

wires == <<nodeNonce, arwenNonce, toNode, toArwen>>
program == <<loop, operation, todo, out, operations, increases>>
ghosts == <<tainted, failed, errors>>
gatewayVars == <<chainNonce, node, wires, program, result, ghosts>>

Inc(nonce) == (nonce + 1) % NonceModulus
Message(kind, nonce, content) == [kind |-> kind, nonce |-> nonce, content |-> content]

\* What a hook answers: a value (real, or the zero value of its type, which for an
\* account means that there is none) and an error.
Answer(value, err) == [value |-> value, err |-> err]
Zero == "zero"
Real == "real"

-----------------------------------------------------------------------------
(* The gateway: what its methods return when there is no response or one of *)
(* another kind, and when there is one.                                     *)

\* NewAddress .. GetBlockhash and, below, every method whose signature has an
\* error, pass the failure on.
FailsWithError ==
    LookupMessages \cup StateMessages
    \cup {ProcessBuiltInFunction, IsPayable, GetESDTToken, RevertToSnapshot}

\* LastNonce .. CurrentEpoch, the names of built-in functions, GetCode ..
\* IsSmartContract, the compiled codes and GetSnapshot answer a zero value.
FailedBlockCall == Answer(Zero, FALSE)
FailedCall(kind) ==
    IF kind \in FailsWithError THEN Answer(Zero, TRUE) ELSE FailedBlockCall

\* RevertToSnapshot returns the error of the transport in place of the hook's.
GatewayAnswer(kind, response) ==
    IF response.kind # kind + 1 THEN FailedCall(kind)
    ELSE IF kind = RevertToSnapshot THEN Answer(Real, FALSE)
    ELSE response.content

-----------------------------------------------------------------------------
(* The Node's hook and its repliers.  External: the account of the contract *)
(* is the one chainNonce says; the hook may fail.                           *)

HookAnswers(kind) ==
    {Answer(IF kind = GetUserAccount /\ chainNonce = 0 THEN Zero ELSE Real, FALSE)}
    \cup (IF errors < MaxErrors /\ kind \in CarriesError THEN {Answer(Zero, TRUE)} ELSE {})

\* replyTo...: the response has the kind after the request's.
ReplyTo(request, answer) == Message(request.kind + 1, Inc(request.nonce), answer)

NodeReads ==
    /\ node = "serving" /\ toNode # <<>>
    /\ toNode' = Tail(toNode)

NodeStops ==
    /\ node' = "gaveUp"
    /\ UNCHANGED <<nodeNonce, toArwen, result, errors>>

\* doLoop on the next message: a wrong nonce or an unexpected kind ends the
\* dialogue, a hook call is answered, the contract's response is accepted.
Refuses ==
    /\ NodeReads
    /\ LET m == Head(toNode)
       IN m.nonce # Inc(nodeNonce) \/ ~(IsHookCall(m.kind) \/ EndsDialogue(m.kind))
    /\ NodeStops
    /\ UNCHANGED <<arwenNonce, program, tainted, failed>>

ReplyToHookCall ==
    /\ NodeReads
    /\ LET m == Head(toNode) IN
       /\ m.nonce = Inc(nodeNonce) /\ IsHookCall(m.kind)
       /\ \E answer \in HookAnswers(m.kind) :
              /\ toArwen' = Append(toArwen, ReplyTo(m, answer))
              /\ errors' = errors + (IF answer.err THEN 1 ELSE 0)
       /\ nodeNonce' = Inc(m.nonce)
    /\ UNCHANGED <<node, arwenNonce, program, result, tainted, failed>>

\* The response to a hook call cannot be sent: the error ends the dialogue.
ReplyFails ==
    /\ NodeReads /\ IsHookCall(Head(toNode).kind)
    /\ NodeStops
    /\ UNCHANGED <<arwenNonce, program, tainted, failed>>

\* The driver converts the output of the response.
AcceptResponse ==
    /\ NodeReads
    /\ LET m == Head(toNode) IN
       /\ m.nonce = Inc(nodeNonce) /\ m.kind = ContractResponse
       /\ result' = [result EXCEPT !.node = ConvertToVMOutput(m.content)]
    /\ node' = "accepted"
    /\ UNCHANGED <<nodeNonce, arwenNonce, toArwen, program, ghosts>>

\* The time of the execution is up.
TimeExpires ==
    /\ node = "serving"
    /\ NodeStops
    /\ UNCHANGED <<arwenNonce, toNode, program, tainted, failed>>

-----------------------------------------------------------------------------
(* The operations of the blockchain context.                               *)

\* GetNonce asks the hook unless the output account has the nonce; a nonce of zero
\* is asked for again (ArwenV3).
ReadNonceOnlyWhenNew == ~out.known
readNonceFromBlockChain == ~out.known \/ out.nonce = 0
NonceCalls == IF readNonceFromBlockChain THEN <<GetUserAccount>> ELSE <<>>

\* The hook calls an operation makes when nothing fails.
Forwards == HookRequest
Context == {"NewAddress", "AccountExists", "GetBalanceBigInt", "GetNonce", "IncreaseNonce",
            "GetCodeHash", "GetCode", "GetCodeSize", "BlockHash", "GetOwnerAddress",
            "PushState", "PopSetActiveState"}
HookCalls ==
    [f \in Context |->
        CASE f = "NewAddress" -> NonceCalls \o <<IsSmartContract, NewAddress>>
          [] f \in {"GetNonce", "IncreaseNonce"} -> NonceCalls
          [] f \in {"AccountExists", "GetCodeHash", "GetOwnerAddress"} -> <<GetUserAccount>>
          [] f = "GetBalanceBigInt" -> IF out.balance THEN <<>> ELSE <<GetUserAccount>>
          [] f = "GetCode" -> IF out.code THEN <<>> ELSE <<GetUserAccount, GetCode>>
          [] f = "GetCodeSize" -> <<GetUserAccount, GetCode>>
          [] f = "BlockHash" -> <<GetBlockhash>>
          [] f = "PushState" -> <<GetSnapshot>>
          [] f = "PopSetActiveState" -> <<RevertToSnapshot>>]

\* Operations that look the account up in the output context, which adds it.
TouchesOutputAccount ==
    {"NewAddress", "GetBalanceBigInt", "GetNonce", "IncreaseNonce", "GetCode"}

\* Without an account most operations are over; NewAddress and the nonces go on
\* with a nonce of zero if there was no error.
GivesUp(f, kind, answer) ==
    /\ kind = GetUserAccount
    /\ answer.err \/ (answer.value = Zero /\ f \in {"GetCode", "GetCodeSize"})

\* What the answer to a call of the hook leaves in the output account.
Cached(f, kind, answer) ==
    [out EXCEPT
        !.nonce = IF kind = GetUserAccount /\ answer.value = Real
                     /\ f \in {"NewAddress", "GetNonce", "IncreaseNonce"}
                  THEN chainNonce ELSE @,
        !.balance = @ \/ (f = "GetBalanceBigInt" /\ answer.value = Real),
        !.code = @ \/ (f = "GetCode" /\ kind = GetCode /\ answer.value = Real)]

\* The end of an operation.  IncreaseNonce ignores the error of GetNonce.
IncreaseNonce(o) == [o EXCEPT !.nonce = @ + 1]
EndOperation(f, o) ==
    /\ operation' = "none"
    /\ todo' = <<>>
    /\ out' = IF f = "IncreaseNonce" THEN IncreaseNonce(o) ELSE o
    /\ increases' = increases + (IF f = "IncreaseNonce" THEN 1 ELSE 0)

\* The contract needs an operation of the context (or the bare call of a hook).
Begin(f, calls) ==
    /\ loop = "running" /\ operation = "none"
    /\ operations < MaxOperations
    /\ operations' = operations + 1
    /\ LET touched == [out EXCEPT !.known = @ \/ f \in TouchesOutputAccount]
       IN IF calls = <<>> THEN EndOperation(f, touched)
          ELSE /\ operation' = f /\ todo' = calls /\ out' = touched
               /\ UNCHANGED increases
    /\ UNCHANGED <<node, wires, loop, result, ghosts>>
\* BlockHash has no hash for a negative number, and asks nobody.
BeginOperation == \/ \E f \in Context : Begin(f, HookCalls[f])
                  \/ Begin("BlockHash", <<>>)
BeginForward == \E kind \in Forwards : Begin("forward", <<kind>>)

\* The contract writes one of its storage keys.
WriteStorage(offset) ==
    /\ loop = "running" /\ operation = "none"
    /\ offset \notin DOMAIN out.updates
    /\ out' = [out EXCEPT !.known = TRUE,
                          !.updates = [k \in DOMAIN @ \cup {offset} |->
                                          StorageUpdate(k, Real)]]
    /\ UNCHANGED <<node, wires, loop, operation, todo, operations, increases,
                   result, ghosts>>

\* The gateway has answered: the operation goes on, or is over.
Proceed(answer) ==
    LET kind == Head(todo)
        o == Cached(operation, kind, answer)
    IN /\ IF GivesUp(operation, kind, answer) \/ Tail(todo) = <<>>
          THEN EndOperation(operation, o)
          ELSE /\ todo' = Tail(todo) /\ out' = o
               /\ UNCHANGED <<operation, increases>>
       /\ UNCHANGED operations

-----------------------------------------------------------------------------
(* Messenger.Send and Receive on Arwen's side.  A nonce is used up by a     *)
(* send that fails; a message that cannot be read leaves the nonce alone.   *)

NonceAfterFailedSendUnused == arwenNonce
NonceAfterFailedSend == Inc(arwenNonce)

CallsHook == loop = "running" /\ operation # "none"
Fails(f) ==
    /\ failed.sends + failed.receives < MaxFailures
    /\ failed' = [failed EXCEPT ![f] = @ + 1]

SendHookCallRequest ==
    /\ CallsHook
    /\ arwenNonce' = Inc(arwenNonce)
    /\ toNode' = Append(toNode, Message(Head(todo), Inc(arwenNonce), Zero))
    /\ loop' = "waiting"
    /\ UNCHANGED <<node, nodeNonce, toArwen, operation, todo, out, operations, increases,
                   result, ghosts>>

SendFails ==
    /\ CallsHook
    /\ Fails("sends")
    /\ arwenNonce' = NonceAfterFailedSend
    /\ Proceed(FailedCall(Head(todo)))
    /\ tainted' = TRUE
    /\ UNCHANGED <<node, nodeNonce, toNode, toArwen, loop, result, errors>>

ReceiveHookCallResponse ==
    /\ loop = "waiting" /\ toArwen # <<>>
    /\ toArwen' = Tail(toArwen)
    /\ LET m == Head(toArwen)
           valid == m.nonce = Inc(arwenNonce)
           answer == IF valid THEN GatewayAnswer(Head(todo), m)
                     ELSE FailedCall(Head(todo))
       IN /\ arwenNonce' = IF valid THEN m.nonce ELSE arwenNonce
          /\ Proceed(answer)
          /\ tainted' = (tainted \/ answer # m.content)
    /\ loop' = "running"
    /\ UNCHANGED <<node, nodeNonce, toNode, result, failed, errors>>

ReceiveFails ==
    /\ loop = "waiting" /\ toArwen # <<>>
    /\ Fails("receives")
    /\ toArwen' = Tail(toArwen)
    /\ Proceed(FailedCall(Head(todo)))
    /\ loop' = "running"
    /\ tainted' = TRUE
    /\ UNCHANGED <<node, nodeNonce, arwenNonce, toNode, result, errors>>

\* The execution is over; its output crosses the pipe in some order.
OutputOf(o) ==
    VMOutput("Ok", IF o.known THEN [a \in {"self"} |-> OutputAccount(a, o.nonce, o.updates)]
                   ELSE EmptyMap)
SendContractResponse ==
    /\ loop = "running" /\ operation = "none"
    /\ loop' = "ended"
    /\ arwenNonce' = Inc(arwenNonce)
    /\ result' = [result EXCEPT !.arwen = OutputOf(out)]
    /\ \E addresses \in SetToSeqs(DOMAIN OutputOf(out).accounts),
          offsets \in SetToSeqs(DOMAIN out.updates) :
           toNode' = Append(toNode,
               Message(ContractResponse, Inc(arwenNonce),
                       NewSerializableVMOutput(OutputOf(out), addresses, offsets)))
    /\ UNCHANGED <<node, nodeNonce, toArwen, operation, todo, out, operations, increases,
                   ghosts>>

-----------------------------------------------------------------------------
NoResult == VMOutput("none", EmptyMap)

\* The Node has sent the request (nonce 1), Arwen has received it.
GatewayInit ==
    /\ chainNonce \in ChainNonces
    /\ node = "serving" /\ nodeNonce = 1 /\ arwenNonce = 1
    /\ toNode = <<>> /\ toArwen = <<>>
    /\ loop = "running" /\ operation = "none" /\ todo = <<>>
    /\ out = [known |-> FALSE, nonce |-> 0, balance |-> FALSE, code |-> FALSE,
              updates |-> EmptyMap]
    /\ result = [arwen |-> NoResult, node |-> NoResult]
    /\ operations = 0 /\ increases = 0
    /\ tainted = FALSE /\ failed = [sends |-> 0, receives |-> 0] /\ errors = 0

GatewayNext ==
    /\ \/ Refuses \/ ReplyToHookCall \/ ReplyFails \/ AcceptResponse \/ TimeExpires
       \/ BeginOperation \/ BeginForward \/ \E offset \in Offsets : WriteStorage(offset)
       \/ SendHookCallRequest \/ SendFails \/ ReceiveHookCallResponse \/ ReceiveFails
       \/ SendContractResponse
    /\ UNCHANGED chainNonce

GatewaySpec == GatewayInit /\ [][GatewayNext]_gatewayVars

-----------------------------------------------------------------------------
(* Properties.                                                             *)

\* The Node accepts no output of a contract that was given an answer the hook did
\* not give (an error or a zero value in its place): the dialogue nonces of the
\* two sides differ from then on.  Only a failed send and a failed receive
\* together could cancel out.
AcceptedIsGenuine ==
    node = "accepted" /\ tainted => failed.sends > 0 /\ failed.receives > 0

\* A nonce that the Node accepts counts every IncreaseNonce from the nonce the
\* account has, whatever the execution asked about the account before and whatever
\* was cached: no increase is lost and none starts from a nonce that was not read
\* (as long as the hook itself knew the account).
NoncesCounted ==
    node = "accepted" /\ ~tainted /\ errors = 0 /\ increases > 0
        => result.node.accounts["self"].nonce = chainNonce + increases

\* The Node gets the output that Arwen computed, account for account and storage
\* update for storage update, whatever the order in which they crossed the pipe.
OutputArrives == node = "accepted" => result.node = result.arwen
=============================================================================
