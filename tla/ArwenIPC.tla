------------------------------ MODULE ArwenIPC ------------------------------
(***************************************************************************)
(* The Node's ArwenDriver and NodePart, the Arwen process with its         *)
(* ArwenPart, and the two pipes between them.                              *)
(*                                                                         *)
(* Goroutines of the Node (Clients) call the driver's operations.  Each    *)
(* operation holds operationsMutex, restarts Arwen when it is closed,      *)
(* sends one request and runs a message loop (a dialogue) until Arwen's    *)
(* response, a timeout or an error; on an error it kills Arwen.  Arwen     *)
(* serves requests forever and calls back into the Node's blockchain hook  *)
(* in the middle of a contract execution.                                  *)
(***************************************************************************)
EXTENDS Messages, Sequences, Integers

CONSTANTS
    Clients,        \* goroutines of the Node that use the driver
    NoClient,       \* operationsMutex is not held
    MaxLoopTime,    \* config.MaxLoopTime, in milliseconds
    NonceModulus,   \* 2^32 in the code: the dialogue nonce is a uint32
    HookKinds,      \* hook calls that executed contracts make
    StartFailures,  \* the steps of startArwen that may fail
    MaxOps,         \* bound: operations invoked in a behaviour
    MaxHooks,       \* bound: hook calls of one contract execution
    MaxFaults       \* bound: crashes, hangs, stops, closes, failed starts

ASSUME IPCAssumption ==
    /\ NoClient \notin Clients
    /\ MaxLoopTime \in Nat \ {0}
    /\ NonceModulus \in Nat \ {0, 1}
    /\ HookKinds \subseteq HookRequest
    /\ StartFailures \subseteq {"path", "exec", "args", "logs"}
    /\ MaxOps \in Nat /\ MaxHooks \in Nat /\ MaxFaults \in Nat

VARIABLES
    pc,             \* where each client is in its driver operation
    request,        \* the request of each client's last operation
    outcome,        \* what that operation returned
    mutex,          \* operationsMutex
    gasSchedule,    \* driver.arwenArguments.GasSchedule
    command,        \* driver.command: did Start() give it a Process?
    part,           \* driver.part: are its pipes the current ones?
    nodeNonce,      \* the NodeMessenger's dialogue nonce
    remaining,      \* remainingMilliseconds of the Node's doLoop
    proc,           \* the Arwen process: running, exited (not reaped), reaped
    exitCause,      \* why the process ended by itself
    loop,           \* where ArwenPart.doLoop is
    arwenNonce,     \* the ArwenMessenger's dialogue nonce
    arwenGas,       \* the gas schedule of Arwen's VMHost
    current,        \* the request Arwen is serving
    hooks,          \* hook calls made for it so far
    nodeToArwen, arwenToNode,   \* the pipes
    ops, faults     \* how much of the bounds is used up

driverVars == <<mutex, gasSchedule, command, part>>
nodeVars   == <<nodeNonce, remaining>>
clientVars == <<pc, request, outcome>>
procVars   == <<proc, exitCause, loop, arwenNonce, arwenGas, current, hooks>>
pipeVars   == <<nodeToArwen, arwenToNode>>
boundVars  == <<ops, faults>>
vars == <<pc, request, outcome, mutex, gasSchedule, command, part,
          nodeNonce, remaining, proc, exitCause, loop, arwenNonce, arwenGas,
          current, hooks, nodeToArwen, arwenToNode, ops, faults>>

Nonces == 0 .. NonceModulus - 1
Inc(nonce) == (nonce + 1) % NonceModulus

(* An operation is identified by its number; a gas schedule by the number  *)
(* of the operation that installed it (0: the one Arwen was built with).   *)
(* "id" stands for the input of a request and the output computed from it, *)
(* "gas" for the schedule that output was computed under.                  *)
Message(kind, nonce, id, gas) ==
    [kind |-> kind, nonce |-> nonce, id |-> id, gas |-> gas]
MessageType == [kind : MessageKind, nonce : Nonces, id : Nat, gas : Nat]

Errors == {"nil", "ErrCannotSendContractRequest", "timeout", "start",
           "ErrInvalidMessageNonce", "ErrArwenTimeExpired",
           "ErrBadMessageFromArwen"}
Outcome(err, kind, id, gas) ==
    [err |-> err, kind |-> kind, id |-> id, gas |-> gas]
OutcomeType == [err : Errors, kind : MessageKind, id : Nat, gas : Nat]
NoOutcome == Outcome("nil", 0, 0, 0)

TypeOK ==
    /\ pc \in [Clients -> {"idle", "lock", "check", "start", "send",
                           "receive", "close", "panicked"}]
    /\ request \in [Clients -> [kind : NodeRequest, id : Nat]]
    /\ outcome \in [Clients -> OutcomeType]
    /\ mutex \in Clients \cup {NoClient}
    /\ gasSchedule \in Nat
    /\ command \in {"started", "unstarted"}
    /\ part \in {"open", "closed"}
    /\ nodeNonce \in Nonces
    /\ remaining \in 0 .. MaxLoopTime
    /\ proc \in {"running", "exited", "reaped"}
    /\ exitCause \in {"none", "stop", "nonce", "panic", "crash"}
    /\ loop \in {"args", "receive", "work", "hook", "hung", "off"}
    /\ arwenNonce \in Nonces
    /\ arwenGas \in Nat
    /\ current \in [kind : MessageKind, id : Nat]
    /\ hooks \in Nat
    /\ nodeToArwen \in Seq(MessageType)
    /\ arwenToNode \in Seq(MessageType)
    /\ ops \in Nat
    /\ faults \in Nat

(* NewArwenDriver has returned: the process runs and waits for a request.  *)
Init ==
    /\ pc = [c \in Clients |-> "idle"]
    /\ request = [c \in Clients |-> [kind |-> VersionRequest, id |-> 0]]
    /\ outcome = [c \in Clients |-> NoOutcome]
    /\ mutex = NoClient
    /\ gasSchedule = 0
    /\ command = "started"
    /\ part = "open"
    /\ nodeNonce = 0
    /\ remaining = 0
    /\ proc = "running"
    /\ exitCause = "none"
    /\ loop = "receive"
    /\ arwenNonce = 0
    /\ arwenGas = 0
    /\ current = [kind |-> VersionRequest, id |-> 0]
    /\ hooks = 0
    /\ nodeToArwen = <<>>
    /\ arwenToNode = <<>>
    /\ ops = 0
    /\ faults = 0

Goto(c, label) == pc' = [pc EXCEPT ![c] = label]

(* The deferred Unlock, with what the operation returns.                   *)
Return(c, label, result) ==
    /\ Goto(c, label)
    /\ outcome' = [outcome EXCEPT ![c] = result]
    /\ mutex' = NoClient

Fault == faults < MaxFaults /\ faults' = faults + 1

-----------------------------------------------------------------------------
(* The driver.                                                             *)

(* A goroutine enters GetVersion, GasScheduleChange, RunSmartContractCreate*)
(* or -Call, or DiagnoseWait.                                              *)
Invoke(c, kind) ==
    /\ pc[c] = "idle"
    /\ ops < MaxOps
    /\ ops' = ops + 1
    /\ request' = [request EXCEPT ![c] = [kind |-> kind, id |-> ops + 1]]
    /\ outcome' = [outcome EXCEPT ![c] = NoOutcome]
    /\ Goto(c, "lock")
    /\ UNCHANGED <<driverVars, nodeVars, procVars, pipeVars, faults>>

(* Mutant: an operation that forgets operationsMutex.                      *)
LockOperationsNoMutex(c) ==
    /\ pc[c] = "lock"
    /\ mutex' = c
    /\ gasSchedule' = IF request[c].kind = GasScheduleChangeRequest
                      THEN request[c].id ELSE gasSchedule
    /\ Goto(c, "check")
    /\ UNCHANGED <<request, outcome, command, part, nodeVars, procVars,
                   pipeVars, boundVars>>

(* operationsMutex.Lock().  GasScheduleChange stores the new schedule in   *)
(* the arguments first, so that a restart uses it.                         *)
LockOperations(c) ==
    /\ pc[c] = "lock"
    /\ mutex = NoClient
    /\ mutex' = c
    /\ gasSchedule' = IF request[c].kind = GasScheduleChangeRequest
                      THEN request[c].id ELSE gasSchedule
    /\ Goto(c, "check")
    /\ UNCHANGED <<request, outcome, command, part, nodeVars, procVars,
                   pipeVars, boundVars>>

(* Signal 0 reaches a process that has exited but was not waited for.      *)
IsClosed == proc = "reaped"

(* RestartArwenIfNecessary up to startArwen.  IsClosed reads               *)
(* driver.command.Process.Pid: a nil dereference when Start() failed.      *)
RestartArwenIfNecessary(c) ==
    /\ pc[c] = "check"
    /\ IF command = "unstarted"
       THEN Return(c, "panicked", outcome[c])
       ELSE /\ Goto(c, IF IsClosed THEN "start" ELSE "send")
            /\ UNCHANGED <<outcome, mutex>>
    /\ UNCHANGED <<request, gasSchedule, command, part, nodeVars,
                   procVars, pipeVars, boundVars>>

ResetPipeStreams == nodeToArwen' = <<>> /\ arwenToNode' = <<>>

(* Mutant: the new process gets the schedule of the old one.               *)
LaunchArwenOldSchedule ==
    /\ ResetPipeStreams
    /\ command' = "started" /\ part' = "open"
    /\ nodeNonce' = 0 /\ arwenNonce' = 0 /\ hooks' = 0
    /\ proc' = "running" /\ exitCause' = "none" /\ loop' = "receive"
    /\ UNCHANGED arwenGas

(* A new process received the driver's arguments; NewNodePart and          *)
(* ArwenPart.StartLoop begin with nonce 0.                                 *)
LaunchArwen ==
    /\ ResetPipeStreams
    /\ command' = "started"
    /\ part' = "open"
    /\ nodeNonce' = 0
    /\ proc' = "running"
    /\ exitCause' = "none"
    /\ loop' = "receive"
    /\ arwenNonce' = 0
    /\ arwenGas' = gasSchedule
    /\ hooks' = 0

StartArwen(c) ==
    /\ pc[c] = "start"
    /\ LaunchArwen
    /\ Goto(c, "send")
    /\ UNCHANGED <<request, outcome, mutex, gasSchedule, remaining, current,
                   boundVars>>

(* startArwen fails after it has replaced the pipes:                       *)
(*   path: the binary is not found, driver.command is the old one;         *)
(*   exec: driver.command is new and Start() fails;                        *)
(*   args: the process runs but never gets its arguments, driver.part      *)
(*         still holds the old, closed pipes;                              *)
(*   logs: everything is up except the loop that reads Arwen's logs.       *)
(* The operation returns a critical error; Arwen is not closed.            *)
StartArwenFails(c, step) ==
    /\ pc[c] = "start"
    /\ Fault
    /\ Return(c, "idle", Outcome("start", 0, 0, 0))
    /\ IF step = "logs"
       THEN LaunchArwen
       ELSE /\ ResetPipeStreams
            /\ part' = "closed"
            /\ command' = IF step = "exec" THEN "unstarted"
                          ELSE IF step = "args" THEN "started" ELSE command
            /\ proc' = IF step = "args" THEN "running" ELSE proc
            /\ loop' = IF step = "args" THEN "args" ELSE loop
            /\ UNCHANGED <<nodeNonce, exitCause, arwenNonce, arwenGas, hooks>>
    /\ UNCHANGED <<request, gasSchedule, remaining, current, ops>>

(* Mutant: the operation fails without stopping Arwen.                     *)
CloseArwenNoKill(c) ==
    /\ pc[c] = "close"
    /\ Return(c, "idle", outcome[c])
    /\ UNCHANGED <<request, gasSchedule, command, part, nodeVars, procVars,
                   pipeVars, boundVars>>

(* Close: the driver kills Arwen and waits for it; the operation returns   *)
(* the error wrapped as a critical one.  Kill's own error, when the process*)
(* is gone already, is ignored.                                            *)
CloseArwen(c) ==
    /\ pc[c] = "close"
    /\ proc' = "reaped"
    /\ loop' = "off"
    /\ Return(c, "idle", outcome[c])
    /\ UNCHANGED <<request, gasSchedule, command, part, nodeVars,
                   exitCause, arwenNonce, arwenGas, current, hooks, pipeVars,
                   boundVars>>

-----------------------------------------------------------------------------
(* NodePart.StartLoop and doLoop.                                          *)

(* The dialogue ends in an error: the driver goes on to Close.             *)
FailOperation(c, err) ==
    /\ Goto(c, "close")
    /\ outcome' = [outcome EXCEPT ![c] = Outcome(err, 0, 0, 0)]

(* SendContractRequest: the nonce grows before the write.  A write to      *)
(* closed pipes fails, and that path does not reset the dialogue.  The     *)
(* driver itself keeps the pipe's read end open, so a write to a process   *)
(* that is gone succeeds.                                                  *)
SendContractRequest(c) ==
    /\ pc[c] = "send"
    /\ nodeNonce' = Inc(nodeNonce)
    /\ IF part = "open"
       THEN /\ nodeToArwen' = Append(nodeToArwen,
                   Message(request[c].kind, Inc(nodeNonce), request[c].id, 0))
            /\ remaining' = MaxLoopTime
            /\ Goto(c, "receive")
            /\ UNCHANGED outcome
       ELSE /\ FailOperation(c, "ErrCannotSendContractRequest")
            /\ UNCHANGED <<nodeToArwen, remaining>>
    /\ UNCHANGED <<request, driverVars, procVars, arwenToNode, boundVars>>

(* Mutant: the time that is left may become negative.                      *)
DoLoopErrorNoExpiry(m, d) ==
    IF m.nonce # Inc(nodeNonce) THEN "ErrInvalidMessageNonce"
    ELSE IF IsHookCall(m.kind) \/ EndsDialogue(m.kind) THEN "nil"
    ELSE "ErrBadMessageFromArwen"

(* Why doLoop gives up on message m, read after d milliseconds.            *)
DoLoopError(m, d) ==
    IF m.nonce # Inc(nodeNonce) THEN "ErrInvalidMessageNonce"
    ELSE IF remaining - d < 0 THEN "ErrArwenTimeExpired"
    ELSE IF IsHookCall(m.kind) \/ EndsDialogue(m.kind) THEN "nil"
    ELSE "ErrBadMessageFromArwen"

(* A read returned after d milliseconds.  The deadline stops a read that   *)
(* takes longer than what remained (give or take one).                     *)
NodeReceives(c, d) ==
    /\ pc[c] = "receive"
    /\ arwenToNode # <<>>
    /\ d <= remaining + 1
    /\ arwenToNode' = Tail(arwenToNode)
    /\ UNCHANGED <<request, gasSchedule, command, part, procVars,
                   boundVars>>

(* replyToHookCallRequest, with the replier of the message's kind.         *)
ReplyToHookCall(c, d) ==
    /\ NodeReceives(c, d)
    /\ LET m == Head(arwenToNode) IN
       /\ DoLoopError(m, d) = "nil"
       /\ IsHookCall(m.kind)
       /\ nodeNonce' = Inc(m.nonce)
       /\ nodeToArwen' = Append(nodeToArwen,
              Message(IF m.kind \in HookRequest
                      THEN m.kind + 1 ELSE UndefinedRequestOrResponse,
                      Inc(m.nonce), m.id, 0))
    /\ remaining' = remaining - d
    /\ UNCHANGED <<pc, outcome, mutex>>

(* doLoop returns a response; StartLoop resets the dialogue.               *)
ReceiveResponse(c, d) ==
    /\ NodeReceives(c, d)
    /\ LET m == Head(arwenToNode) IN
       /\ DoLoopError(m, d) = "nil"
       /\ EndsDialogue(m.kind)
       /\ Return(c, "idle", Outcome("nil", m.kind, m.id, m.gas))
    /\ nodeNonce' = 0
    /\ UNCHANGED <<remaining, nodeToArwen>>

(* doLoop returns an error; StartLoop resets the dialogue all the same.    *)
ReceiveError(c, d) ==
    /\ NodeReceives(c, d)
    /\ LET err == DoLoopError(Head(arwenToNode), d) IN
       err # "nil" /\ FailOperation(c, err)
    /\ nodeNonce' = 0
    /\ UNCHANGED <<mutex, remaining, nodeToArwen>>

(* Mutants: no deadline for the last millisecond; a timeout after which    *)
(* the driver does not close Arwen.                                        *)
ReceiveTimeoutOffByOne(c) ==
    /\ pc[c] = "receive"
    /\ remaining > 1
    /\ FailOperation(c, "timeout")
    /\ nodeNonce' = 0
    /\ UNCHANGED <<request, driverVars, remaining, procVars, pipeVars,
                   boundVars>>
ReceiveTimeoutNoClose(c) ==
    /\ pc[c] = "receive"
    /\ remaining > 0
    /\ Return(c, "idle", Outcome("timeout", 0, 0, 0))
    /\ nodeNonce' = 0
    /\ UNCHANGED <<request, gasSchedule, command, part, remaining, procVars,
                   pipeVars, boundVars>>

(* The deadline passes.  Receiver.Receive sets one only for a positive     *)
(* timeout: with remaining = 0 the read has no deadline.                   *)
ReceiveTimeout(c) ==
    /\ pc[c] = "receive"
    /\ remaining > 0
    /\ FailOperation(c, "timeout")
    /\ nodeNonce' = 0
    /\ UNCHANGED <<request, driverVars, remaining, procVars, pipeVars,
                   boundVars>>

-----------------------------------------------------------------------------
(* The Arwen process: ArwenPart.doLoop and the hook gateway.               *)

ArwenExits(cause) ==
    /\ proc' = "exited"
    /\ exitCause' = cause
    /\ loop' = "off"

(* Why doLoop ends on message m.  A wrong nonce is an error, Stop is       *)
(* obeyed; the replier asserts the Go type of the request, and panics on a *)
(* kind that messageCreators does not know.                                *)
ArwenLoopEnd(m) ==
    IF m.nonce # Inc(arwenNonce) THEN "nonce"
    ELSE IF m.kind = Stop THEN "stop"
    ELSE IF m.kind \notin MessageCreators THEN "panic"
    ELSE "none"

(* ReceiveNodeRequest, and the replier takes over.                         *)
ReceiveNodeRequest ==
    /\ proc = "running" /\ loop = "receive"
    /\ nodeToArwen # <<>>
    /\ nodeToArwen' = Tail(nodeToArwen)
    /\ LET m == Head(nodeToArwen) IN
       IF ArwenLoopEnd(m) # "none"
       THEN /\ ArwenExits(ArwenLoopEnd(m))
            /\ UNCHANGED <<arwenNonce, current, hooks>>
       ELSE /\ loop' = "work"
            /\ arwenNonce' = m.nonce
            /\ current' = [kind |-> m.kind, id |-> m.id]
            /\ hooks' = 0
            /\ UNCHANGED <<proc, exitCause>>
    /\ UNCHANGED <<clientVars, driverVars, nodeVars, arwenGas, arwenToNode,
                   boundVars>>

(* SendHookCallRequest, from inside a contract execution.                  *)
SendHookCallRequest(kind) ==
    /\ proc = "running" /\ loop = "work"
    /\ current.kind \in ContractRequest
    /\ hooks < MaxHooks
    /\ hooks' = hooks + 1
    /\ arwenNonce' = Inc(arwenNonce)
    /\ arwenToNode' = Append(arwenToNode,
                             Message(kind, Inc(arwenNonce), current.id, 0))
    /\ loop' = "hook"
    /\ UNCHANGED <<clientVars, driverVars, nodeVars, proc, exitCause,
                   arwenGas, current, nodeToArwen, boundVars>>

(* The gateway gets the reply.  With a wrong nonce it gets an error, which *)
(* its methods turn into an error or a zero value for the contract: either *)
(* way the execution goes on.                                              *)
ReceiveHookCallResponse ==
    /\ proc = "running" /\ loop = "hook"
    /\ nodeToArwen # <<>>
    /\ nodeToArwen' = Tail(nodeToArwen)
    /\ arwenNonce' = IF Head(nodeToArwen).nonce = Inc(arwenNonce)
                     THEN Head(nodeToArwen).nonce ELSE arwenNonce
    /\ loop' = "work"
    /\ UNCHANGED <<clientVars, driverVars, nodeVars, proc, exitCause,
                   arwenGas, current, hooks, arwenToNode, boundVars>>

(* Mutant: Arwen does not reset the dialogue.                              *)
SendContractResponseNoReset ==
    /\ proc = "running" /\ loop = "work"
    /\ arwenToNode' = Append(arwenToNode,
           Message(ResponseKind(current.kind), Inc(arwenNonce), current.id,
                   arwenGas))
    /\ arwenNonce' = Inc(arwenNonce)
    /\ loop' = "receive"
    /\ UNCHANGED <<clientVars, driverVars, nodeVars, proc, exitCause, current,
                   arwenGas, hooks, nodeToArwen, boundVars>>

(* The replier returns: SendContractResponse, then ResetDialogue.          *)
SendContractResponse ==
    /\ proc = "running" /\ loop = "work"
    /\ arwenGas' = IF current.kind = GasScheduleChangeRequest
                   THEN current.id ELSE arwenGas
    /\ arwenToNode' = Append(arwenToNode,
           Message(ResponseKind(current.kind), Inc(arwenNonce), current.id,
                   arwenGas'))
    /\ arwenNonce' = 0
    /\ loop' = "receive"
    /\ UNCHANGED <<clientVars, driverVars, nodeVars, proc, exitCause, current,
                   hooks, nodeToArwen, boundVars>>

-----------------------------------------------------------------------------
(* What may go wrong around the protocol.                                  *)

(* The process dies: a fatal signal, out of memory, os.Exit.               *)
ArwenCrashes ==
    /\ proc = "running"
    /\ Fault
    /\ ArwenExits("crash")
    /\ UNCHANGED <<clientVars, driverVars, nodeVars, arwenNonce, arwenGas,
                   current, hooks, pipeVars, ops>>

(* An execution, or a DiagnoseWait, that takes longer than any timeout.    *)
ArwenHangs ==
    /\ proc = "running" /\ loop = "work"
    /\ Fault
    /\ loop' = "hung"
    /\ UNCHANGED <<clientVars, driverVars, nodeVars, proc, exitCause,
                   arwenNonce, arwenGas, current, hooks, pipeVars, ops>>

(* SendStopSignal between two operations: no mutex, no ResetDialogue.  The  *)
(* code has no guard; it is for tests only, and its one caller calls it when *)
(* no operation is in progress.                                             *)
SendStopSignal ==
    /\ mutex = NoClient
    /\ part = "open"
    /\ Fault
    /\ nodeNonce' = Inc(nodeNonce)
    /\ nodeToArwen' = Append(nodeToArwen, Message(Stop, Inc(nodeNonce), 0, 0))
    /\ UNCHANGED <<clientVars, driverVars, remaining, procVars, arwenToNode,
                   ops>>

(* The driver's public Close, from any goroutine: it takes no mutex.       *)
ExternalClose ==
    /\ command = "started"
    /\ proc # "reaped"
    /\ Fault
    /\ proc' = "reaped"
    /\ loop' = "off"
    /\ UNCHANGED <<clientVars, driverVars, nodeVars, exitCause, arwenNonce,
                   arwenGas, current, hooks, pipeVars, ops>>

-----------------------------------------------------------------------------
ClientStep(c) ==
    \/ LockOperations(c)
    \/ RestartArwenIfNecessary(c)
    \/ StartArwen(c)
    \/ \E step \in StartFailures : StartArwenFails(c, step)
    \/ SendContractRequest(c)
    \/ \E d \in 0 .. MaxLoopTime + 1 :
          ReplyToHookCall(c, d) \/ ReceiveResponse(c, d) \/ ReceiveError(c, d)
    \/ ReceiveTimeout(c)
    \/ CloseArwen(c)

ArwenStep ==
    \/ ReceiveNodeRequest
    \/ \E kind \in HookKinds : SendHookCallRequest(kind)
    \/ ReceiveHookCallResponse
    \/ SendContractResponse

Environment ==
    \/ ArwenCrashes
    \/ ArwenHangs
    \/ SendStopSignal
    \/ ExternalClose

Next ==
    \/ \E c \in Clients, kind \in NodeRequest : Invoke(c, kind)
    \/ \E c \in Clients : ClientStep(c)
    \/ ArwenStep
    \/ Environment

Spec == Init /\ [][Next]_vars

(* A goroutine that can run runs; sync.Mutex starves nobody; a process that*)
(* neither crashes nor hangs makes progress.                               *)
Fairness ==
    /\ \A c \in Clients : WF_vars(ClientStep(c)) /\ SF_vars(LockOperations(c))
    /\ WF_vars(ArwenStep)

FairSpec == Spec /\ Fairness

-----------------------------------------------------------------------------
(* Properties.                                                             *)

(* An operation that returns without error returns Arwen's response to its *)
(* own request and of the kind its type assertion expects, whatever        *)
(* timeouts, crashes, late answers and restarts came before it             *)
(* (ArwenDriver's operations, arwenDriver.go).                             *)
OwnResponse ==
    \A c \in Clients :
        outcome[c].err = "nil" /\ outcome[c].id # 0 =>
            /\ outcome[c].id = request[c].id
            /\ outcome[c].kind = ResponseKind(request[c].kind)

(* The nonce check of Messenger.Receive is a safety net that never catches *)
(* anything: neither side ever reads a message out of turn, although the   *)
(* two sides reset their nonces at different moments and a failed send or  *)
(* a stop signal leaves the Node's nonce behind.                           *)
NonceSafetyNet ==
    /\ \A c \in Clients : outcome[c].err # "ErrInvalidMessageNonce"
    /\ exitCause # "nonce"
    /\ proc = "running" /\ loop = "hook" /\ nodeToArwen # <<>> =>
          Head(nodeToArwen).nonce = Inc(arwenNonce)

(* A message of one dialogue is never still around in the next: when no    *)
(* operation is in progress, an Arwen process that can still be asked has  *)
(* nothing but stop signals to read, nothing unread in its output and no   *)
(* request half served (resetPipeStreams and Close, arwenDriver.go).       *)
NoLeftovers ==
    mutex = NoClient /\ proc # "reaped" =>
        /\ arwenToNode = <<>>
        /\ \A i \in 1 .. Len(nodeToArwen) : nodeToArwen[i].kind = Stop
        /\ loop \in {"receive", "args", "off"}

(* A response that reaches the caller was computed under the gas schedule  *)
(* of the last GasScheduleChange, even when that change failed half way,   *)
(* timed out or found Arwen dead (ArwenDriver.GasScheduleChange).          *)
ResponseUsesSchedule ==
    [][\A c \in Clients : pc[c] = "receive" /\ pc'[c] = "idle" =>
          outcome'[c].gas = gasSchedule]_vars

(* Every operation returns, or is stuck in the one read that has no        *)
(* deadline: the loop's time is used up to the last millisecond and Arwen  *)
(* says nothing more (NodePart.doLoop, Receiver.Receive).                  *)
ReadsForever(c) ==
    pc[c] = "receive" /\ remaining = 0 /\ arwenToNode = <<>>
OperationReturnsOrReadsForever ==
    \A c \in Clients :
        pc[c] = "lock" ~> \/ pc[c] \in {"idle", "panicked"}
                          \/ \E other \in Clients : []ReadsForever(other)

(* Every hook call with a replier is replied to: the Node never takes one  *)
(* for a bad message.                                                      *)
HookCallsAnswered ==
    \A c \in Clients : outcome[c].err # "ErrBadMessageFromArwen"

(* The invariant behind these properties.  Between dialogues a process     *)
(* that can still be asked is idle, with nothing to read but stop signals. *)
Quiet ==
    proc # "reaped" =>
        /\ arwenToNode = <<>>
        /\ \A i \in 1 .. Len(nodeToArwen) : nodeToArwen[i].kind = Stop
        /\ loop \in {"receive", "args", "off"}
        /\ loop = "receive" =>
              /\ part = "open" /\ arwenNonce = 0
              /\ nodeToArwen = <<>> => nodeNonce = 0
              /\ nodeToArwen # <<>> => Head(nodeToArwen).nonce = Inc(0)

(* In a dialogue exactly one side has the turn, and the message in flight, *)
(* if any, is numbered one above what its reader has seen.                 *)
Turns(c) ==
    /\ part = "open"
    /\ Len(arwenToNode) <= 1
    /\ arwenToNode # <<>> => LET m == Head(arwenToNode) IN
          /\ nodeToArwen = <<>>
          /\ m.nonce = Inc(nodeNonce) /\ m.id = request[c].id
          /\ IF EndsDialogue(m.kind)
             THEN /\ m.kind = ResponseKind(request[c].kind)
                  /\ m.gas = gasSchedule
                  /\ proc = "running" => /\ loop = "receive"
                                         /\ arwenNonce = 0
                                         /\ arwenGas = gasSchedule
             ELSE proc = "running" => loop = "hook" /\ arwenNonce = m.nonce
    /\ proc = "running" =>
          /\ loop \in {"receive", "work", "hook", "hung"}
          /\ loop \in {"work", "hung"} =>
                nodeToArwen = <<>> /\ arwenToNode = <<>> /\ arwenNonce = nodeNonce
          /\ loop \in {"work", "hook", "hung"} =>
                /\ current = request[c]
                /\ arwenGas = gasSchedule \/ current.kind = GasScheduleChangeRequest
          /\ loop = "hook" /\ arwenToNode = <<>> =>
                /\ Len(nodeToArwen) = 1
                /\ Head(nodeToArwen).nonce = Inc(arwenNonce)
                /\ nodeNonce = Inc(arwenNonce)
          /\ loop = "receive" /\ arwenToNode = <<>> =>
                LET m == Head(nodeToArwen) IN
                /\ arwenNonce = 0
                /\ nodeToArwen # <<>>
                /\ m.nonce = Inc(0)
                /\ m.kind # Stop => /\ Len(nodeToArwen) = 1
                                    /\ nodeNonce = Inc(0)
                                    /\ m.kind = request[c].kind
                                    /\ m.id = request[c].id

InOperation(c) == pc[c] \in {"check", "start", "send", "receive", "close"}

(* operationsMutex is held by the client that is in an operation.          *)
OneOperation == \A c \in Clients : InOperation(c) <=> mutex = c

ProcessInv ==
    /\ \A c \in Clients : pc[c] = "start" => proc = "reaped"
    /\ proc = "exited" => loop = "off"
    /\ proc = "running" => loop # "off"
    /\ proc = "running" /\ loop = "args" => part = "closed"
    /\ command = "unstarted" => proc = "reaped"

TurnsInv == \A c \in Clients : pc[c] = "receive" => Turns(c)

SendInv == \A c \in Clients : pc[c] = "send" => arwenToNode = <<>>

QuietInv == (\A c \in Clients : pc[c] \notin {"receive", "close"}) => Quiet

(* Arwen runs under the driver's schedule, except while a change is on its *)
(* way or Arwen is about to be killed.                                     *)
GasInv ==
    /\ \A c \in Clients :
          InOperation(c) /\ request[c].kind = GasScheduleChangeRequest =>
              gasSchedule = request[c].id
    /\ proc = "running" /\ loop # "args" =>
          \/ arwenGas = gasSchedule
          \/ \E c \in Clients :
                \/ pc[c] = "close"
                \/ InOperation(c) /\ request[c].kind = GasScheduleChangeRequest

(* Arwen's side of a dialogue, also while the Node has given up on it and  *)
(* is about to kill Arwen.                                                 *)
ArwenTurnInv ==
    proc = "running" =>
        /\ loop \in {"work", "hung"} => nodeToArwen = <<>>
        /\ loop = "hook" =>
              \/ nodeToArwen = <<>>
              \/ /\ Len(nodeToArwen) = 1
                 /\ Head(nodeToArwen).nonce = Inc(arwenNonce)
        /\ loop = "receive" =>
              /\ arwenNonce = 0
              /\ \/ nodeToArwen = <<>>
                 \/ /\ Head(nodeToArwen).nonce = Inc(0)
                    /\ Head(nodeToArwen).kind # Stop => Len(nodeToArwen) = 1

(* The dialogues of the driver's operations follow the protocol, one after *)
(* the other: this is what operationsMutex, the kill on every error and    *)
(* the fresh pipes of a restart are for.                                   *)
DialogueInv ==
    /\ OneOperation
    /\ ProcessInv
    /\ SendInv
    /\ TurnsInv
    /\ QuietInv
    /\ GasInv
    /\ ArwenTurnInv

(* The refinement mapping: how a client's operation looks from outside.     *)
PhaseOf(c) ==
    IF pc[c] \in {"idle", "panicked"} THEN pc[c]
    ELSE IF pc[c] = "lock" THEN "waiting" ELSE "serving"
AnswerOf(c) ==
    IF pc[c] = "close" THEN NoOutcome
    ELSE IF outcome[c].err = "nil" THEN outcome[c]
    ELSE Outcome("critical", 0, 0, 0)
phases == [c \in Clients |-> PhaseOf(c)]
answers == [c \in Clients |-> AnswerOf(c)]
Service == INSTANCE ArwenService WITH
    phase <- phases,
    asked <- request,
    answer <- answers,
    schedule <- gasSchedule,
    tickets <- ops

(* The driver implements the abstract service: one operation at a time,    *)
(* own output, current gas schedule, or a critical error (ArwenDriver).    *)
ImplementsService == Service!ServiceSpec
=============================================================================
