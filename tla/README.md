# Arwen WASM VM: a TLA+ verification project

Arwen executes WebAssembly smart contracts for an Elrond node. This directory
models the parts of it whose correctness depends on order, nesting and failure,
checks them with TLC on small instances, and proves most of what the runs check
with TLAPS for every instance: the safety of the inter-process part and of the
gateway, the stacks, instances, value and rollback of the VM host, the
asynchronous contexts, deployment, the EEI and the linear memory.
`PROJECT.json` records which definition stands for which lines of the source;
the comments in the modules say the rest.

## 1. The system

| Component | State it keeps | Operations | Talks to |
| --- | --- | --- | --- |
| Arwen driver (`ipc/nodepart/arwenDriver.go`) | the child process, its pipes, `operationsMutex`, the arguments with the gas schedule | RunSmartContractCreate/-Call, GasScheduleChange, GetVersion, DiagnoseWait, RestartArwenIfNecessary, Close | Node's goroutines (any number), NodePart, the operating system |
| Node part (`ipc/nodepart/part.go`) | dialogue nonce, time left | StartLoop, doLoop, hook repliers, SendStopSignal | Arwen part, over pipes; the Node's BlockchainHook |
| Arwen part (`ipc/arwenpart`) | dialogue nonce, the VM host | doLoop, repliers, hook gateway | Node part, VM host |
| Messages, messengers (`ipc/common`) | none / nonce | Send, Receive with a deadline, creation by kind | both parts |
| VM host (`arwen/host`) | the six contexts, the Go stack of nested executions | RunSmartContractCall, -Create, ExecuteOnDestContext, ExecuteOnSameContext, asynchronous calls and callbacks | contexts, EEI, blockchain hook |
| Output context | output accounts, transfers, return code, a stack of them | push, pop, merge, discard, Transfer, TransferESDT, GetVMOutput | metering, host |
| Metering context | gas provided, initial cost, gas for execution, gas used by account, a stack | Use, Restore, Bound, Lock, the accounting at the end | runtime (points), output |
| Runtime context | call input, async call info, Wasmer instance, two stacks | StartWasmerInstance, push, pop, breakpoints | Wasmer |
| Storage context | current address; storage updates, as a cache over the Node's storage | SetStorage, GetStorage, protected storage, refunds | output, metering, Node |
| BigInt context | map of integers by handle, a stack of maps | Put, GetOne, ConsumeGas for their size | EEI |
| Blockchain context | snapshots | balances, nonces, code, new addresses, block data | Node, through the hook |
| Code validator, reserved functions | the names a contract may not export | VerifyMemoryDeclaration, VerifyFunctions | runtime |
| EEI (`arwen/elrondapi`, `cryptoapi`) | none | ~200 functions imported by contracts | host, contexts, the contract's memory |
| Asynchronous context (promises, `asyncCall.go:441-860`) | groups of pending calls, kept in contract storage | create, execute, callback, save | host, storage |
| Mandos, arwendebug, mocks, test support | scenario files, mock world | parse, run | host |

How they interact. A goroutine of the Node calls a driver operation. The driver
takes its mutex, starts a new process if the last one is closed, writes one
request and then answers hook calls until a response, an error or the end of
its time. On an error it kills the process, so that the next operation starts a
new one. In the process, a request becomes a transaction of the VM host. The
host prepares a Wasmer instance and runs the contract, and the contract calls
back into the host through the EEI. A nested call pushes every context, runs
another instance, and on return merges or drops what was pushed.

What is hard. In the IPC layer: late answers after a timeout, processes that
die between two messages, half-failed starts, operations without the mutex
(Close, SendStopSignal), and nonces that the two sides reset at different
moments. In the host: six stacks pushed and popped by different functions on
success and failure paths; gas that is used, locked, restored and accounted for
in two places; merges that follow different rules for each field; failures at
depth after successes deeper still; code that changes while it runs; calls whose
answers arrive in later transactions, in any order. In the EEI: integers of the
contract, of any sign, that become lengths, handles, amounts of gas. The list under `hazards` in `PROJECT.json`
gives each at its line, with the properties that watch it.

What makes each component correct:

- driver and parts: answers belong to their request, dialogues never mix, a
  response uses the current gas schedule, every operation returns;
- contexts and host: stacks balanced, rollback of failed calls complete, gas and
  value conserved and attributed, no gas minted, every execution on its own
  instance;
- asynchronous context: every pending call is answered once, its callback runs
  once, the original caller hears back when the last one is done;
- EEI and storage: read-only executions change nothing, refunds are backed, the
  Node's keys are never read from the cache, numbers come back as they were
  stored, and no slice leaves the memory;
- gateway and blockchain context: what the Node accepts was computed from its
  own answers;
- deployment: only verified code is deployed by a transaction, an instance runs
  the code of its account, and the output tells the Node what happened.

## 2. Modules

| Module | Models | State and actions |
| --- | --- | --- |
| `Messages` | message kinds and the predicates on them | constants numbered as `iota` numbers them, because `IsHookCall` and `IsDiagnose` are range tests |
| `ArwenIPC` | driver, Node part, Arwen part, process, pipes | one `pc` per goroutine of the Node; one action per step between two points where another process can act |
| `ArwenService` | what the driver promises, without processes and pipes | `Ask`, `Serve`, `Answer`, `Fail`, `Panic` |
| `ArwenIPCProofs`, `MCArwenIPC` | theorems on `ArwenIPC`, and its instances | |
| `HookMessages` | the hook calls and which of their responses carry an error | extends `Messages` |
| `SerializableOutput` | a VMOutput turned into lists and back | pure operators |
| `BlockchainGateway`, `GatewayProofs` | the blockchain context over gateway, messengers, pipes and repliers | one action per operation of the context, per message, and per failure of the transport |
| `VMContexts` | the six contexts and their stacks | a host is a record; one operator per method of a context |
| `VMHost`, `MCVMHost`, `VMHostProofs`, `GasProofs` | transactions, nested executions, built-in functions, asynchronous calls | `frames` is the Go call stack of the host; `host` the contexts; `exit` how the running code ended |
| `AsyncPromises`, `PromisesProofs` | the asynchronous contexts of one contract | `calls` in order of creation, the stored record, the answers under way |
| `CodeValidator` | what is required of code | pure operators |
| `Deployment`, `MCDeployment`, `DeploymentProofs` | creation and upgrade, `codeUpdates`, compiled code, addresses | `frames`; the Node's accounts and the cache |
| `Overflow` | `math/overflow.go`, for any width | pure operators |
| `WasmMemory` | MemLoad, MemLoadMultiple, MemStore | the length of the memory, the last access |
| `EEIContexts` | storage, metering, big integers, return data and logs as the EEI uses them | a host is a record |
| `BigIntEEI`, `CryptoEEI`, `ElrondEI` | the functions of the three packages | one action per function or family of functions that differ in a parameter |
| `EEI`, `MCEEI`, `EEIProofs` | contracts at work on the EEI, with the memory | composes the four modules above |
| `SumProofs` | lemmas on folds and sums over finite sets | used by `PromisesProofs`, `VMHostProofs`, `GasProofs` and `EEIProofs` |

`ArwenIPC` composes the two parts over two queues. A message is its kind, its
nonce, the number of the operation it belongs to and the gas schedule its
content was computed under. A client is idle, waiting for the mutex (`lock`), in
RestartArwenIfNecessary (`check`, `start`), before the request is written
(`send`), in doLoop (`receive`), or about to kill Arwen (`close`). The process is
`running`, `exited` (a zombie: not waited for) or `reaped`. Time is the loop's
budget in milliseconds: every read consumes any amount up to what remains, or
one more.

`BlockchainGateway` looks into one dialogue. `ArwenIPC` leaves open what a hook
call is about; here every operation of the blockchain context is the hook calls
it makes, in order, with the hook's errors and with messages that cannot be sent
or read. `tainted` records that the gateway has answered a value the Node never
gave.

`VMHost` takes a contract to be arbitrary code. In every state it may burn gas
(`Opcode`), call any EEI function of the configuration with any argument, return
or fail. An EEI call is one action up to the point where another contract
runs; the end of that contract is another action, which performs everything the
host does up to the caller's next instruction: `GetVMOutput`, the pops, the
restoring of gas and the fault of the EEI function where it has one. `ledger` is
a history variable. It records the gas really burnt by each account's code
where it is burnt, so that the metering context's own figures are compared with
something independent of them.

`AsyncPromises` and `Deployment` look at what `VMHost` leaves out. In both, the
gas and the code of the contracts in between are outcomes: an execution spends
any of the amounts of the configuration and succeeds or fails.
In `Deployment` the creator's other contracts, the cache of compiled code and
the Node's accounts live on over several transactions.

`EEI` lets a contract, which is the set of functions it imports, call them in any
order, in nested calls and over two transactions, while built-in functions of the
Node write the Node's own keys in between. `view` is a history variable: what a
contract stored, as it meant it.

Abstractions, with their reasons:

- the epoch flags are on (Arwen V2 and V3, dynamic gas locking, ESDT), as they
  are for current blocks;
- in `VMHost` a contract has one storage key, big integers are counted, of the
  return data only a returned token is kept (`returnsToken`), logs and code are
  left out: they are the subject of `EEIContexts` and `Deployment`;
- costs are constants (`ApiCost` for an EEI call; the code compiles the costs
  from a gas schedule); in `VMHost` the amounts stay far below 2^64, so that only
  the saturating subtraction of `math.SubUint64` matters; `AsyncPromises`,
  `WasmMemory` and `EEI` have words of a few bits that do wrap;
- the Node is external: balances are constants, the ESDTTransfer built-in
  function is a counter of transfers (`world`) that snapshots restore; it is the
  only built-in function that contracts call by name;
- a built-in function changes the Node before the contexts of the execution after
  it are pushed, so the state that `FailureRollsBack` compares with is the one
  after the built-in function, except for the tokens, which are compared with the
  state before;
- warm instances are off, as in the repository's own host parameters;
- in `VMHost` the value of a callback is 0, and accounts that a read alone would
  touch are not created empty in the output;
- byte strings of the EEI are a length and a number.

## 3. Runs

| Run | Question | Result |
| --- | --- | --- |
| `ipc_safety` | two goroutines, three operations, two faults: TypeOK, OwnResponse, NonceSafetyNet, NoLeftovers, DialogueInv, ResponseUsesSchedule, ImplementsService | holds |
| `ipc_live` | does every operation return? OperationReturnsOrReadsForever | holds |
| `ipc_hooks` | HookCallsAnswered | violated |
| `gateway` | is what the Node accepts computed from its own answers? AcceptedIsGenuine, NoncesCounted, OutputArrives | holds |
| `vm_calls` | nested calls on both kinds of context: TypeOK, StacksBalanced, InstanceOfItsOwn, GasConserved, GasAttributed, FailureRollsBack | holds |
| `vm_rollback` | stores, big integers, value, tokens and failures: ValueConserved, FailureRollsBack | holds |
| `vm_async` | asynchronous calls and built-in functions: GasConserved, FailureRollsBack, GasNeverMinted | holds |
| `promises` | groups of asynchronous calls, to the last answer: GasForwarded, NoneForgotten, CallerCalledWhenResolved, CallerAnswered | holds |
| `promises_pending` | PendingRemoved | violated |
| `deploy` | creation, upgrade and the cache of compiled code: DeploymentTypeOK, OutputTellsWhatHappened, DeployedIsVerified, InstancesRunTheirCode, CreatedAtFreshAddress | holds |
| `deploy_over` | NoDeploymentOverExisting | violated |
| `eei` | the functions of the EEI: EEITypeOK, SliceWithinMemory, RefundBacked, LockReported, ReservedReadsFresh, SizesPaid, NumbersKept, ReadOnlyHolds, HandlesKept | holds |

To repeat them: `tlc -config MCArwenIPC_safety.cfg MCArwenIPC`, and likewise for
the other configurations (`PROJECT.json` names module and configuration of each
run). For the proofs: `tlapm ArwenIPCProofs.tla`, and likewise
`GatewayProofs`, `SumProofs`, `PromisesProofs`, `DeploymentProofs`,
`VMHostProofs`, `GasProofs` and `EEIProofs`; the last two take some ten minutes
each. The longest runs take two to three minutes on two cores, with up to 2.6
million distinct states.

### Bounds

IPC: `MaxOps` operations, `MaxFaults` crashes, hangs, stop signals, closes and
failed starts in all, `MaxHooks` hook calls per request, a budget of
`MaxLoopTime` = 2 ms. Two goroutines and three operations are enough for one
operation to fail, a second one to meet what it left, and a third to wait
meanwhile; two faults are enough for a failure during the recovery from
another. The nonce is a uint32 that wraps; `NonceModulus` = 4 lets it wrap.
These bounds do not limit the proofs, where all are arbitrary.

Gateway: three operations of the context, two failures of the transport and one
error of the hook. Two failures are what it takes to put the nonces apart and
together again; a third operation is needed to see what follows.

VM: two contracts of this shard, `alice` with a callback and payable, `bob`
without and not payable, one contract of another shard and, where it matters,
one user. Three Wasmer instances let a contract call itself through the other,
and fail at the limit. Gas amounts of 8 to 13 with costs of 1 let calls succeed
at two levels and run out of gas at each point of each function, including an
EEI call that takes the contract beyond its limit. One transaction is executed:
`StacksBalanced` at its end shows that the next one starts from the same state.
No symmetry is used, since the contracts differ. Deadlock is checked for the
VM: the only state without a further step of the contract is the one after the
last transaction (`NoMoreTransactions`). It is not checked elsewhere: a system
with no operations, answers or transactions left really stops.

Promises: three calls in two contexts, one destination of this shard and two of
others, so that a context may have a call of each kind and a destination may be
called twice. Gas is a word of 4 bits; the request for 15 is the -1 of a
contract. `MaxPlain` bounds the calls a callback makes on its own.

Deployment: three transactions, three creations, upgrades or calls by contracts,
four frames. Three transactions are enough to deploy refused code, to deploy it
again, and to call what came of it.

EEI: a byte has 2 bits, an int64 two bytes, an int32 3 bits, and the memory up to
3 pages of one byte, so that every offset and every length occurs, negative and
wrapping ones included. The sixteen contracts of `MCEEI` each import a few
functions that share state (locks; numbers in storage; handles; read-only calls
and writes; refunds; the memory; and so on): with all functions in one contract
the instance would be too large, and functions that share no state add nothing by
being interleaved. The contracts with locks, with numbers in storage and with
built-in functions run two transactions, so that a second one meets what a first one,
successful or failed, has left.

### Fairness

`ipc_live` assumes weak fairness of each client's steps (a goroutine that can
run runs, a deadline that has passed fires), strong fairness of taking the mutex
(Go's sync.Mutex hands over to a waiter after 1 ms), and weak fairness of Arwen's
steps while it neither crashes nor hangs (a running process is scheduled).
Nothing is assumed of faults. `promises` assumes weak fairness of `Answered` only:
the protocol answers every call that was sent to another shard, by a transaction
of its own, which may fail. The other VM runs have no liveness property:
every step of code consumes gas, and GasNeverMinted shows that nothing gives it
back, which is why executions end.

### What the runs found

Three runs show the code at odds with what its comments or its tests say:

1. `ipc_hooks`: `IsHookCall` stops at `BlockchainGetCompiledCodeResponse`. The
   hook kinds declared after it are answered with `ErrBadMessageFromArwen`.
2. `promises_pending`: with more than one call pending, `processCallbackStack`
   removes the answered call from its copy of the record and does not store the
   copy. The record never becomes empty and the original caller is never called
   back.
3. `deploy_over`: the nonce of a creator is increased after the init function of
   the new contract. An init function that calls its creator back can make it
   create a second contract, at the same address.

Behaviours that the modules have and that properties exclude or allow
explicitly, or that came up while modelling. Processes and messages:

- doLoop goes on with exactly 0 ms left, and `Receiver.Receive` sets no deadline
  for a timeout of 0. If Arwen is dead or hung at that moment, the operation
  never returns and the mutex stays taken (the exception of
  OperationReturnsOrReadsForever);
- an Arwen that ended by itself still answers signal 0 until it is waited for, so
  the next operation does not restart it and fails; the one after it does;
- when `Start()` fails, `command.Process` is nil and the next `IsClosed` panics;
- no message creator is registered for GasScheduleChangeRequest
  (`ipc/common/messagesFactory.go:25-92`): Arwen's replier panics on its type
  assertion (`ArwenLoopEnd`), and the new schedule takes effect because the driver
  stored it in the arguments of the process that it starts next.
  `ResponseUsesSchedule` holds along that path;
- a response that cannot be read and then a request that cannot be sent bring the
  nonces of the two sides together again (AcceptedIsGenuine excepts executions
  that had both);
- the gateway's RevertToSnapshot drops the hook's error, IncreaseNonce that of
  GetNonce (the count then starts from 0), and the blockchain context answers
  empty values for several other errors.

Gas and nested executions:

- checkGas fails a nested execution that adds up by itself when its caller has
  sent gas to another shard before the call: the nested output starts with the
  transfers of its callers;
- checkGas's verdict on a same-context execution is dropped (`ledger.unchecked`);
- gas sent with `transferValueExecute` to another shard is charged to nobody
  (`ledger.unfunded`);
- a token returned through a reversed asynchronous call is merged into the return
  data of the caller (`arwen/contexts/output.go:543`). With nested asynchronous
  calls, A of B and B of C, the callback of A also gets a transfer from B that B
  never asked for, against the comment at `arwen/host/asyncCall.go:55-58`;
- when the execution after a built-in function fails, the transfer of tokens is
  reverted, but the OutputTransfer that AddToActiveState recorded stays in the
  caller's output;
- ClearContextStateStack clears "all the contexts" but leaves the blockchain
  stack: a Go panic in a nested call leaves a snapshot there;
- the cost of code created by a contract overwrites the creator's own initial cost
  (`deductInitialGas`).

Asynchronous contexts:

- the ErrorCallback of a call is never the function that runs, and
  AsyncContext.Callback is never called (`arwen/elrondapi/common.go:170-171`);
- a local destination runs with all the gas left, not with the limit of its call;
  one that has pending calls of its own leaves nothing, and the transaction fails;
- calls created in a callback's transaction or through executeOnSameContext are
  dropped; the pending calls of a callback overwrite the record under the same
  OriginalTxHash; in read-only mode the record is not stored although the calls
  are sent; answers are matched with calls by their destination only;
- `sendStorageCallbackToDestination` gives away gas that it does not use, which
  checkGas may notice; with a caller of this shard it dereferences nil.

Deployment:

- code that a contract creates is not verified, since its instance is not started
  as new code (`ghost.unverified` excepts it from DeployedIsVerified);
- compiled code is looked up and saved under the hash of the code the Node has,
  also after an upgrade in the same transaction;
- codeUpdates outlives a failed execution: the account's old code is then reported
  again, without its metadata;
- a reentrant creation that fails deletes the account of the contract around it.

EEI:

- a nested executeReadOnly switches read-only mode off for everyone around it
  (ReadOnlyHolds excludes it by `view.left`);
- GetStorageFromAddress asks the Node for a reserved key, because a built-in function
  may have changed it since it was cached (`arwen/contexts/storage.go:137-142`).
  `GetStorage`, behind storageLoad, reads the same keys from the cache: a contract
  that reads its own reserved key twice may get the old value the second time.
  ReservedReadsFresh speaks of the first only: what it answers, empty or not, is
  compared with a history of what built-in functions wrote (`view.nodeKeys`), for the
  caller's own account and the readable ones; of the others a contract learns nothing;
- the output of a contract called on its own context starts without the results and
  the refund of its caller (`CensorVMOutput`). On return the results are joined, but
  the refund of the callee replaces that of the caller (`arwen/contexts/output.go:545`):
  the caller gets no refund for what it had released before the call;
- `CustomStorageKey` puts the type after the key, so that the keys of time locks
  do not have the prefix that protects Arwen's keys; negative timestamps of locks
  lose their sign, so that isStorageLocked takes them for others: LockReported, and
  with it `LocksAreReported`, leaves them out;
- `extractIndirectContractCallArguments` drops an error; `getCallValueTokenName`
  never returns the name; negative ids reach a slice index in some getters;
  `numArguments * 4` wraps an int32; shifts are paid for after they were computed.

## 4. Proofs

`ArwenIPCProofs` proves, for every set of clients and every value of the bounds
(`IPCAssumption`: the constants have their types, the budget is positive, the
nonce modulus is at least 2 and NoClient is no client):

| Theorem | Statement |
| --- | --- |
| `TypeCorrect` | `Spec => []TypeOK` |
| `DialogueCorrect` | `Spec => []DialogueInv` |
| `LeftoverFree` | `Spec => []NoLeftovers` |
| `OwnResponseCorrect` | `Spec => []OwnResponse` |
| `NonceSafetyNetCorrect` | `Spec => []NonceSafetyNet` |
| `ScheduleCorrect` | `Spec => ResponseUsesSchedule` |
| `Refinement` | `Spec => ImplementsService` |

The argument. None of the safety properties is inductive. `OwnResponse`, for
example, depends on which message may be in the pipe when a client reads it,
hence on what earlier dialogues may have left there, hence on the fact that
every error ends in a kill before the mutex is released. `DialogueInv` says all
of it, in seven parts:

- `OneOperation`: the mutex is held by the client that is in an operation;
- `ProcessInv`: how process, loop, part and command go together;
- `QuietInv`: between dialogues a process that can be asked is idle, with
  nothing to read but stop signals;
- `SendInv`: nothing is unread when a request is about to be written;
- `TurnsInv`: in a dialogue one side has the turn, and the message in flight is
  numbered one above what its reader has seen;
- `ArwenTurnInv`: the same from Arwen's side, also after the Node has given up;
- `GasInv`: Arwen runs under the driver's schedule, except while a change is
  under way or Arwen is about to be killed.

One lemma per part shows that a step of `Next` preserves it, with one case per
action. `DialogueCorrect` combines them; the other theorems follow from
`DialogueInv`, with an induction of their own where they speak of `outcome`,
which a client keeps after its operation (`OutcomeStep`). For the refinement,
`ServiceStep` maps every action to a step of `ArwenService` or to a stutter.

`EEIProofs` begins with the memory alone and proves `MemorySafe`, `MemSpec => []SliceWithinMemory`: for
every even width of the machine integers (`MemoryAssumption`), every size of the
memory it admits and all offsets and lengths, no Go slice expression of MemLoad,
MemLoadMultiple and MemStore leaves the memory. What makes it hold is a mix of
conversions between int32 and uint32 and of a saturating sum, which can each be
wrong by a whole width. The inductive invariant `MemInv` adds the bound of the
memory's length, below which the length is a uint32; `SliceWithinMemory` alone
compares the last access with a memory that a later store may enlarge.
`ModNear` says what `%` does one modulus out of range, `Conversions` and
`SaturatingEnd` lift it to the casts and to `AddInt32`, and `MemLoadFits`,
`MemStoreFits` and `TwoLoads` are the cases of the step. `MemTypesHold`,
`MemSpec => []MemTypeOK`, is the type of the memory and of the last access.

For the EEI as a whole it proves, from `EEIAssumption`, `NumbersAssumption`,
`ElrondAssumption` and `ContractsAssumption` (a byte has an even number of values and a word at least one
byte; handles and keys are finitely many; releasing a byte refunds no more than
storing it costs; balances and the values of calls fit a word, and an argument is
a byte string within `MaxBytes`, the bound of the model):

| Theorem | Statement |
| --- | --- |
| `EEIInvariant` | `EEISpec => []EEIInv` |
| `EEITypesHold` | `EEISpec => []EEITypeOK` |
| `EEIMemorySafe` | `EEISpec => []SliceWithinMemory` |
| `RefundsBacked` | `EEISpec => []RefundBacked` |
| `LocksAreReported` | `EEISpec => []LockReported` |
| `ReservedKeysFresh` | `EEISpec => []ReservedReadsFresh` |
| `SizesArePaid` | `EEISpec => []SizesPaid` |
| `NumbersAreKept` | `EEISpec => []NumbersKept` |
| `ReadOnlyIsKept` | `EEISpec => ReadOnlyHolds` |
| `HandlesAreKept` | `EEISpec => HandlesKept` |

The EEI has some two hundred functions, so the proof first sorts them by what they
can do to the contexts (`StepKinds`): a `PlainStep` stores nothing and reports
nothing the properties speak of; the others are stores of numbers, of plain keys and
of locks, loads from another address, questions about a lock, logs, and the entry to
and the return from a nested call. Each family of functions has a lemma that it is
of its kind. `EEIInv` says that the contexts are well formed, those kept by the
frames too (`IsHost`); that the contract's storage holds what the history variable
notes, as the contract sees it now and as the Node has it (`Matches`): the second
is what the next transaction starts from; that the read-only flag, now and as every
frame will restore it, is what the executeReadOnly frames below it say, unless one
has been left (`ModesAre`); that the Node has, under its own key of every account,
what built-in functions wrote, and goes back to what they had written before when the
transaction fails (`NodeKept`); and the three properties on answers and refunds.
`ReservedReadsFresh` needs `NodeKept`, since it compares an answer with the history of
the writes, not with the storage that was asked: that a reserved key in the cache is
never committed (`CommittedIs`) and that a failed transaction is rolled back
(`RolledBackIs`) is part of its proof.
`NumbersKept` is not inductive without the Node's side of `Matches`, nor
`ReadOnlyHolds` without the flags in the frames. The refund is compared with sums
over all keys: `WriteIs` says what one store adds to it, `BackedWhenWritten` that
the sums change by as much. That numbers survive the trip through bytes
(`UnsignedTrip`, `SignedTrip`) rests on `Power`, a recursive function, of which
`PowerFunction` shows that it satisfies its equation; `LockKeysApart` on the form
of the keys. Every step of the EEI is a step of the memory or leaves it alone
(`MemoryStepOrNone`), which carries `MemorySafe` over.

`SizesPaid` speaks of the numbers of the running contract, but a return brings back
those of its caller, and an operation can name any argument of the call. So `IsHost`
says it of every level (`Sized`): the numbers of the running contract and those kept
by the frames are within the gas used so far plus `FreeBytes`, and no argument is
longer than that. The gas used never falls, so a number once afforded stays so.
What is left is one fact for each way to make a number: a sum, a product, a
quotient, a remainder or a bitwise result has at most one byte more than its
operands together (`Fits`; for the bitwise functions, sums over the positions of the
bits), and useExtraGasForOperations has charged what the operands have beyond
`NormalLength` each, which is why twice that length and a byte are free; a shift is
charged by its result (`SetThenPaid`); bytes that become a number were
copied for gas or came with the transaction.
An int64, a balance and the value of the call become numbers without such a charge,
hence the word in `FreeBytes`.

`GatewayProofs`, from `GatewayAssumption` (the constants have their types, there
are finitely many storage keys, and fewer failures of the transport than nonces,
since otherwise a nonce could come round again):

| Theorem | Statement |
| --- | --- |
| `AcceptedGenuine` | `GatewaySpec => []AcceptedIsGenuine` |
| `IncreasesCounted` | `GatewaySpec => []NoncesCounted` |
| `OutputArrivesUnchanged` | `GatewaySpec => []OutputArrives` |

The invariant `GatewayInv` speaks of a Node that has not given up, as one that has
accepts nothing. It says which hook calls the operation may still have to make
(`TodoOfOperation`), where the one message of the dialogue is and what it carries
(`OneMessage`), how far apart the nonces are (`NoncesApart`: failed sends put
Arwen's ahead by as many, a failed receive leaves it one behind, and in both cases
the Node's next read refuses the message), and that the output account counts from
the nonce the Node answered (`CountsIncreases`). `OutputSurvives` says that a
VMOutput comes back from the lists as it went in; it needs what the loop over the
keys visits (`KeysReached`).

`PromisesProofs`, from `PromisesAssumption` (amounts of gas are words, no
destination is in this shard and another):

| Theorem | Statement |
| --- | --- |
| `GasSharedOut` | `PromisesSpec => []GasForwarded` |
| `NoCallForgotten` | `PromisesSpec => []NoneForgotten` |
| `CalledBackOnce` | `PromisesSpec => []CallerCalledWhenResolved` |

`PromisesInv` follows the phases of the first transaction: nothing has left the
shard before the pending calls are sent (`Nowhere`); a call was executed if and only
if its callback has run, and one of this shard that stayed pending has taken all the
gas (`Executed`), which is why it is never sent; the record is all that was pending
or nothing, and stays while a call is unanswered (`Recorded`). `NeededIsSum` shows
that the checked sum of what the calls ask for is exact unless its error is set,
`Shared` that the limits handed out add up to no more than what there is. Both rest
on `SumProofs`: what `FoldSet` computes over a finite set, obtained without a
theorem that takes an operator, as the function on the subsets that satisfies the
equation of the fold, with the induction as the absence of a smallest
counterexample.

`DeploymentProofs`, from `DeploymentAssumption` (the codes of existing contracts
are valid; new addresses are collision-free, as hashes are; no created contract is
a creator itself):

| Theorem | Statement |
| --- | --- |
| `DeploymentTypesHold` | `DeploymentSpec => []DeploymentTypeOK` |
| `OutputIsWhatHappened` | `DeploymentSpec => []OutputTellsWhatHappened` |
| `CodeIsVerified` | `DeploymentSpec => []DeployedIsVerified` |
| `InstancesRunWhatTheyShould` | `DeploymentSpec => []InstancesRunTheirCode` |
| `CreationsAreFresh` | `DeploymentSpec => CreatedAtFreshAddress` |

A frame keeps what its failure restores, so `DeploymentInv` says of every level of
the stacks what the properties say of the last one, and how a level follows from
the one below: an address with code is one its creator's nonce has passed or that
is being created (`NoncesPass`), no level loses a code that one below has
(`CodesStay`), only accounts of `codeUpdates` differ from the Node's
(`OnlyUpdates`). `PushedLevels` and `PoppedLevels` reduce a push and a pop to the
last level.

`VMHostProofs`, from `ContextsAssumption` and `HostAssumption` (the constants have
their types, no account is in this shard and another):

| Theorem | Statement |
| --- | --- |
| `VMInvariant` | `Spec => []VMInv` |
| `VMTypesHold` | `Spec => []TypeOK` |
| `StacksStayBalanced` | `Spec => []StacksBalanced` |
| `InstancesAreOwn` | `Spec => []InstanceOfItsOwn` |
| `ValueIsConserved` | `Spec => []ValueConserved` |
| `FailuresRollBack` | `Spec => FailureRollsBack` |

A nested execution pushes what its caller had onto seven stacks, and its frame
remembers it (`before`). `VMInv` says that every stack holds, level by level, what
the frames remember (`Saved`), with the storage stack one entry for each execution
on another context only; that every level is well formed and runs on the instance
of its number; and that the balance changes of every level, the remembered ones
too, sum up to the value of the transaction, with no contract below zero
(`Conserves`). None of the properties is inductive without the others: a pop
restores value, instance and storage address from stacks that earlier pushes made.
`KeptLevel`, `PushedLevel` and `PoppedLevel` carry a level over an operation that
leaves the stacks alone, over a push and over a pop; each action has a lemma of its
own, and the lemmas of the actions that end an execution prove its rollback too,
by comparing what was popped with `before`.

`GasProofs`, from the same assumptions (there are finitely many accounts, since gas
is summed over them), on top of `VMInv`:

| Theorem | Statement |
| --- | --- |
| `GasInvariant` | `Spec => []GasInv` |
| `GasIsConserved` | `Spec => []GasConserved` |
| `GasIsAttributed` | `Spec => []GasAttributed` |
| `GasIsNeverMinted` | `Spec => GasNeverMinted` |

The two properties on the end of a transaction say nothing of the states before,
and the figures of the metering context are only right at some points: the points
of a caller that waits already include all the gas it gave to the call, gas locked
for a callback counts as used until the callback gets it, and what accounts have used
is brought up to date when an execution ends. `GasInv` says what holds at every
level. `Accounted` relates the ledger when an execution began with the ledger now:
what was burnt and forwarded in between is its initial cost and its points less the
lock, and what each other account burnt is what the metering state says it used.
It is stated for the running contract (`Open`) and for each caller as of the moment
it made its call (`Waits`), with the points that its instance has now being those
of then and the gas of the call (`Callers`), unless the call fails before the gas is
used (`Early`). `Provided` splits the gas of a level into initial cost and gas for
execution. `Sends` says whose output transfers carry gas, which checkGas counts: no
contract's while all gas sent was paid for, and nobody's while none left the shard.
The equations hold while nothing was sent uncharged (`Sound`) and the attribution
while nothing left the shard (`Inside`); a ledger only grows (`Grows`), so a level
that is outside of these conditions stays so, whatever its failed calls restored.
`Reached` is the goal of every action: the invariant in the next state, and no more
gas available than before; `GasIsNeverMinted` is its second half. The lemmas
follow the code: what a push, a `UseGas`, a lock, a transfer and a built-in function do
to points and ledger, then one lemma per action, with the returns split into success
(`Rejoins`) and failure (`Recovers`).

Only model-checked:

- liveness (`OperationReturnsOrReadsForever`, `CallerAnswered`): it needs fairness
  and ENABLED, which the proof system does not handle. `GasIsNeverMinted` is the
  safety half of why executions end;
- the three runs that expect a violation: there is nothing to prove.

Every invariant and every action property that a run checks is stated by a theorem,
as is the refinement of `ArwenService`.

## 5. Not modelled

- Go panics inside a transaction (caught by the host), warm instances, the
  branches for epochs before the flags were set;
- transfers of NFTs; built-in functions by name other
  than ESDTTransfer;
- the gas of deployments;
- marshaling, logging and command line plumbing: no control beyond failing, which
  the models have as a failed start or a message that cannot be sent or read;
- cryptography, big.Int, Wasmer: libraries, external where the code uses them;
- gas schedule parsing: costs are constants;
- Mandos, arwendebug, mocks and test support: tools around the host, sequential.

## 6. Plan

1. An abstract specification of a contract call (gas, value and rollback only)
   that `VMHost` implements through a refinement mapping.
2. Go panics inside a transaction, with what ClearContextStateStack leaves; the
   gas of deployments; warm instances.
