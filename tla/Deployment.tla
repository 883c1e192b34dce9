----------------------------- MODULE Deployment -----------------------------
(***************************************************************************)
(* Where the code of contracts comes from and goes to: deployments and     *)
(* upgrades by a transaction or by another contract, the code that the     *)
(* output context collects for the Node, the addresses of new contracts,   *)
(* and the cache of compiled code, which outlives transactions.            *)
(*                                                                         *)
(* A frame is one execution on the stacks of the host; what contracts do   *)
(* in it is any sequence of creations, upgrades and calls.  Gas may end    *)
(* anywhere, which is a failure of the frame.  Warm instances are off.     *)
(***************************************************************************)
EXTENDS Integers, Sequences, SequencesExt, FiniteSets, CodeValidator

CONSTANTS
    Codes, WasmModule,    \* codes (each is its own hash), and what they compile to
    User,                 \* who sends transactions
    Creators,             \* the user and the contracts that may create others
    NewAddressOf,         \* the address of a creator's n-th contract
    Genesis,              \* the accounts with code at first, and that code
    Owner,                \* who may upgrade them, if they are upgradeable
    AotModes,             \* whether ahead-of-time compilation is enabled
    MaxFrames, MaxTxs, MaxOperations   \* bounds, for all transactions together

Existing == DOMAIN Genesis
Created == UNION {{NewAddressOf[c][n] : n \in DOMAIN NewAddressOf[c]} : c \in Creators}
Addresses == Existing \cup Created
NoCode == "no code"
Nobody == "nobody"

\* The contracts that exist have been verified, and a user is not a contract.
\* Bound: contracts that are created do not create others.
ASSUME DeploymentAssumption ==
    /\ Genesis \in [Existing -> Codes]
    /\ \A a \in Existing : IsValid(WasmModule[Genesis[a]])
    /\ User \in Creators \ Addresses
    /\ Creators \cap Created = {} /\ Existing \cap Created = {}
    /\ \A c \in Creators : DOMAIN NewAddressOf[c] \subseteq Nat
    /\ AotModes \subseteq BOOLEAN /\ MaxFrames \in Nat \ {0}
    /\ \A c, d \in Creators :
          \A n \in DOMAIN NewAddressOf[c], m \in DOMAIN NewAddressOf[d] :
              NewAddressOf[c][n] = NewAddressOf[d][m] => c = d /\ n = m
    /\ NoCode \notin Codes /\ Nobody \notin Addresses

VARIABLES
    aot,        \* IsAheadOfTimeCompileEnabled()
    chain,      \* the Node: the code and the nonce of every account
    compiled,   \* the Node: for a hash, the code whose compilation is cached
    out,        \* outputState.OutputAccounts: code, deployer and nonce
    codeUpdates,
    verifyCode, \* of the runtime context
    frames,     \* the executions on the stacks, the running one last
    ops, txs,   \* counters for the bounds
    eff,        \* what the code of every account is, by what has succeeded
    ghost       \* [unverified, stale, over]: see the properties

vars == <<aot, chain, compiled, out, codeUpdates, verifyCode, frames, ops, txs,
          eff, ghost>>

EmptyAccount == [code |-> NoCode, deployer |-> Nobody, nonce |-> 0]
EmptyOutput == [a \in Addresses \cup Creators |-> EmptyAccount]

top == frames[Len(frames)]
self == top.address
Below == Front(frames)

-----------------------------------------------------------------------------
(* The contexts.                                                            *)

\* blockchain.GetCode: an account without code here gets that of the Node.
GetCode(o, a) == IF o[a].code # NoCode THEN o[a].code ELSE chain.code[a]
CacheCode(o, a) == [o EXCEPT ![a].code = GetCode(o, a)]

GetNonce(o, a) == IF o[a].nonce # 0 THEN o[a].nonce ELSE chain.nonce[a]

\* A mutant: a creation is not counted.
NonceStays(o, a) == o

IncreaseNonce(o, a) == [o EXCEPT ![a].nonce = GetNonce(o, a) + 1]

\* The Node has counted the transaction in the nonce of the user already.
NewAddress(creator, nonce) ==
    NewAddressOf[creator][IF creator = User /\ nonce > 0 THEN nonce - 1 ELSE nonce]

\* Bound: the contracts a creator can make.
HasNewAddress(creator, nonce) == nonce \in DOMAIN NewAddressOf[creator]

AccountExists(a) == chain.code[a] # NoCode

DeployCode(o, a, code, deployer) ==
    [o EXCEPT ![a].code = code, ![a].deployer = deployer]

\* A mutant: nothing is deleted.
KeepOutputAccount(o, updates, a) == [out |-> o, codeUpdates |-> updates]

DeleteOutputAccount(o, updates, a) ==
    [out |-> [o EXCEPT ![a] = EmptyAccount], codeUpdates |-> updates \ {a}]

\* removeNonUpdatedCode, the part of GetVMOutput that is about code.
GetVMOutput(o, updates) ==
    [a \in DOMAIN o |-> IF a \in updates THEN o[a]
                        ELSE [o[a] EXCEPT !.code = NoCode, !.deployer = Nobody]]

\* mergeVMOutputs: what is empty on the right does not replace what is left.
MergeVMOutputs(left, right) ==
    [a \in DOMAIN left |->
        [code |-> IF right[a].code # NoCode THEN right[a].code ELSE left[a].code,
         deployer |-> IF right[a].deployer # Nobody THEN right[a].deployer
                                                    ELSE left[a].deployer,
         nonce |-> IF right[a].nonce > left[a].nonce THEN right[a].nonce
                                                     ELSE left[a].nonce]]

-----------------------------------------------------------------------------
(* StartWasmerInstance, for the account a that is to run the code c.        *)
CodeHash(a) == chain.code[a]

UsesCompiledCode(a, newCode) ==
    aot /\ ~newCode /\ CodeHash(a) # NoCode /\ compiled[CodeHash(a)] # NoCode

\* A mutant: the hash of the account's code serves for the new code too.
HashOfAccount(a, c, newCode) == IF CodeHash(a) = NoCode THEN c ELSE CodeHash(a)

\* The hash under which the compilation of c is saved.
HashToSave(a, c, newCode) ==
    IF newCode \/ CodeHash(a) = NoCode THEN c ELSE CodeHash(a)

\* What the instance runs, and the cache after it was made.  The compilation
\* is saved before the code is verified.
Instance(a, c, newCode) ==
    IF UsesCompiledCode(a, newCode) THEN compiled[CodeHash(a)] ELSE c
CompiledAfter(a, c, newCode) ==
    IF UsesCompiledCode(a, newCode) THEN compiled
    ELSE [compiled EXCEPT ![HashToSave(a, c, newCode)] = c]

\* An instance made from the cache switches the verification of the next code off,
\* for every execution that is under way.
VerifyCodeAfter(a) == verifyCode /\ ~UsesCompiledCode(a, FALSE)

\* VerifyContractCode, called for new code only, and not for an instance that
\* was made from the cache.
VerifyContractCode(a, c, newCode, mustVerify) ==
    ~UsesCompiledCode(a, newCode) /\ newCode /\ mustVerify => IsValid(WasmModule[c])

\* A mutant: the flag is not set.
VerifyNothing == FALSE

MustVerifyNextContractCode == TRUE

Frame(kind, address, code, running, caller, o, e) ==
    [kind |-> kind, address |-> address, code |-> code, running |-> running,
     caller |-> caller, out |-> o, eff |-> e, next |-> "run"]

-----------------------------------------------------------------------------
DeploymentInit ==
    /\ aot \in AotModes
    /\ chain = [code |-> [a \in Addresses |->
                            IF a \in Existing THEN Genesis[a] ELSE NoCode],
                nonce |-> [c \in Creators |-> 0]]
    /\ compiled \in {[c \in Codes |-> NoCode],
                     [c \in Codes |-> IF \E a \in Existing : Genesis[a] = c
                                      THEN c ELSE NoCode]}
    /\ out = EmptyOutput /\ codeUpdates = {} /\ verifyCode = FALSE
    /\ frames = << >> /\ ops = 0 /\ txs = 0
    /\ eff = chain.code
    /\ ghost = [unverified |-> {}, stale |-> FALSE, over |-> FALSE]

Idle == frames = << >>
Running == frames # << >> /\ top.next = "run" /\ ops < MaxOperations

BeginTransaction ==
    /\ Idle /\ txs < MaxTxs
    /\ txs' = txs + 1
    /\ UNCHANGED <<ops, codeUpdates>>

\* InitState of the host, which is called before the next transaction.
InitState ==
    /\ frames' = << >>
    /\ out' = EmptyOutput
    /\ codeUpdates' = {}
    /\ verifyCode' = FALSE

(* performCodeDeployment up to the init function: for the code c at a.      *)
performCodeDeployment(kind, a, c) ==
    LET valid == VerifyContractCode(a, c, TRUE, MustVerifyNextContractCode)
    IN  /\ compiled' = CompiledAfter(a, c, TRUE)
        /\ out' = EmptyOutput
        /\ verifyCode' = FALSE
        /\ frames' = IF valid
                     THEN <<Frame(kind, a, c, Instance(a, c, TRUE), User,
                                  EmptyOutput, eff)>>
                     ELSE << >>

RunSmartContractCreate(c) ==
    LET counted == [chain EXCEPT !.nonce[User] = @ + 1]
    IN  /\ BeginTransaction
        /\ HasNewAddress(User, chain.nonce[User])
        /\ chain' = counted
        /\ performCodeDeployment("create", NewAddress(User, counted.nonce[User]), c)
        /\ UNCHANGED <<aot, eff, ghost>>

\* The Node checks that the sender may upgrade the account.
RunSmartContractUpgrade(a, c) ==
    /\ BeginTransaction
    /\ a \in Existing /\ Owner[a] = User
    /\ performCodeDeployment("upgrade", a, c)
    /\ UNCHANGED <<aot, chain, eff, ghost>>

\* execute, and doRunSmartContractCall: the account's code is started with
\* the contexts that are already prepared in o and fs.
Start(kind, a, caller, o, fs, e) ==
    LET c == GetCode(o, a)
    IN  /\ compiled' = CompiledAfter(a, c, FALSE)
        /\ out' = CacheCode(o, a)
        /\ frames' = Append(fs, Frame(kind, a, c, Instance(a, c, FALSE), caller, o, e))
        /\ ghost' = [ghost EXCEPT !.stale = @ \/ CodeHash(a) \notin {c, NoCode}]

RunSmartContractCall(a) ==
    /\ BeginTransaction
    /\ chain.code[a] # NoCode
    /\ Start("call", a, User, EmptyOutput, << >>, eff)
    /\ verifyCode' = FALSE
    /\ UNCHANGED <<aot, chain, eff>>

-----------------------------------------------------------------------------
(* What a running contract does.                                            *)
(* The instance that runs is pushed before another one is started, and at   *)
(* most maxWasmerInstances may be on the stack.                             *)
CanStart == Len(frames) < MaxFrames

\* A mutant: an account without code is started.
CallWithoutCode(a) ==
    /\ Running /\ CanStart
    /\ ops' = ops + 1
    /\ Start("call", a, self, out, frames, eff)
    /\ verifyCode' = VerifyCodeAfter(a)
    /\ UNCHANGED <<aot, chain, codeUpdates, txs, eff>>

Call(a) ==
    /\ Running /\ CanStart
    /\ GetCode(out, a) # NoCode
    /\ ops' = ops + 1
    /\ Start("call", a, self, out, frames, eff)
    /\ verifyCode' = VerifyCodeAfter(a)
    /\ UNCHANGED <<aot, chain, codeUpdates, txs, eff>>

(* CreateNewContract up to the init function.  The account is put into the  *)
(* output before the contexts are pushed, and its code is not new to the    *)
(* instance that runs it: it is not verified.                               *)
CreateNewContract(c) ==
    LET a == NewAddress(self, GetNonce(out, self))
    IN  /\ Running /\ CanStart
        /\ self \in Creators /\ HasNewAddress(self, GetNonce(out, self))
        /\ ~AccountExists(a)
        /\ ops' = ops + 1
        /\ codeUpdates' = codeUpdates \cup {a}
        /\ verifyCode' = MustVerifyNextContractCode
        /\ eff' = [eff EXCEPT ![a] = c]
        /\ LET o == DeployCode(out, a, c, self)
           IN  /\ compiled' = CompiledAfter(a, c, FALSE)
               /\ out' = o
               /\ frames' = Append(frames, Frame("create", a, c,
                                     Instance(a, c, FALSE), self, o, eff))
        /\ ghost' = [ghost EXCEPT !.unverified = @ \cup {a},
                                  !.over = @ \/ eff[a] # NoCode]
        /\ UNCHANGED <<aot, chain, txs>>

(* upgradeContract is an asynchronous call: the caller goes on in its       *)
(* callback, whether the upgrade succeeds or not.                           *)
DueCallback(fs) == [fs EXCEPT ![Len(fs)].next = "callback"]

AfterCallback == [frames EXCEPT ![Len(frames)].next = "done"]

CallBack ==
    /\ frames # << >> /\ top.next = "callback"
    /\ GetCode(out, self) # NoCode
    /\ Start("callback", self, self, out, AfterCallback, eff)
    /\ verifyCode' = VerifyCodeAfter(self)
    /\ UNCHANGED <<aot, chain, codeUpdates, ops, txs, eff>>

\* The code of a contract whose creation has not ended is not found: the
\* callback fails, which its caller does not notice.
CallBackFindsNoCode ==
    /\ frames # << >> /\ top.next = "callback"
    /\ GetCode(out, self) = NoCode
    /\ frames' = AfterCallback
    /\ UNCHANGED <<aot, chain, compiled, out, codeUpdates, verifyCode, ops, txs,
                   eff, ghost>>

checkUpgradePermission(a) == a \in Existing /\ Owner[a] = self

\* executeUpgrade up to the init function.
executeUpgrade(a, c) ==
    /\ Running /\ CanStart
    /\ ops' = ops + 1
    /\ checkUpgradePermission(a)
    /\ compiled' = CompiledAfter(a, c, TRUE)
    /\ LET valid == VerifyContractCode(a, c, TRUE, MustVerifyNextContractCode)
           f == Frame("upgrade", a, c, Instance(a, c, TRUE), self, out, eff)
       IN  frames' = IF valid THEN Append(frames, f) ELSE DueCallback(frames)
    /\ verifyCode' = FALSE
    /\ UNCHANGED <<aot, chain, out, codeUpdates, txs, eff, ghost>>

UpgradeRefused(a) ==
    /\ Running /\ CanStart
    /\ ops' = ops + 1
    /\ ~checkUpgradePermission(a)
    /\ frames' = DueCallback(frames)
    /\ UNCHANGED <<aot, chain, compiled, out, codeUpdates, verifyCode, txs, eff, ghost>>

-----------------------------------------------------------------------------
(* The end of a nested execution.                                           *)
Resume(kind) == frames' = IF kind = "upgrade" THEN DueCallback(Below) ELSE Below

MayEnd == frames # << >> /\ top.next # "callback"
MayFail == frames # << >> /\ top.next = "run"

Deploys(f) == f.kind = "upgrade"
Updates(f) == IF Deploys(f) THEN codeUpdates \cup {f.address} ELSE codeUpdates
OutputOf(f) ==
    GetVMOutput(IF Deploys(f) THEN DeployCode(out, f.address, f.code, f.caller)
                              ELSE out, Updates(f))
EffOf(f) == IF Deploys(f) THEN [eff EXCEPT ![f.address] = f.code] ELSE eff

ReturnNested ==
    LET merged == MergeVMOutputs(top.out, OutputOf(top))
        o == IF top.kind = "create" THEN IncreaseNonce(merged, top.caller) ELSE merged
    IN  /\ Len(frames) > 1 /\ MayEnd
        /\ codeUpdates' = Updates(top)
        /\ eff' = EffOf(top)
        /\ out' = o
        /\ Resume(top.kind)
        /\ UNCHANGED <<aot, chain, compiled, verifyCode, ops, txs, ghost>>

\* The contexts are as they were, but for codeUpdates, which no stack keeps.
FailNested ==
    LET left == IF top.kind = "create"
                THEN DeleteOutputAccount(top.out, codeUpdates, top.address)
                ELSE [out |-> top.out, codeUpdates |-> codeUpdates]
    IN  /\ Len(frames) > 1 /\ MayFail
        /\ codeUpdates' = left.codeUpdates
        /\ out' = left.out
        /\ eff' = top.eff
        /\ Resume(top.kind)
        /\ UNCHANGED <<aot, chain, compiled, verifyCode, ops, txs, ghost>>

\* The end of the transaction: the Node takes the output over.
DeploysAtTop(f) == f.kind \in {"create", "upgrade"}
FinalUpdates == IF DeploysAtTop(top) THEN codeUpdates \cup {self} ELSE codeUpdates
FinalOutput ==
    GetVMOutput(IF DeploysAtTop(top) THEN DeployCode(out, self, top.code, User)
                                     ELSE out, FinalUpdates)

ReturnTransaction ==
    /\ Len(frames) = 1 /\ MayEnd
    /\ InitState
    /\ eff' = IF DeploysAtTop(top) THEN [eff EXCEPT ![self] = top.code] ELSE eff
    /\ chain' = [code |-> [a \in Addresses |->
                             IF FinalOutput[a].code # NoCode
                             THEN FinalOutput[a].code ELSE chain.code[a]],
                 nonce |-> [c \in Creators |-> GetNonce(FinalOutput, c)]]
    /\ UNCHANGED <<aot, compiled, ops, txs, ghost>>

FailTransaction ==
    /\ Len(frames) = 1 /\ MayFail
    /\ InitState
    /\ eff' = top.eff
    /\ UNCHANGED <<aot, chain, compiled, ops, txs, ghost>>

\* The Node's cache forgets.
EvictCompiledCode(h) ==
    /\ Idle
    /\ compiled[h] # NoCode
    /\ compiled' = [compiled EXCEPT ![h] = NoCode]
    /\ UNCHANGED <<aot, chain, out, codeUpdates, verifyCode, frames, ops, txs,
                   eff, ghost>>

DeploymentNext ==
    \/ \E c \in Codes : RunSmartContractCreate(c)
    \/ \E a \in Existing, c \in Codes : RunSmartContractUpgrade(a, c)
    \/ \E a \in Addresses : RunSmartContractCall(a)
    \/ \E a \in Addresses : Call(a)
    \/ \E c \in Codes : CreateNewContract(c)
    \/ \E a \in Existing, c \in Codes : executeUpgrade(a, c)
    \/ \E a \in Existing : UpgradeRefused(a)
    \/ CallBack
    \/ CallBackFindsNoCode
    \/ ReturnNested
    \/ FailNested
    \/ ReturnTransaction
    \/ FailTransaction
    \/ \E h \in Codes : EvictCompiledCode(h)

DeploymentSpec == DeploymentInit /\ [][DeploymentNext]_vars

-----------------------------------------------------------------------------
FrameKinds == {"create", "upgrade", "call", "callback"}

(* The state has its types: every execution on the stacks, of which there    *)
(* are no more than MaxFrames, is that of an account with code.              *)
DeploymentTypeOK ==
    /\ aot \in BOOLEAN /\ verifyCode \in BOOLEAN
    /\ chain.code \in [Addresses -> Codes \cup {NoCode}]
    /\ chain.nonce \in [Creators -> Nat]
    /\ compiled \in [Codes -> Codes \cup {NoCode}]
    /\ out \in [Addresses \cup Creators ->
                   [code : Codes \cup {NoCode}, nonce : Nat,
                    deployer : Addresses \cup Creators \cup {Nobody}]]
    /\ codeUpdates \subseteq Addresses
    /\ eff \in [Addresses -> Codes \cup {NoCode}]
    /\ Len(frames) <= MaxFrames
    /\ \A i \in DOMAIN frames :
          /\ frames[i].kind \in FrameKinds /\ frames[i].address \in Addresses
          /\ frames[i].code \in Codes /\ frames[i].running \in Codes

(* What the Node learns is what happened: after a transaction every account  *)
(* has the code that the deployments and upgrades that took effect gave it,  *)
(* with those of failed executions undone, although the codeUpdates of a     *)
(* failed execution are not.  (Not so if a contract was created over another *)
(* one: see NoDeploymentOverExisting.)                                       *)
OutputTellsWhatHappened == Idle /\ ~ghost.over => chain.code = eff

(* Code that is deployed or upgraded by a transaction, or upgraded by a      *)
(* contract, has passed VerifyContractCode, also when its compilation was in *)
(* the cache.  (Code that a contract creates is not verified.)               *)
DeployedIsVerified ==
    \A a \in Addresses :
        eff[a] \in Codes /\ ~IsValid(WasmModule[eff[a]]) => a \in ghost.unverified

(* The cache holds under a hash the compilation of the code with that hash,  *)
(* and an instance runs the code it was started for, in whatever order codes *)
(* are deployed, evicted, upgraded and run - as long as no account upgraded  *)
(* in a transaction is run again in the same transaction.                    *)
InstancesRunTheirCode ==
    ~ghost.stale =>
        /\ \A h \in Codes : compiled[h] \in {h, NoCode}
        /\ \A i \in DOMAIN frames : frames[i].running = frames[i].code

StartsCreation == Len(frames') > Len(frames) /\ frames'[Len(frames')].kind = "create"
NewContract == frames'[Len(frames')].address

(* A contract is created at an address that has no code, unless the creator  *)
(* is called by the init function of a contract it is just creating: its     *)
(* nonce is increased when that function has returned.                       *)
CreatedAtFreshAddress ==
    [][StartsCreation =>
          \/ eff[NewContract] = NoCode
          \/ \E i \in DOMAIN frames : /\ frames[i].kind = "create"
                                      /\ frames[i].address = NewContract]_vars

(* "cannot deploy over existing account": no contract is created at an       *)
(* address that has code already.                                            *)
NoDeploymentOverExisting == [][StartsCreation => eff[NewContract] = NoCode]_vars
=============================================================================
