---------------------------- MODULE GatewayProofs ----------------------------
(***************************************************************************)
(* Proofs about BlockchainGateway, for every modulus of the nonces, every   *)
(* nonce of the account, every finite set of storage keys and any number of *)
(* operations, failures (less than the modulus) and errors of the hook.     *)
(*                                                                          *)
(* All that matters is said of a Node that has not given up: once it has,   *)
(* it accepts nothing.                                                      *)
(***************************************************************************)
EXTENDS BlockchainGateway, FiniteSetTheorems, SequenceTheorems, TLAPS

-----------------------------------------------------------------------------
(* The inductive invariant.                                                 *)

\* The storage updates of the keys D.
UpdatesOf(D) == [k \in D |-> StorageUpdate(k, Real)]

OwnAccounts ==
    [known : BOOLEAN, nonce : Nat, balance : BOOLEAN, code : BOOLEAN,
     updates : {UpdatesOf(D) : D \in SUBSET Offsets}]

GatewayTypes ==
    /\ chainNonce \in Nat
    /\ node \in {"serving", "gaveUp", "accepted"}
    /\ loop \in {"running", "waiting", "ended"}
    /\ arwenNonce \in 0 .. NonceModulus - 1 /\ nodeNonce \in 0 .. NonceModulus - 1
    /\ out \in OwnAccounts
    /\ result = [arwen |-> result.arwen, node |-> result.node]
    /\ tainted \in BOOLEAN /\ errors \in Nat /\ increases \in Nat
    /\ failed \in [sends : Nat, receives : Nat]
    /\ failed.sends + failed.receives <= MaxFailures

\* The hook calls an operation may still have to make.
NonceOperations == {"NewAddress", "GetNonce", "IncreaseNonce"}
TodosOf(f) ==
    CASE f = "none" -> {<<>>}
      [] f = "NewAddress" -> {<<GetUserAccount, IsSmartContract, NewAddress>>,
                              <<IsSmartContract, NewAddress>>, <<NewAddress>>}
      [] f \in {"GetCode", "GetCodeSize"} -> {<<GetUserAccount, GetCode>>, <<GetCode>>}
      [] f = "BlockHash" -> {<<GetBlockhash>>}
      [] f = "PushState" -> {<<GetSnapshot>>}
      [] f = "PopSetActiveState" -> {<<RevertToSnapshot>>}
      [] f = "forward" -> {<<kind>> : kind \in HookRequest}
      [] OTHER -> {<<GetUserAccount>>}

TodoOfOperation ==
    /\ operation \in Context \cup {"forward", "none"}
    /\ todo \in TodosOf(operation)
    /\ loop = "waiting" => operation # "none"

\* What the hook answers when it does not fail.
Genuine(kind) ==
    Answer(IF kind = GetUserAccount /\ chainNonce = 0 THEN Zero ELSE Real, FALSE)

\* Where the one message between the two sides is.
Request(m) == m.kind = Head(todo) /\ m.nonce = arwenNonce
Response(m) ==
    /\ IsHookCall(Head(todo)) /\ m.kind = Head(todo) + 1
    /\ m.nonce = Inc(arwenNonce) /\ nodeNonce = m.nonce
    /\ errors = 0 => m.content = Genuine(Head(todo))
Output(m) ==
    /\ m.kind = ContractResponse /\ m.nonce = arwenNonce
    /\ ConvertToVMOutput(m.content) = result.arwen

OneMessage ==
    /\ loop = "running" => node = "serving" /\ toNode = <<>> /\ toArwen = <<>>
    /\ loop = "waiting" =>
          /\ node = "serving"
          /\ \/ /\ toArwen = <<>>
                /\ toNode = <<toNode[1]>> /\ Request(toNode[1])
             \/ /\ toNode = <<>>
                /\ toArwen = <<toArwen[1]>> /\ Response(toArwen[1])
    /\ loop = "ended" =>
          /\ toArwen = <<>> /\ result.arwen = OutputOf(out)
          /\ \/ /\ node = "serving"
                /\ toNode = <<toNode[1]>> /\ Output(toNode[1])
             \/ node = "accepted" /\ result.node = result.arwen

\* The nonces: without a failure they agree; failed sends put Arwen's ahead by
\* as many, a failed receive leaves it one behind; and in either case the Node
\* answers nothing any more.
Sent == loop # "running" /\ toArwen = <<>>
Ahead(by) ==
    arwenNonce - nodeNonce \in {by - NonceModulus, by, by + NonceModulus}
Distance(by) == IF Sent THEN Ahead(by + 1) ELSE Ahead(by)
NoncesApart ==
    /\ failed.sends = 0 /\ failed.receives = 0 =>
          ~tainted /\ (loop = "running" \/ (Sent /\ node = "serving") => Distance(0))
    /\ failed.sends > 0 /\ failed.receives = 0 =>
          node = "serving" /\ toArwen = <<>> /\ Distance(failed.sends)
    /\ failed.sends = 0 /\ failed.receives > 0 =>
          node = "serving" /\ toArwen = <<>> /\ Distance(-1)

\* The nonce in the output account counts the increases from the Node's.
CountsIncreases ==
    /\ increases > 0 => out.known /\ out.nonce = chainNonce + increases
    /\ increases = 0 => out.nonce = 0 \/ (out.known /\ out.nonce = chainNonce)
    /\ operation \in NonceOperations => out.known
    /\ operation \in NonceOperations /\ Head(todo) = GetUserAccount =>
          increases = 0 /\ out.nonce = 0

Dialogue ==
    /\ TodoOfOperation
    /\ OneMessage
    /\ NoncesApart
    /\ ~tainted /\ errors = 0 => CountsIncreases

GatewayInv == GatewayTypes /\ (node # "gaveUp" => Dialogue)

-----------------------------------------------------------------------------
(* Nonces count modulo NonceModulus. *)
LEMMA IncIs ==
    ASSUME NEW x \in 0 .. NonceModulus - 1
    PROVE  /\ Inc(x) \in 0 .. NonceModulus - 1
           /\ Inc(x) = IF x + 1 = NonceModulus THEN 0 ELSE x + 1
<1>1. NonceModulus \in Nat /\ NonceModulus > 1
  BY GatewayAssumption
<1>2. (x + 1) % NonceModulus = IF x + 1 = NonceModulus THEN 0 ELSE x + 1
  BY <1>1, SMT
<1> QED
  BY <1>1, <1>2 DEF Inc

(* A list of all the keys of a map (in any order) reaches every key, once. *)
LEMMA KeysReached ==
    ASSUME NEW S, IsFiniteSet(S), NEW keys \in SetToSeqs(S)
    PROVE  /\ keys \in [1 .. Cardinality(S) -> S]
           /\ \A i, j \in DOMAIN keys : keys[i] = keys[j] => i = j
           /\ \A k \in S : \E i \in DOMAIN keys : keys[i] = k
<1> DEFINE n == Cardinality(S)
<1>1. n \in Nat
  BY FS_CardinalityType
<1>2. /\ keys \in [1 .. n -> S]
      /\ \A i, j \in 1 .. n : i # j => keys[i] # keys[j]
  BY DEF SetToSeqs
<1>3. IsFiniteSet(1 .. n) /\ Cardinality(1 .. n) = n
  BY <1>1, FS_Interval
<1>4. keys \in Injection(1 .. n, S)
  BY <1>2 DEF Injection, IsInjective
<1>5. keys \in Surjection(1 .. n, S)
  BY <1>3, <1>4, FS_Injection
<1> QED
  BY <1>2, <1>5 DEF Surjection

(* The storage updates survive the pipe. *)
LEMMA UpdatesSurvive ==
    ASSUME NEW D, IsFiniteSet(D), NEW offsets \in SetToSeqs(D)
    PROVE  MapBy(Walk(UpdatesOf(D), offsets), LAMBDA u : u.offset) = UpdatesOf(D)
<1> DEFINE list == Walk(UpdatesOf(D), offsets)
           KeyOf(u) == u.offset
<1>0. /\ offsets \in [1 .. Cardinality(D) -> D]
      /\ \A i, j \in DOMAIN offsets : offsets[i] = offsets[j] => i = j
      /\ \A k \in D : \E i \in DOMAIN offsets : offsets[i] = k
      /\ Cardinality(D) \in Nat
  BY KeysReached, FS_CardinalityType
<1>1. /\ DOMAIN list = DOMAIN offsets
      /\ \A i \in DOMAIN list : list[i] = StorageUpdate(offsets[i], Real)
  BY <1>0 DEF Walk, UpdatesOf
<1>2. \A i \in DOMAIN list : KeyOf(list[i]) = offsets[i]
  BY <1>1 DEF StorageUpdate
<1>3. {KeyOf(list[i]) : i \in DOMAIN list} = D
  BY <1>1, <1>2, <1>0
<1>4. ASSUME NEW k \in D
      PROVE  list[CHOOSE i \in DOMAIN list :
                      /\ KeyOf(list[i]) = k
                      /\ \A j \in DOMAIN list : KeyOf(list[j]) = k => j <= i]
             = StorageUpdate(k, Real)
  <2>1. PICK i \in DOMAIN list : offsets[i] = k
    BY <1>1, <1>0
  <2>2. \A j \in DOMAIN list : KeyOf(list[j]) = k => j = i
    BY <1>1, <1>2, <2>1, <1>0
  <2>3. i \in Nat
    BY <1>1, <1>0
  <2>4. /\ KeyOf(list[i]) = k
        /\ \A j \in DOMAIN list : KeyOf(list[j]) = k => j <= i
    BY <1>2, <2>1, <2>2, <2>3
  <2>5. (CHOOSE x \in DOMAIN list :
                      /\ KeyOf(list[x]) = k
                      /\ \A j \in DOMAIN list : KeyOf(list[j]) = k => j <= x) = i
    BY <2>1, <2>2, <2>4
  <2> QED
    BY <1>1, <2>1, <2>5
<1> QED
  BY <1>3, <1>4 DEF MapBy, UpdatesOf

(* What the Node gets is what Arwen had (newSerializableVMOutput and          *)
(* ConvertToVMOutput, ipc/common/serializableVMOutput.go).                   *)
LEMMA OutputSurvives ==
    ASSUME NEW known \in BOOLEAN, NEW nonce, NEW D, IsFiniteSet(D),
           NEW o, o.known = known, o.nonce = nonce, o.updates = UpdatesOf(D),
           NEW addresses \in SetToSeqs(DOMAIN OutputOf(o).accounts),
           NEW offsets \in SetToSeqs(D)
    PROVE  ConvertToVMOutput(NewSerializableVMOutput(OutputOf(o), addresses, offsets))
           = OutputOf(o)
<1> DEFINE keys == IF known THEN {"self"} ELSE {}
           account == OutputAccount("self", nonce, UpdatesOf(D))
           sent == NewSerializableOutputAccount(account, offsets)
           serialized == NewSerializableVMOutput(OutputOf(o), addresses, offsets)
           KeyOf(a) == a.address
           accounts == MapBy(serialized.accounts, KeyOf)
<1>1. OutputOf(o) = [code |-> "Ok", accounts |-> [a \in keys |-> account]]
  BY DEF OutputOf, VMOutput, EmptyMap, OutputAccount
<1>2. DOMAIN OutputOf(o).accounts = keys
  BY <1>1
<1>3. IsFiniteSet(keys) /\ Cardinality(keys) = IF known THEN 1 ELSE 0
  BY FS_EmptySet, FS_Singleton
<1>4. /\ addresses \in [1 .. Cardinality(keys) -> keys]
      /\ \A i, j \in DOMAIN addresses : addresses[i] = addresses[j] => i = j
      /\ \A k \in keys : \E i \in DOMAIN addresses : addresses[i] = k
  BY <1>2, <1>3, KeysReached
<1> DEFINE idx == DOMAIN addresses
<1>5. idx = IF known THEN {1} ELSE {}
  <2>1. idx = 1 .. Cardinality(keys)
    BY <1>4
  <2>2. 1 .. 1 = {1} /\ 1 .. 0 = {}
    OBVIOUS
  <2> QED
    BY <1>3, <2>1, <2>2
<1>6. serialized = [code |-> "Ok", accounts |-> [i \in idx |-> sent]]
  <2>1. Walk(OutputOf(o).accounts, addresses) = [i \in idx |-> account]
    <3>1. \A i \in idx : addresses[i] \in keys
      BY <1>4
    <3> QED
      BY <1>1, <3>1 DEF Walk
  <2>2. serialized = [OutputOf(o) EXCEPT !.accounts =
                        [i \in DOMAIN [j \in idx |-> account] |->
                           NewSerializableOutputAccount([j \in idx |-> account][i], offsets)]]
    BY <2>1 DEF NewSerializableVMOutput
  <2>3. [i \in DOMAIN [j \in idx |-> account] |->
            NewSerializableOutputAccount([j \in idx |-> account][i], offsets)]
        = [i \in idx |-> sent]
    OBVIOUS
  <2> QED
    BY <1>1, <2>2, <2>3
<1>7. sent = [address |-> "self", nonce |-> nonce, updates |-> Walk(UpdatesOf(D), offsets)]
  BY DEF NewSerializableOutputAccount, OutputAccount
<1>8. accounts = [a \in keys |-> sent]
  <2>1. {KeyOf(serialized.accounts[i]) : i \in DOMAIN serialized.accounts} = keys
    BY <1>5, <1>6, <1>7
  <2>2. \A i \in DOMAIN serialized.accounts : serialized.accounts[i] = sent
    BY <1>6
  <2>3. ASSUME NEW k \in keys
        PROVE  (CHOOSE i \in DOMAIN serialized.accounts :
                 /\ KeyOf(serialized.accounts[i]) = k
                 /\ \A j \in DOMAIN serialized.accounts :
                        KeyOf(serialized.accounts[j]) = k => j <= i)
               \in DOMAIN serialized.accounts
    <3>1. DOMAIN serialized.accounts = {1}
      BY <1>5, <1>6
    <3>2. KeyOf(serialized.accounts[1]) = k
      BY <1>6, <1>7, <3>1
    <3> QED
      BY <3>1, <3>2
  <2> QED
    BY <2>1, <2>2, <2>3 DEF MapBy
<1>9. ConvertToOutputAccount(sent) = account
  <2>1. MapBy(Walk(UpdatesOf(D), offsets), LAMBDA u : u.offset) = UpdatesOf(D)
    BY UpdatesSurvive
  <2>2. ConvertToOutputAccount(sent)
        = [sent EXCEPT !.updates = MapBy(sent.updates, LAMBDA u : u.offset)]
    BY DEF ConvertToOutputAccount
  <2>3. sent.updates = Walk(UpdatesOf(D), offsets)
    BY <1>7
  <2>4. ConvertToOutputAccount(sent) = [sent EXCEPT !.updates = UpdatesOf(D)]
    BY <2>1, <2>2, <2>3
  <2> QED
    BY <1>7, <2>4 DEF OutputAccount
<1>10. ConvertToVMOutput(serialized)
       = [serialized EXCEPT !.accounts =
              [a \in DOMAIN accounts |-> ConvertToOutputAccount(accounts[a])]]
  BY DEF ConvertToVMOutput
<1> QED
  BY <1>1, <1>6, <1>8, <1>9, <1>10

-----------------------------------------------------------------------------
(* The types, which every step keeps.                                       *)

(* What an answer leaves in the output account, and an increase. *)
LEMMA CachedType ==
    ASSUME GatewayTypes, NEW f, NEW kind, NEW answer
    PROVE  Cached(f, kind, answer) \in OwnAccounts
<1> DEFINE n == IF kind = GetUserAccount /\ answer.value = Real /\ f \in NonceOperations
                THEN chainNonce ELSE out.nonce
           b == out.balance \/ (f = "GetBalanceBigInt" /\ answer.value = Real)
           c == out.code \/ (f = "GetCode" /\ kind = GetCode /\ answer.value = Real)
<1>1. n \in Nat /\ b \in BOOLEAN /\ c \in BOOLEAN
  BY DEF GatewayTypes, OwnAccounts
<1>2. Cached(f, kind, answer) = [out EXCEPT !.nonce = n, !.balance = b, !.code = c]
  BY DEF Cached, GatewayTypes, OwnAccounts, NonceOperations
<1> HIDE DEF n, b, c
<1> QED
  BY <1>1, <1>2 DEF GatewayTypes, OwnAccounts

LEMMA IncreaseType ==
    ASSUME NEW o \in OwnAccounts
    PROVE  IncreaseNonce(o) \in OwnAccounts
  BY DEF OwnAccounts, IncreaseNonce

LEMMA TouchType ==
    ASSUME GatewayTypes, NEW f
    PROVE  [out EXCEPT !.known = @ \/ f \in TouchesOutputAccount] \in OwnAccounts
<1> DEFINE k == out.known \/ f \in TouchesOutputAccount
<1>1. k \in BOOLEAN
  OBVIOUS
<1> HIDE DEF k
<1>2. [out EXCEPT !.known = k] \in OwnAccounts
  BY <1>1 DEF GatewayTypes, OwnAccounts
<1> QED
  BY <1>2 DEF k

LEMMA EndOperationTypes ==
    ASSUME GatewayTypes, NEW f,
           NEW o \in OwnAccounts,
           EndOperation(f, o)
    PROVE  /\ out' \in OwnAccounts
           /\ increases' \in Nat
  BY IncreaseType DEF EndOperation, GatewayTypes

LEMMA ProceedTypes ==
    ASSUME GatewayTypes, NEW answer, Proceed(answer)
    PROVE  /\ out' \in OwnAccounts
           /\ increases' \in Nat
<1> DEFINE o == Cached(operation, Head(todo), answer)
<1>1. o \in OwnAccounts
  BY CachedType
<1>2. EndOperation(operation, o) \/ (out' = o /\ UNCHANGED increases)
  BY DEF Proceed
<1> QED
  BY <1>1, <1>2, EndOperationTypes DEF GatewayTypes

LEMMA TypesStep == GatewayTypes /\ [GatewayNext]_gatewayVars => GatewayTypes'
<1> SUFFICES ASSUME GatewayTypes, [GatewayNext]_gatewayVars PROVE GatewayTypes'
  OBVIOUS
<1>1. CASE UNCHANGED gatewayVars
  BY <1>1 DEF gatewayVars, wires, program, ghosts, GatewayTypes
<1> SUFFICES ASSUME GatewayNext PROVE GatewayTypes'
  BY <1>1
<1>0. UNCHANGED chainNonce /\ MaxFailures \in Nat
  BY GatewayAssumption DEF GatewayNext
<1>2. CASE Refuses \/ ReplyFails \/ TimeExpires
  BY <1>0, <1>2 DEF Refuses, ReplyFails, TimeExpires, NodeStops, program, GatewayTypes
<1>3. CASE ReplyToHookCall
  <2>1. nodeNonce' \in 0 .. NonceModulus - 1
    BY <1>3, IncIs DEF ReplyToHookCall, GatewayTypes
  <2>2. errors' \in Nat
    BY <1>3 DEF ReplyToHookCall, GatewayTypes
  <2> QED
    BY <1>0, <1>3, <2>1, <2>2 DEF ReplyToHookCall, program, GatewayTypes
<1>4. CASE AcceptResponse
  BY <1>0, <1>4 DEF AcceptResponse, program, ghosts, GatewayTypes
<1>5. ASSUME NEW f, NEW calls, Begin(f, calls)
      PROVE  GatewayTypes'
  <2> DEFINE touched == [out EXCEPT !.known = @ \/ f \in TouchesOutputAccount]
  <2>1. touched \in OwnAccounts
    BY TouchType
  <2>2. EndOperation(f, touched) \/ (out' = touched /\ UNCHANGED increases)
    BY <1>5 DEF Begin
  <2>3. /\ out' \in OwnAccounts
        /\ increases' \in Nat
    BY <2>1, <2>2, EndOperationTypes DEF GatewayTypes
  <2> QED
    BY <1>0, <1>5, <2>3 DEF Begin, wires, ghosts, GatewayTypes
<1>6. CASE BeginOperation \/ BeginForward
  BY <1>5, <1>6 DEF BeginOperation, BeginForward
<1>7. ASSUME NEW offset \in Offsets, WriteStorage(offset)
      PROVE  GatewayTypes'
  <2>1. PICK D \in SUBSET Offsets : out.updates = UpdatesOf(D)
    BY DEF GatewayTypes, OwnAccounts
  <2>2. out' = [out EXCEPT !.known = TRUE, !.updates = UpdatesOf(D \cup {offset})]
    BY <1>7, <2>1 DEF WriteStorage, UpdatesOf, GatewayTypes, OwnAccounts
  <2>3. out' \in OwnAccounts
    BY <2>2 DEF GatewayTypes, OwnAccounts
  <2> QED
    BY <1>0, <1>7, <2>3 DEF WriteStorage, wires, ghosts, GatewayTypes
<1>8. CASE SendHookCallRequest
  BY <1>0, <1>8, IncIs DEF SendHookCallRequest, ghosts, GatewayTypes
<1>9. CASE SendFails
  <2>1. PICK answer : Proceed(answer)
    BY <1>9 DEF SendFails
  <2>2. /\ out' \in OwnAccounts
        /\ increases' \in Nat
    BY <2>1, ProceedTypes
  <2>3. arwenNonce' \in 0 .. NonceModulus - 1
    BY <1>9, IncIs DEF SendFails, NonceAfterFailedSend, GatewayTypes
  <2>4. /\ failed' \in [sends : Nat, receives : Nat]
        /\ failed'.sends + failed'.receives <= MaxFailures
    BY <1>0, <1>9 DEF SendFails, Fails, GatewayTypes
  <2> QED
    BY <1>0, <1>9, <2>2, <2>3, <2>4 DEF SendFails, GatewayTypes
<1>10. CASE ReceiveHookCallResponse
  <2>1. PICK answer : Proceed(answer)
    BY <1>10 DEF ReceiveHookCallResponse
  <2>2. /\ out' \in OwnAccounts
        /\ increases' \in Nat
    BY <2>1, ProceedTypes
  <2>3. arwenNonce' \in 0 .. NonceModulus - 1
    BY <1>10, IncIs DEF ReceiveHookCallResponse, GatewayTypes
  <2>4. tainted' \in BOOLEAN
    BY <1>10 DEF ReceiveHookCallResponse
  <2> QED
    BY <1>0, <1>10, <2>2, <2>3, <2>4 DEF ReceiveHookCallResponse, GatewayTypes
<1>11. CASE ReceiveFails
  <2>1. PICK answer : Proceed(answer)
    BY <1>11 DEF ReceiveFails
  <2>2. /\ out' \in OwnAccounts
        /\ increases' \in Nat
    BY <2>1, ProceedTypes
  <2>3. /\ failed' \in [sends : Nat, receives : Nat]
        /\ failed'.sends + failed'.receives <= MaxFailures
    BY <1>0, <1>11 DEF ReceiveFails, Fails, GatewayTypes
  <2> QED
    BY <1>0, <1>11, <2>2, <2>3 DEF ReceiveFails, GatewayTypes
<1>12. CASE SendContractResponse
  BY <1>0, <1>12, IncIs DEF SendContractResponse, ghosts, GatewayTypes
<1> QED
  BY <1>2, <1>3, <1>4, <1>6, <1>7, <1>8, <1>9, <1>10, <1>11, <1>12 DEF GatewayNext

-----------------------------------------------------------------------------
(* The hook calls of the operations.                                        *)

LEMMA ThreeInARow ==
    ASSUME NEW a, NEW b, NEW c
    PROVE  <<a>> \o <<b, c>> = <<a, b, c>>
<1> DEFINE S == {a, b, c}
           s == <<a>>
           t == <<b, c>>
           u == <<a, b, c>>
           v == s \o t
<1>1. s \in Seq(S) /\ t \in Seq(S) /\ Len(s) = 1 /\ Len(t) = 2
  OBVIOUS
<1>2. s[1] = a /\ t[1] = b /\ t[2] = c
  OBVIOUS
<1>3. u \in Seq(S) /\ Len(u) = 3 /\ u[1] = a /\ u[2] = b /\ u[3] = c
  OBVIOUS
<1> HIDE DEF S, s, t, u
<1>4. /\ v \in Seq(S) /\ Len(v) = Len(s) + Len(t)
      /\ \A i \in 1 .. Len(s) + Len(t) :
            v[i] = IF i <= Len(s) THEN s[i] ELSE t[i - Len(s)]
  BY <1>1, ConcatProperties
<1> HIDE DEF v
<1>5. Len(v) = 3 /\ v[1] = a /\ v[2] = b /\ v[3] = c
  BY <1>1, <1>2, <1>4
<1>6. \A i \in 1 .. 3 : v[i] = u[i]
  BY <1>3, <1>5
<1>7. v = u
  BY <1>3, <1>4, <1>5, <1>6, SeqEqual
<1> QED
  BY <1>7 DEF s, t, u, v

(* An operation begins with calls it may have to make; it looks up the       *)
(* account for its nonce only if the nonce is not known (GetNonce,           *)
(* arwen/contexts/blockchain.go).                                            *)
LEMMA CallsOfOperation ==
    ASSUME NEW f \in Context
    PROVE  /\ HookCalls[f] = <<>> \/ HookCalls[f] \in TodosOf(f)
           /\ f \in NonceOperations /\ HookCalls[f] # <<>>
                 /\ Head(HookCalls[f]) = GetUserAccount => readNonceFromBlockChain
           /\ f = "IncreaseNonce" /\ HookCalls[f] = <<>> => ~readNonceFromBlockChain
<1> USE DEF NonceCalls, TodosOf, NonceOperations
<1>1. CASE f = "NewAddress"
  <2>1. HookCalls[f] = NonceCalls \o <<IsSmartContract, NewAddress>>
    BY <1>1 DEF HookCalls
  <2>2. CASE readNonceFromBlockChain
    <3>1. HookCalls[f] = <<GetUserAccount, IsSmartContract, NewAddress>>
      BY <2>1, <2>2, ThreeInARow
    <3> QED
      BY <1>1, <2>2, <3>1
  <2>3. CASE ~readNonceFromBlockChain
    <3>1. HookCalls[f] = <<IsSmartContract, NewAddress>>
      BY <2>1, <2>3
    <3> QED
      BY <1>1, <3>1 DEF IsSmartContract, GetUserAccount
  <2> QED
    BY <2>2, <2>3
<1>2. CASE f \in {"GetNonce", "IncreaseNonce"}
  <2>1. HookCalls[f] = NonceCalls
    BY <1>2 DEF HookCalls
  <2> QED
    BY <1>2, <2>1
<1>3. CASE f \notin NonceOperations
  <2>1. f \in Context \ NonceOperations
    BY <1>3
  <2> QED
    BY <1>3, <2>1 DEF HookCalls, Context
<1> QED
  BY <1>1, <1>2, <1>3

(* An answer ends the operation or leaves it the rest of its calls, which    *)
(* never look up the account again.                                          *)
LEMMA ProceedTodo ==
    ASSUME TodoOfOperation, operation # "none", NEW answer, Proceed(answer)
    PROVE  \/ operation' = "none" /\ todo' = <<>>
           \/ /\ operation' = operation /\ todo' = Tail(todo) /\ todo # <<>>
              /\ todo' \in TodosOf(operation) /\ Head(todo') # GetUserAccount
              /\ operation # "IncreaseNonce"
<1>1. \/ operation' = "none" /\ todo' = <<>>
      \/ operation' = operation /\ todo' = Tail(todo) /\ Tail(todo) # <<>>
  BY DEF Proceed, EndOperation
<1>2. ASSUME Tail(todo) # <<>>
      PROVE  /\ Tail(todo) \in TodosOf(operation) /\ Head(Tail(todo)) # GetUserAccount
             /\ todo # <<>> /\ operation # "IncreaseNonce"
  <2>1. todo \in TodosOf(operation)
    BY DEF TodoOfOperation
  <2>2. CASE operation = "NewAddress"
    <3>1. todo \in {<<GetUserAccount, IsSmartContract, NewAddress>>,
                    <<IsSmartContract, NewAddress>>, <<NewAddress>>}
      BY <2>1, <2>2 DEF TodosOf
    <3>2. CASE todo = <<GetUserAccount, IsSmartContract, NewAddress>>
      <4>1. Tail(todo) = <<IsSmartContract, NewAddress>>
        BY <3>2
      <4> QED
        BY <2>2, <3>2, <4>1 DEF TodosOf, IsSmartContract, GetUserAccount
    <3>3. CASE todo = <<IsSmartContract, NewAddress>>
      <4>1. Tail(todo) = <<NewAddress>>
        BY <3>3
      <4> QED
        BY <2>2, <3>3, <4>1
        DEF TodosOf, NewAddress, BlockchainNewAddressRequest, GetUserAccount
    <3>4. CASE todo = <<NewAddress>>
      BY <1>2, <3>4
    <3> QED
      BY <3>1, <3>2, <3>3, <3>4
  <2>3. CASE operation \in {"GetCode", "GetCodeSize"}
    <3>1. todo \in {<<GetUserAccount, GetCode>>, <<GetCode>>}
      BY <2>1, <2>3 DEF TodosOf
    <3>2. CASE todo = <<GetUserAccount, GetCode>>
      <4>1. Tail(todo) = <<GetCode>>
        BY <3>2
      <4> QED
        BY <2>3, <3>2, <4>1 DEF TodosOf, GetCode, GetUserAccount
    <3>3. CASE todo = <<GetCode>>
      BY <1>2, <3>3
    <3> QED
      BY <3>1, <3>2, <3>3
  <2>4. CASE operation = "forward"
    BY <1>2, <2>1, <2>4 DEF TodosOf
  <2>5. CASE operation \in Context \ {"NewAddress", "GetCode", "GetCodeSize"}
    BY <1>2, <2>1, <2>5 DEF TodosOf, Context
  <2> QED
    BY <2>2, <2>3, <2>4, <2>5 DEF TodoOfOperation
<1> QED
  BY <1>1, <1>2

(* The kinds of the messages of an operation are those of hook calls. *)
LEMMA TodoKinds ==
    ASSUME TodoOfOperation, operation # "none"
    PROVE  todo # <<>> /\ Head(todo) \in HookRequest
<1>1. todo \in TodosOf(operation)
  BY DEF TodoOfOperation
<1> USE DEF GetUserAccount, IsSmartContract, NewAddress, GetCode, GetBlockhash,
            GetSnapshot, RevertToSnapshot, BlockchainNewAddressRequest,
            BlockchainGetSnapshotRequest, BlockchainGetCompiledCodeRequest,
            BlockchainClearCompiledCodesRequest,
            BlockchainProcessBuiltInFunctionRequest
<1>2. {GetUserAccount, IsSmartContract, NewAddress, GetCode, GetBlockhash,
       GetSnapshot, RevertToSnapshot} \subseteq HookRequest
  BY DEF HookRequest
<1>3. CASE operation = "NewAddress"
  BY <1>1, <1>2, <1>3 DEF TodosOf
<1>4. CASE operation = "forward"
  BY <1>1, <1>4 DEF TodosOf
<1>5. CASE operation \in Context \ {"NewAddress"}
  BY <1>1, <1>2, <1>5 DEF TodosOf, Context
<1> QED
  BY <1>3, <1>4, <1>5 DEF TodoOfOperation

-----------------------------------------------------------------------------
(* The steps of a dialogue that goes on.                                    *)

(* A genuine answer keeps the count: the account is looked up for its nonce  *)
(* before the first increase only.                                           *)
LEMMA ProceedCounts ==
    ASSUME GatewayTypes, TodoOfOperation, operation # "none", CountsIncreases,
           Proceed(Genuine(Head(todo))), UNCHANGED chainNonce
    PROVE  CountsIncreases'
<1> DEFINE kind == Head(todo)
           answer == Genuine(kind)
           o == Cached(operation, kind, answer)
           asks == operation \in NonceOperations /\ kind = GetUserAccount
<1>1. /\ o.known = out.known /\ o \in OwnAccounts
      /\ o.nonce = IF asks THEN chainNonce ELSE out.nonce
  <2>1. o \in OwnAccounts
    BY CachedType
  <2>2. asks => out.nonce = 0
    BY DEF CountsIncreases
  <2>3. o.nonce = IF asks /\ answer.value = Real THEN chainNonce ELSE out.nonce
    BY DEF Cached, NonceOperations, GatewayTypes, OwnAccounts
  <2>4. asks /\ answer.value # Real => chainNonce = 0
    BY DEF Genuine, Answer
  <2>5. o.known = out.known
    BY DEF Cached, GatewayTypes, OwnAccounts
  <2> QED
    BY <2>1, <2>2, <2>3, <2>4, <2>5
<1>2. /\ increases > 0 => o.known /\ o.nonce = chainNonce + increases
      /\ increases = 0 => o.nonce = 0 \/ (o.known /\ o.nonce = chainNonce)
      /\ asks => increases = 0 /\ o.nonce = chainNonce
  BY <1>1 DEF CountsIncreases
<1>3. ASSUME operation = "IncreaseNonce"
      PROVE  asks /\ out.known
  <2>1. todo = <<GetUserAccount>>
    BY <1>3 DEF TodoOfOperation, TodosOf
  <2> QED
    BY <1>3, <2>1 DEF NonceOperations, CountsIncreases
<1> HIDE DEF o, answer
<1>4. CASE EndOperation(operation, o)
  <2>1. CASE operation = "IncreaseNonce"
    <3>1. /\ out' = IncreaseNonce(o) /\ increases' = increases + 1
          /\ operation' = "none"
      BY <1>4, <2>1 DEF EndOperation
    <3>2. out'.known = o.known /\ out'.nonce = o.nonce + 1
      BY <1>1, <3>1 DEF IncreaseNonce, OwnAccounts
    <3>3. o.known /\ o.nonce = chainNonce /\ increases = 0 /\ chainNonce \in Nat
      BY <1>1, <1>2, <1>3, <2>1 DEF GatewayTypes
    <3>4. increases' > 0 /\ out'.known /\ out'.nonce = chainNonce' + increases'
      BY <3>1, <3>2, <3>3
    <3> QED
      BY <3>1, <3>4 DEF CountsIncreases, NonceOperations
  <2>2. CASE operation # "IncreaseNonce"
    <3>1. out' = o /\ increases' = increases /\ operation' = "none"
      BY <1>4, <2>2 DEF EndOperation, GatewayTypes
    <3> QED
      BY <1>2, <3>1 DEF CountsIncreases, NonceOperations
  <2> QED
    BY <2>1, <2>2
<1>5. CASE out' = o /\ UNCHANGED <<operation, increases>>
  <2>1. Head(todo') # GetUserAccount
    BY <1>5, ProceedTodo
  <2> QED
    BY <1>1, <1>2, <1>5, <2>1 DEF CountsIncreases
<1> QED
  BY <1>4, <1>5 DEF Proceed, o, answer

(* The nonces a message is checked with. *)
LEMMA NoncesInRange ==
    ASSUME GatewayTypes
    PROVE  /\ NonceModulus \in Nat /\ NonceModulus > 1
           /\ arwenNonce \in Nat /\ arwenNonce < NonceModulus
           /\ nodeNonce \in Nat /\ nodeNonce < NonceModulus
           /\ Inc(arwenNonce) = IF arwenNonce + 1 = NonceModulus THEN 0 ELSE arwenNonce + 1
           /\ Inc(nodeNonce) = IF nodeNonce + 1 = NonceModulus THEN 0 ELSE nodeNonce + 1
           /\ Inc(Inc(nodeNonce)) = IF Inc(nodeNonce) + 1 = NonceModulus THEN 0
                                    ELSE Inc(nodeNonce) + 1
           /\ failed.sends \in Nat /\ failed.receives \in Nat
           /\ failed.sends < NonceModulus
  BY IncIs, GatewayAssumption DEF GatewayTypes

(* The Node answers a hook call: there was no failure, or one of each kind. *)
LEMMA ReplyStep ==
    ASSUME GatewayTypes, Dialogue, ReplyToHookCall, UNCHANGED chainNonce
    PROVE  Dialogue'
<1> DEFINE m == Head(toNode)
<1>1. /\ node = "serving" /\ toNode # <<>> /\ m.nonce = Inc(nodeNonce) /\ IsHookCall(m.kind)
      /\ toNode' = Tail(toNode) /\ nodeNonce' = Inc(m.nonce)
      /\ UNCHANGED <<node, arwenNonce, loop, operation, todo, out, increases, result,
                     tainted, failed>>
  BY DEF ReplyToHookCall, NodeReads, program
<1>2. PICK answer \in HookAnswers(m.kind) :
          /\ toArwen' = Append(toArwen, ReplyTo(m, answer))
          /\ errors' = errors + (IF answer.err THEN 1 ELSE 0)
  BY DEF ReplyToHookCall
<1>3. loop = "waiting" /\ toArwen = <<>> /\ toNode = <<m>> /\ Request(m)
  BY <1>1 DEF Dialogue, OneMessage, Output, GatewayTypes, IsHookCall, ContractResponse,
       BlockchainNewAddressRequest
<1>4. errors' = 0 => errors = 0 /\ answer = Genuine(m.kind)
  BY <1>2 DEF HookAnswers, Answer, Genuine, GatewayTypes
<1>5. PICK r \in {ReplyTo(m, answer)} : TRUE
  OBVIOUS
<1>6. toNode' = <<>> /\ toArwen' = <<r>> /\ toArwen'[1] = r
  <2>1. toNode' = <<>>
    BY <1>1, <1>3
  <2>2. toArwen' = Append(<<>>, r)
    BY <1>2, <1>3, <1>5
  <2> QED
    BY <2>1, <2>2
<1>7. OneMessage'
  <2>1. /\ r.kind = Head(todo) + 1 /\ r.nonce = Inc(arwenNonce) /\ r.content = answer
    BY <1>3, <1>5 DEF ReplyTo, Message, Request
  <2>2. Response(r)'
    BY <1>1, <1>3, <1>4, <2>1 DEF Response, Request, Genuine
  <2> QED
    BY <1>1, <1>3, <1>6, <2>2 DEF OneMessage
<1>8. TodoOfOperation'
  BY <1>1 DEF Dialogue, TodoOfOperation
<1>9. NoncesApart'
  <2>1. arwenNonce = Inc(nodeNonce)
    BY <1>1, <1>3 DEF Request
  <2>2. \/ failed.sends > 0 /\ failed.receives > 0
        \/ failed.sends = 0 /\ failed.receives = 0
    BY <1>3, <2>1, NoncesInRange DEF Dialogue, NoncesApart, Distance, Sent, Ahead
  <2>3. toArwen' # <<>>
    BY <1>6
  <2> QED
    BY <1>1, <1>3, <2>2, <2>3, NoncesInRange
    DEF Dialogue, NoncesApart, Distance, Sent, Ahead
<1>10. ~tainted' /\ errors' = 0 => CountsIncreases'
  BY <1>1, <1>4 DEF Dialogue, CountsIncreases
<1> QED
  BY <1>7, <1>8, <1>9, <1>10 DEF Dialogue

(* The Node accepts the output: likewise. *)
LEMMA AcceptStep ==
    ASSUME GatewayTypes, Dialogue, AcceptResponse, UNCHANGED chainNonce
    PROVE  Dialogue'
<1> DEFINE m == Head(toNode)
<1>1. /\ node = "serving" /\ toNode # <<>> /\ m.nonce = Inc(nodeNonce)
      /\ m.kind = ContractResponse /\ node' = "accepted"
      /\ toNode' = Tail(toNode)
      /\ result' = [result EXCEPT !.node = ConvertToVMOutput(m.content)]
      /\ UNCHANGED <<nodeNonce, arwenNonce, toArwen, loop, operation, todo, out,
                     increases, tainted, failed, errors>>
  BY DEF AcceptResponse, NodeReads, program, ghosts
<1>2. loop = "ended" /\ toArwen = <<>> /\ toNode = <<m>> /\ Output(m)
      /\ result.arwen = OutputOf(out)
  <2>1. loop # "waiting"
    <3>1. ASSUME loop = "waiting" PROVE FALSE
      <4>1. ContractResponse \in HookRequest
        BY <1>1, <3>1, TodoKinds DEF Dialogue, OneMessage, Request, TodoOfOperation
      <4> QED
        BY <4>1 DEF HookRequest, ContractResponse, BlockchainNewAddressRequest,
             BlockchainClearCompiledCodesRequest
    <3> QED
      BY <3>1
  <2> QED
    BY <1>1, <2>1 DEF Dialogue, OneMessage, GatewayTypes
<1>3. result'.node = result'.arwen /\ result'.arwen = result.arwen
  BY <1>1, <1>2 DEF Output, GatewayTypes
<1>4. OneMessage'
  BY <1>1, <1>2, <1>3 DEF OneMessage, OutputOf
<1>5. TodoOfOperation'
  BY <1>1 DEF Dialogue, TodoOfOperation
<1>6. NoncesApart'
  <2>1. arwenNonce = Inc(nodeNonce)
    BY <1>1, <1>2 DEF Output
  <2>2. \/ failed.sends > 0 /\ failed.receives > 0
        \/ failed.sends = 0 /\ failed.receives = 0
    BY <1>2, <2>1, NoncesInRange DEF Dialogue, NoncesApart, Distance, Sent, Ahead
  <2> QED
    BY <1>1, <1>2, <2>2, NoncesInRange
    DEF Dialogue, NoncesApart, Distance, Sent, Ahead
<1>7. ~tainted' /\ errors' = 0 => CountsIncreases'
  BY <1>1 DEF Dialogue, CountsIncreases
<1> QED
  BY <1>4, <1>5, <1>6, <1>7 DEF Dialogue

(* The contract begins an operation of the context. *)
LEMMA BeginStep ==
    ASSUME GatewayTypes, Dialogue, UNCHANGED chainNonce,
           NEW f, NEW calls, Begin(f, calls),
           \/ f \in Context /\ calls = HookCalls[f]
           \/ f = "BlockHash" /\ calls = <<>>
           \/ f = "forward" /\ calls \in TodosOf("forward")
    PROVE  Dialogue'
<1> DEFINE touched == [out EXCEPT !.known = @ \/ f \in TouchesOutputAccount]
<1>1. /\ loop = "running" /\ operation = "none"
      /\ UNCHANGED <<node, nodeNonce, arwenNonce, toNode, toArwen, loop, result,
                     tainted, failed, errors>>
  BY DEF Begin, wires, ghosts
<1>2. \/ calls = <<>> /\ EndOperation(f, touched)
      \/ /\ calls # <<>> /\ operation' = f /\ todo' = calls /\ out' = touched
         /\ increases' = increases
  BY DEF Begin
<1>3. TodoOfOperation'
  <2>1. calls # <<>> => calls \in TodosOf(f)
    BY CallsOfOperation
  <2> QED
    BY <1>1, <1>2, <2>1 DEF EndOperation, TodoOfOperation, TodosOf
<1>4. OneMessage'
  BY <1>1 DEF Dialogue, OneMessage
<1>5. NoncesApart'
  BY <1>1 DEF Dialogue, NoncesApart, Distance, Sent, Ahead
<1>6. ASSUME ~tainted', errors' = 0 PROVE CountsIncreases'
  <2>1. CountsIncreases
    BY <1>1, <1>6 DEF Dialogue
  <2>2. /\ touched \in OwnAccounts /\ touched.nonce = out.nonce
        /\ out.known => touched.known
        /\ f \in NonceOperations => touched.known
    <3>1. touched \in OwnAccounts
      BY TouchType
    <3> QED
      BY <3>1 DEF NonceOperations, TouchesOutputAccount, GatewayTypes, OwnAccounts
  <2>3. chainNonce \in Nat /\ increases \in Nat /\ out.nonce \in Nat
    BY DEF GatewayTypes, OwnAccounts
  <2>4. readNonceFromBlockChain => increases = 0 /\ out.nonce = 0
    BY <2>1, <2>3 DEF readNonceFromBlockChain, CountsIncreases
  <2>5. CASE calls # <<>>
    <3>1. f \in NonceOperations /\ Head(calls) = GetUserAccount => readNonceFromBlockChain
      BY <2>5, CallsOfOperation DEF NonceOperations
    <3>2. operation' = f /\ todo' = calls /\ out' = touched /\ increases' = increases
      BY <1>2, <2>5
    <3> HIDE DEF touched
    <3> QED
      BY <2>1, <2>2, <2>4, <3>1, <3>2 DEF CountsIncreases
  <2>6. CASE calls = <<>> /\ f = "IncreaseNonce"
    <3>1. ~readNonceFromBlockChain
      BY <2>6, CallsOfOperation DEF Context
    <3>2. out.known /\ out.nonce = chainNonce + increases
      BY <2>1, <2>3, <3>1 DEF readNonceFromBlockChain, CountsIncreases
    <3>3. /\ out' = IncreaseNonce(touched) /\ increases' = increases + 1
          /\ operation' = "none"
      BY <1>2, <2>6 DEF EndOperation
    <3> HIDE DEF touched
    <3>4. out'.known /\ out'.nonce = out.nonce + 1
      BY <2>2, <3>2, <3>3 DEF IncreaseNonce, OwnAccounts
    <3> QED
      BY <2>3, <3>2, <3>3, <3>4 DEF CountsIncreases, NonceOperations
  <2>7. CASE calls = <<>> /\ f # "IncreaseNonce"
    <3>1. out' = touched /\ increases' = increases /\ operation' = "none"
      BY <1>2, <2>3, <2>7 DEF EndOperation
    <3> HIDE DEF touched
    <3> QED
      BY <2>1, <2>2, <3>1 DEF CountsIncreases, NonceOperations
  <2> QED
    BY <2>5, <2>6, <2>7
<1> QED
  BY <1>3, <1>4, <1>5, <1>6 DEF Dialogue

(* The contract writes its storage. *)
LEMMA WriteStep ==
    ASSUME GatewayTypes, Dialogue, UNCHANGED chainNonce,
           NEW offset \in Offsets, WriteStorage(offset)
    PROVE  Dialogue'
<1>1. /\ loop = "running" /\ operation = "none"
      /\ UNCHANGED <<node, nodeNonce, arwenNonce, toNode, toArwen, loop, operation,
                     todo, increases, result, tainted, failed, errors>>
  BY DEF WriteStorage, wires, ghosts
<1>2. out'.known /\ out'.nonce = out.nonce
  BY DEF WriteStorage, GatewayTypes, OwnAccounts
<1>3. TodoOfOperation' /\ OneMessage'
  BY <1>1 DEF Dialogue, OneMessage, TodoOfOperation
<1>4. NoncesApart'
  BY <1>1 DEF Dialogue, NoncesApart, Distance, Sent, Ahead
<1>5. ~tainted' /\ errors' = 0 => CountsIncreases'
  BY <1>1, <1>2 DEF Dialogue, CountsIncreases, NonceOperations
<1> QED
  BY <1>3, <1>4, <1>5 DEF Dialogue

(* One nonce more on Arwen's side, and none on the Node's. *)
LEMMA OneAhead ==
    ASSUME GatewayTypes, arwenNonce' = Inc(arwenNonce), nodeNonce' = nodeNonce,
           NEW by \in Int, -1 <= by, by < NonceModulus, Ahead(by)
    PROVE  arwenNonce' - nodeNonce'
               \in {by + 1 - NonceModulus, by + 1, by + 1 + NonceModulus}
  BY NoncesInRange DEF Ahead

(* How far the nonces are apart before and after a nonce is used up. *)
LEMMA SendNonces ==
    ASSUME GatewayTypes, NoncesApart, loop = "running", toArwen = <<>>,
           arwenNonce' = Inc(arwenNonce), nodeNonce' = nodeNonce
    PROVE  LET d == arwenNonce' - nodeNonce'
               s == failed.sends
               r == failed.receives
               M == NonceModulus
           IN  /\ s = 0 /\ r = 0 => ~tainted /\ d \in {1 - M, 1, 1 + M}
               /\ s > 0 /\ r = 0 => d \in {s + 1 - M, s + 1, s + 1 + M}
               /\ s = 0 /\ r > 0 => d \in {-M, 0, M}
<1> DEFINE s == failed.sends
           r == failed.receives
           M == NonceModulus
           d == arwenNonce' - nodeNonce'
<1>1. /\ s = 0 /\ r = 0 => ~tainted /\ Ahead(0)
      /\ s > 0 /\ r = 0 => Ahead(s)
      /\ s = 0 /\ r > 0 => Ahead(-1)
  BY DEF NoncesApart, Distance, Sent
<1>2. s \in Nat /\ r \in Nat /\ s < M /\ M \in Nat /\ M > 1
  BY NoncesInRange
<1>3. ASSUME NEW by \in Int, -1 <= by, by < M, Ahead(by)
      PROVE  d \in {by + 1 - M, by + 1, by + 1 + M}
  BY <1>3, OneAhead
<1>4. s = 0 /\ r = 0 => ~tainted /\ d \in {1 - M, 1, 1 + M}
  BY <1>1, <1>2, <1>3
<1>5. s > 0 /\ r = 0 => d \in {s + 1 - M, s + 1, s + 1 + M}
  BY <1>1, <1>2, <1>3
<1>6. s = 0 /\ r > 0 => d \in {-M, 0, M}
  <2>1. ASSUME Ahead(-1) PROVE d \in {-1 + 1 - M, -1 + 1, -1 + 1 + M}
    BY <1>2, <1>3, <2>1
  <2> QED
    BY <1>1, <1>2, <2>1
<1> QED
  BY <1>4, <1>5, <1>6

(* Arwen sends a hook call. *)
LEMMA SendStep ==
    ASSUME GatewayTypes, Dialogue, UNCHANGED chainNonce, SendHookCallRequest
    PROVE  Dialogue'
<1>1. /\ loop = "running" /\ operation # "none" /\ loop' = "waiting"
      /\ arwenNonce' = Inc(arwenNonce)
      /\ UNCHANGED <<node, nodeNonce, toArwen, operation, todo, out, increases, result,
                     tainted, failed, errors>>
  BY DEF SendHookCallRequest, CallsHook, ghosts
<1>2. node = "serving" /\ toNode = <<>> /\ toArwen = <<>>
  BY <1>1 DEF Dialogue, OneMessage
<1>3. PICK m \in {Message(Head(todo), Inc(arwenNonce), Zero)} : toNode' = <<m>>
  <2>1. toNode' = Append(<<>>, Message(Head(todo), Inc(arwenNonce), Zero))
    BY <1>2 DEF SendHookCallRequest
  <2> QED
    BY <2>1
<1>4. Request(m)' /\ toNode'[1] = m
  BY <1>1, <1>3 DEF Request, Message
<1>5. OneMessage'
  BY <1>1, <1>2, <1>3, <1>4 DEF OneMessage
<1>6. TodoOfOperation'
  BY <1>1 DEF Dialogue, TodoOfOperation
<1>7. NoncesApart'
  BY <1>1, <1>2, SendNonces, NoncesInRange DEF Dialogue, NoncesApart, Distance, Sent, Ahead
<1>8. ~tainted' /\ errors' = 0 => CountsIncreases'
  BY <1>1 DEF Dialogue, CountsIncreases
<1> QED
  BY <1>5, <1>6, <1>7, <1>8 DEF Dialogue

(* A hook call cannot be sent: its nonce is used up. *)
LEMMA SendFailsStep ==
    ASSUME GatewayTypes, Dialogue, UNCHANGED chainNonce, SendFails
    PROVE  Dialogue'
<1>1. /\ loop = "running" /\ operation # "none"
      /\ arwenNonce' = Inc(arwenNonce) /\ tainted' = TRUE
      /\ UNCHANGED <<node, nodeNonce, toNode, toArwen, loop, result>>
  BY DEF SendFails, CallsHook, NonceAfterFailedSend
<1>2. node = "serving" /\ toNode = <<>> /\ toArwen = <<>>
  BY <1>1 DEF Dialogue, OneMessage
<1>3. OneMessage'
  BY <1>1, <1>2 DEF OneMessage
<1>4. TodoOfOperation'
  BY <1>1, ProceedTodo DEF SendFails, Dialogue, TodoOfOperation, TodosOf
<1>5. NoncesApart'
  <2>1. failed'.sends = failed.sends + 1 /\ failed'.receives = failed.receives
    BY DEF SendFails, Fails, GatewayTypes
  <2> QED
    BY <1>1, <1>2, <2>1, SendNonces, NoncesInRange
    DEF Dialogue, NoncesApart, Distance, Sent, Ahead
<1> QED
  BY <1>1, <1>3, <1>4, <1>5 DEF Dialogue

(* A response cannot be read: Arwen's nonce does not count it. *)
LEMMA ReceiveFailsStep ==
    ASSUME GatewayTypes, Dialogue, UNCHANGED chainNonce, ReceiveFails
    PROVE  Dialogue'
<1>1. /\ loop = "waiting" /\ toArwen # <<>> /\ toArwen' = Tail(toArwen)
      /\ loop' = "running" /\ tainted' = TRUE
      /\ UNCHANGED <<node, nodeNonce, arwenNonce, toNode, result>>
  BY DEF ReceiveFails
<1>2. /\ node = "serving" /\ toNode = <<>> /\ toArwen = <<toArwen[1]>>
      /\ nodeNonce = Inc(arwenNonce)
  BY <1>1 DEF Dialogue, OneMessage, Response
<1>3. toArwen' = <<>>
  BY <1>1, <1>2
<1>4. OneMessage'
  BY <1>1, <1>2, <1>3 DEF OneMessage
<1>5. TodoOfOperation'
  BY <1>1, ProceedTodo DEF ReceiveFails, Dialogue, TodoOfOperation, TodosOf
<1>6. NoncesApart'
  <2>1. failed'.receives = failed.receives + 1 /\ failed'.sends = failed.sends
    BY DEF ReceiveFails, Fails, GatewayTypes
  <2> QED
    BY <1>1, <1>2, <1>3, <2>1, NoncesInRange
    DEF Dialogue, NoncesApart, Distance, Sent, Ahead
<1> QED
  BY <1>1, <1>4, <1>5, <1>6 DEF Dialogue

(* Arwen reads a response: it is the one it waits for. *)
LEMMA ReceiveStep ==
    ASSUME GatewayTypes, Dialogue, UNCHANGED chainNonce, ReceiveHookCallResponse
    PROVE  Dialogue'
<1> DEFINE m == toArwen[1]
<1>1. /\ loop = "waiting" /\ toArwen # <<>> /\ toArwen' = Tail(toArwen)
      /\ loop' = "running"
      /\ UNCHANGED <<node, nodeNonce, toNode, result, failed, errors>>
  BY DEF ReceiveHookCallResponse
<1>2. node = "serving" /\ toNode = <<>> /\ toArwen = <<m>> /\ Response(m)
  BY <1>1 DEF Dialogue, OneMessage
<1>3. Head(toArwen) = m /\ toArwen' = <<>>
  <2>1. PICK x \in {m} : toArwen = <<x>>
    BY <1>2
  <2> QED
    BY <1>1, <2>1
<1>4. TodoOfOperation /\ operation # "none"
  BY <1>1 DEF Dialogue, TodoOfOperation
<1>5. GatewayAnswer(Head(todo), m) = m.content
  <2>1. m.kind = Head(todo) + 1 /\ Head(todo) # RevertToSnapshot
    BY <1>2 DEF Response, IsHookCall, RevertToSnapshot, BlockchainGetCompiledCodeResponse
  <2> QED
    BY <2>1 DEF GatewayAnswer
<1>6. arwenNonce' = m.nonce /\ Proceed(m.content) /\ tainted' = tainted
  <2>1. m.nonce = Inc(arwenNonce)
    BY <1>2 DEF Response
  <2>2. /\ arwenNonce' = m.nonce /\ Proceed(m.content)
        /\ tainted' = (tainted \/ m.content # m.content)
    BY <1>3, <1>5, <2>1 DEF ReceiveHookCallResponse
  <2> QED
    BY <2>2 DEF GatewayTypes
<1>7. OneMessage'
  BY <1>1, <1>2, <1>3 DEF OneMessage
<1>8. TodoOfOperation'
  BY <1>1, <1>4, <1>6, ProceedTodo DEF Dialogue, TodoOfOperation, TodosOf
<1>9. NoncesApart'
  <2>1. arwenNonce' = nodeNonce
    BY <1>2, <1>6 DEF Response
  <2>2. toArwen # <<>>
    BY <1>1
  <2> QED
    BY <1>1, <1>3, <1>6, <2>1, <2>2, NoncesInRange
    DEF Dialogue, NoncesApart, Distance, Sent, Ahead
<1>10. ASSUME ~tainted', errors' = 0 PROVE CountsIncreases'
  <2>1. m.content = Genuine(Head(todo)) /\ CountsIncreases
    BY <1>1, <1>2, <1>6, <1>10 DEF Response, Dialogue
  <2> QED
    BY <1>4, <1>6, <2>1, ProceedCounts
<1> QED
  BY <1>7, <1>8, <1>9, <1>10 DEF Dialogue

(* Arwen sends the output. *)
LEMMA EndStep ==
    ASSUME GatewayTypes, Dialogue, UNCHANGED chainNonce, SendContractResponse
    PROVE  Dialogue'
<1>1. /\ loop = "running" /\ operation = "none" /\ loop' = "ended"
      /\ arwenNonce' = Inc(arwenNonce)
      /\ UNCHANGED <<node, nodeNonce, toArwen, operation, todo, out, increases,
                     tainted, failed, errors>>
  BY DEF SendContractResponse, ghosts
<1>2. node = "serving" /\ toNode = <<>> /\ toArwen = <<>>
  BY <1>1 DEF Dialogue, OneMessage
<1>3. PICK addresses \in SetToSeqs(DOMAIN OutputOf(out).accounts),
           offsets \in SetToSeqs(DOMAIN out.updates) :
              toNode' = Append(toNode,
                  Message(ContractResponse, Inc(arwenNonce),
                          NewSerializableVMOutput(OutputOf(out), addresses, offsets)))
  BY DEF SendContractResponse
<1>4. PICK m \in {Message(ContractResponse, Inc(arwenNonce),
                    NewSerializableVMOutput(OutputOf(out), addresses, offsets))} :
          toNode' = <<m>>
  <2>1. toNode' = Append(<<>>, Message(ContractResponse, Inc(arwenNonce),
                    NewSerializableVMOutput(OutputOf(out), addresses, offsets)))
    BY <1>2, <1>3
  <2> QED
    BY <2>1
<1>5. ConvertToVMOutput(m.content) = OutputOf(out)
  <2>1. PICK D \in SUBSET Offsets : out.updates = UpdatesOf(D)
    BY DEF GatewayTypes, OwnAccounts
  <2>2. DOMAIN out.updates = D /\ IsFiniteSet(D) /\ out.known \in BOOLEAN
    BY <2>1, FS_Subset, GatewayAssumption DEF UpdatesOf, GatewayTypes, OwnAccounts
  <2>3. offsets \in SetToSeqs(D)
    BY <2>2
  <2>4. ConvertToVMOutput(NewSerializableVMOutput(OutputOf(out), addresses, offsets))
        = OutputOf(out)
    BY <2>1, <2>2, <2>3, OutputSurvives
  <2> QED
    BY <1>4, <2>4 DEF Message
<1>6. result'.arwen = OutputOf(out)
  BY DEF SendContractResponse, GatewayTypes
<1>7. Output(m)' /\ toNode'[1] = m
  BY <1>1, <1>4, <1>5, <1>6 DEF Output, Message
<1>8. OneMessage'
  BY <1>1, <1>2, <1>4, <1>6, <1>7 DEF OneMessage, OutputOf
<1>9. TodoOfOperation'
  BY <1>1 DEF Dialogue, TodoOfOperation
<1>10. NoncesApart'
  <2>1. /\ Sent' /\ node' = "serving" /\ toArwen' = <<>>
        /\ UNCHANGED <<failed, tainted, nodeNonce>>
    BY <1>1, <1>2 DEF Sent
  <2>2. NoncesApart
    BY DEF Dialogue
  <2> QED
    BY <1>1, <1>2, <2>1, <2>2, SendNonces, NoncesInRange DEF NoncesApart, Distance, Ahead
<1>11. ~tainted' /\ errors' = 0 => CountsIncreases'
  BY <1>1 DEF Dialogue, CountsIncreases
<1> QED
  BY <1>8, <1>9, <1>10, <1>11 DEF Dialogue

-----------------------------------------------------------------------------
(* The invariant holds, and the properties follow.                          *)

LEMMA GatewayInvInit == GatewayInit => GatewayInv
<1> SUFFICES ASSUME GatewayInit PROVE GatewayInv
  OBVIOUS
<1>1. /\ NonceModulus \in Nat /\ NonceModulus > 1 /\ ChainNonces \subseteq Nat
      /\ MaxFailures \in Nat
  BY GatewayAssumption
<1>2. out \in OwnAccounts
  <2>1. EmptyMap = UpdatesOf({})
    BY DEF EmptyMap, UpdatesOf
  <2> QED
    BY <2>1 DEF GatewayInit, OwnAccounts
<1>3. GatewayTypes
  <2>1. arwenNonce \in 0 .. NonceModulus - 1 /\ nodeNonce \in 0 .. NonceModulus - 1
    BY <1>1 DEF GatewayInit
  <2>2. /\ failed \in [sends : Nat, receives : Nat]
        /\ failed.sends + failed.receives <= MaxFailures
    BY <1>1 DEF GatewayInit
  <2>3. result = [arwen |-> result.arwen, node |-> result.node]
    BY DEF GatewayInit
  <2> QED
    BY <1>1, <1>2, <2>1, <2>2, <2>3 DEF GatewayInit, GatewayTypes
<1>4. TodoOfOperation /\ OneMessage
  BY DEF GatewayInit, TodoOfOperation, TodosOf, OneMessage
<1>5. NoncesApart
  <2>1. arwenNonce - nodeNonce = 0 /\ ~Sent /\ ~tainted
    BY DEF GatewayInit, Sent
  <2>2. failed.sends = 0 /\ failed.receives = 0
    BY DEF GatewayInit
  <2> QED
    BY <2>1, <2>2 DEF NoncesApart, Distance, Ahead
<1>6. CountsIncreases
  BY DEF GatewayInit, CountsIncreases, NonceOperations
<1> QED
  BY <1>3, <1>4, <1>5, <1>6 DEF GatewayInv, Dialogue

LEMMA GatewayInvStep == GatewayInv /\ [GatewayNext]_gatewayVars => GatewayInv'
<1> SUFFICES ASSUME GatewayInv, [GatewayNext]_gatewayVars,
                    node' # "gaveUp"
             PROVE  Dialogue'
  BY TypesStep DEF GatewayInv
<1>0. GatewayTypes
  BY DEF GatewayInv
<1>1. CASE UNCHANGED gatewayVars
  <2>1. TodoOfOperation' = TodoOfOperation /\ CountsIncreases' = CountsIncreases
    BY <1>1 DEF gatewayVars, program, TodoOfOperation, CountsIncreases
  <2>2. OneMessage' = OneMessage
    BY <1>1 DEF gatewayVars, wires, program, ghosts, OneMessage, Request, Response, Output,
         OutputOf, Genuine
  <2>3. NoncesApart' = NoncesApart
    BY <1>1 DEF gatewayVars, wires, program, ghosts, NoncesApart, Distance, Sent, Ahead
  <2> QED
    BY <1>1, <2>1, <2>2, <2>3 DEF gatewayVars, ghosts, GatewayInv, Dialogue
<1> SUFFICES ASSUME GatewayNext PROVE Dialogue'
  BY <1>1
<1>2. UNCHANGED chainNonce
  BY DEF GatewayNext
<1>3. ~(Refuses \/ ReplyFails \/ TimeExpires)
  BY DEF Refuses, ReplyFails, TimeExpires, NodeStops
<1>4. node # "gaveUp"
  BY <1>3 DEF GatewayNext, ReplyToHookCall, AcceptResponse, NodeReads, BeginOperation,
       BeginForward, Begin, WriteStorage, SendHookCallRequest, SendFails,
       ReceiveHookCallResponse, ReceiveFails, SendContractResponse
<1>5. Dialogue
  BY <1>4 DEF GatewayInv
<1>6. CASE ReplyToHookCall
  BY <1>0, <1>2, <1>5, <1>6, ReplyStep
<1>7. CASE AcceptResponse
  BY <1>0, <1>2, <1>5, <1>7, AcceptStep
<1>8. CASE BeginOperation
  BY <1>0, <1>2, <1>5, <1>8, BeginStep DEF BeginOperation
<1>9. CASE BeginForward
  <2>1. PICK kind \in HookRequest : Begin("forward", <<kind>>)
    BY <1>9 DEF BeginForward, Forwards
  <2>2. <<kind>> \in TodosOf("forward")
    BY DEF TodosOf
  <2> QED
    BY <1>0, <1>2, <1>5, <2>1, <2>2, BeginStep
<1>10. CASE \E offset \in Offsets : WriteStorage(offset)
  BY <1>0, <1>2, <1>5, <1>10, WriteStep
<1>11. CASE SendHookCallRequest
  BY <1>0, <1>2, <1>5, <1>11, SendStep
<1>12. CASE SendFails
  BY <1>0, <1>2, <1>5, <1>12, SendFailsStep
<1>13. CASE ReceiveHookCallResponse
  BY <1>0, <1>2, <1>5, <1>13, ReceiveStep
<1>14. CASE ReceiveFails
  BY <1>0, <1>2, <1>5, <1>14, ReceiveFailsStep
<1>15. CASE SendContractResponse
  BY <1>0, <1>2, <1>5, <1>15, EndStep
<1> QED
  BY <1>3, <1>6, <1>7, <1>8, <1>9, <1>10, <1>11, <1>12, <1>13, <1>14, <1>15 DEF GatewayNext

LEMMA GatewayInvariant == GatewaySpec => []GatewayInv
  BY GatewayInvInit, GatewayInvStep, PTL DEF GatewaySpec

(* The Node accepts no output of an execution that got an answer its hook    *)
(* did not give (the methods of arwenpart/blockchainGateway.go answer zeros  *)
(* themselves when a message cannot be sent or read), unless failed sends    *)
(* and failed receives have cancelled out: for every modulus that exceeds    *)
(* the number of failures.                                                   *)
THEOREM AcceptedGenuine == GatewaySpec => []AcceptedIsGenuine
<1>1. GatewayInv => AcceptedIsGenuine
  <2> SUFFICES ASSUME GatewayInv, node = "accepted", tainted
               PROVE  failed.sends > 0 /\ failed.receives > 0
    BY DEF AcceptedIsGenuine
  <2> QED
    BY NoncesInRange DEF GatewayInv, Dialogue, NoncesApart
<1> QED
  BY <1>1, GatewayInvariant, PTL

(* The Node gets the output that Arwen computed, whatever the order in which *)
(* the accounts and the storage updates crossed the pipe                     *)
(* (ipc/common/serializableVMOutput.go).                                     *)
THEOREM OutputArrivesUnchanged == GatewaySpec => []OutputArrives
<1>1. GatewayInv => OutputArrives
  BY DEF GatewayInv, GatewayTypes, Dialogue, OneMessage, OutputArrives
<1> QED
  BY <1>1, GatewayInvariant, PTL

(* The nonce that the Node accepts counts every IncreaseNonce                *)
(* (arwen/contexts/blockchain.go) from the nonce of the account: for every   *)
(* such nonce and any number of operations of the context.                   *)
THEOREM IncreasesCounted == GatewaySpec => []NoncesCounted
<1>1. GatewayInv => NoncesCounted
  <2> SUFFICES ASSUME GatewayInv, node = "accepted", ~tainted, errors = 0, increases > 0
               PROVE  result.node.accounts["self"].nonce = chainNonce + increases
    BY DEF NoncesCounted
  <2>1. result.node = OutputOf(out)
    BY DEF GatewayInv, GatewayTypes, Dialogue, OneMessage
  <2>2. out.known /\ out.nonce = chainNonce + increases
    BY DEF GatewayInv, Dialogue, CountsIncreases
  <2> QED
    BY <2>1, <2>2 DEF OutputOf, VMOutput, OutputAccount
<1> QED
  BY <1>1, GatewayInvariant, PTL
=============================================================================
