--------------------------- MODULE AsyncPromises ---------------------------
(***************************************************************************)
(* The asynchronous contexts ("promises") of one contract, called SC here: *)
(* the calls it creates in groups with createAsyncCall, their execution or *)
(* sending at the end of its code (processAsyncInfo), the record of the    *)
(* pending ones that is kept in its storage, and the transactions with     *)
(* which other shards answer them (processCallbackStack).                  *)
(*                                                                         *)
(* A call is an index of `calls`; the calls of one context are kept in the *)
(* order of their creation, and Go visits the contexts of a map in any     *)
(* order.  The destination's execution and the callback's are outcomes: an *)
(* amount of gas, and whether they succeed.                                *)
(***************************************************************************)
EXTENDS Integers, FiniteSets, FiniteSetsExt, Sequences, Overflow

CONSTANTS
    Identifiers,      \* names of asynchronous contexts
    Local, Remote,    \* destinations with code on this shard, and without
    TxGas,            \* what is left of the gas when the contract's code starts
    ProvidedGas,      \* the gas a contract asks for a call, 0 for a share
    AnswerGas,        \* the gas that comes with an answer
    Uses,             \* what a destination or a callback spends
    GasModulus,       \* 2^64
    AsyncCallStep,    \* cost of calling back, the copying of the data included
    StoreCost,        \* storing the record of one call
    MaxCalls,         \* bound: calls created by the contract
    MaxPlain          \* bound: answers awaited by plain calls of callbacks

ASSUME PromisesAssumption ==
    /\ Local \cap Remote = {}
    /\ GasModulus \in Nat \ {0, 1}
    /\ TxGas \cup ProvidedGas \cup AnswerGas \cup Uses \subseteq 0 .. GasModulus - 1
    /\ AsyncCallStep \in Nat \ {0} /\ StoreCost \in Nat \ {0}
    /\ MaxCalls \in Nat /\ MaxPlain \in Nat

VARIABLES
    phase,      \* the first transaction: "code", "locals", "pending", "idle" or "failed"
    entry,      \* [callType, callerIsLocal]: who runs the contract
    calls,      \* the AsyncGeneratedCalls, in the order of their creation
    todo,       \* calls the loop over the map has not reached yet
    open,       \* the context in which that loop is, or NoContext
    gas,        \* Metering().GasLeft()
    record,     \* calls in the contract's storage under the transaction's hash
    inflight,   \* calls sent to other shards and not answered yet
    plain,      \* destinations that will answer a callback's own asyncCall
    calledBack, \* how often the caller has been called back
    ghost       \* what the properties compare: gas, and calls run, answered or refused

vars == <<phase, entry, calls, todo, open, gas, record, inflight, plain,
          calledBack, ghost>>

NoContext == "no context"
Ids == DOMAIN calls
Provided(i) == calls[i].provided
PendingOf(cs) == {i \in DOMAIN cs : cs[i].status = "Pending"}

\* The gas a contract has left, after it used some more than it may have had.
UseGas(g, used) == SubUint64(GasModulus, g, used)

-----------------------------------------------------------------------------
(* The only caller on this shard is a contract that waits for this one to   *)
(* return (ExecuteOnDestContext); a transaction comes from anyone else.      *)
Entries ==
    {[callType |-> "DirectCall", callerIsLocal |-> TRUE],
     [callType |-> "DirectCall", callerIsLocal |-> FALSE],
     [callType |-> "AsynchronousCall", callerIsLocal |-> FALSE]}

Init ==
    /\ phase = "code"
    /\ entry \in Entries
    /\ calls = << >>
    /\ todo = {} /\ open = NoContext
    /\ gas \in TxGas
    /\ record = {} /\ inflight = {} /\ plain = {}
    /\ calledBack = 0
    /\ ghost = [txGas |-> gas, spent |-> 0, forwarded |-> 0,
                ran |-> {}, answered |-> {}, refused |-> {}]

\* An error, or a panic that runSmartContractCall recovers: the transaction
\* leaves nothing behind.
Fail ==
    /\ phase' = "failed"
    /\ calls' = << >>
    /\ todo' = {} /\ open' = NoContext
    /\ gas' = 0
    /\ ghost' = [ghost EXCEPT !.spent = @ + gas, !.ran = {}]
    /\ UNCHANGED <<entry, record, inflight, plain, calledBack>>

\* createAsyncCall: AddAsyncContextCall makes the context if there is none.
\* No gas is used.
CreateAsyncCall(c, d, p) ==
    /\ phase = "code" /\ Len(calls) < MaxCalls
    /\ calls' = Append(calls, [ctx |-> c, dest |-> d, provided |-> p,
                               limit |-> 0, status |-> "Pending"])
    /\ UNCHANGED <<phase, entry, todo, open, gas, record, inflight, plain,
                   calledBack, ghost>>

\* setAsyncContextCallback of a context that does not exist is a fault.  The
\* callback of a context that does exist is stored and never read again.
SetCallbackOfUnknownContext(c) ==
    /\ phase = "code"
    /\ \A i \in Ids : calls[i].ctx # c
    /\ Fail

-----------------------------------------------------------------------------
\* A mutant: the sum wraps around unnoticed.
GasNeededWrapping(I) ==
    [res |-> FoldSet(LAMBDA i, acc : WrapUnsigned(GasModulus, acc + Provided(i)),
                     0, I),
     err |-> FALSE]

(* setupAsyncCallsGas for the calls I, with gasLeft: the gas asked for is    *)
(* added up, and what is left over is shared by the calls that asked for 0.  *)
(* The order in which Go visits the map does not matter: a sum that leaves   *)
(* the range or exceeds gasLeft on the way is an error in any order.         *)
GasNeeded(I) ==
    FoldSet(LAMBDA i, acc :
                LET s == AddUint64WithErr(GasModulus, acc.res, Provided(i))
                IN  [res |-> s.res, err |-> acc.err \/ s.err],
            [res |-> 0, err |-> FALSE], I)

ZeroGas(I) == {i \in I : Provided(i) = 0}

GasShare(I, gasLeft) ==
    (gasLeft - GasNeeded(I).res) \div Cardinality(ZeroGas(I))

SetupFails(I, gasLeft) ==
    \/ GasNeeded(I).err \/ GasNeeded(I).res > gasLeft
    \/ ZeroGas(I) # {} /\ gasLeft <= GasNeeded(I).res

setupAsyncCallsGas(I, gasLeft) ==
    [i \in Ids |->
        IF i \notin I THEN calls[i]
        ELSE [calls[i] EXCEPT !.limit = IF Provided(i) # 0 THEN Provided(i)
                                        ELSE GasShare(I, gasLeft)]]

SyncCalls(I) == {i \in I : calls[i].dest \in Local}

\* The contract's code ends: the first half of processAsyncInfo, up to its
\* first loop.
EndOfCode ==
    /\ phase = "code"
    /\ IF Ids = {} THEN phase' = "pending" /\ UNCHANGED <<calls, todo>>
       ELSE /\ ~SetupFails(Ids, gas)
            /\ calls' = setupAsyncCallsGas(Ids, gas)
            /\ phase' = "locals"
            /\ todo' = SyncCalls(Ids)
    /\ UNCHANGED <<entry, open, gas, record, inflight, plain, calledBack, ghost>>

EndOfCodeWithoutGas ==
    /\ phase = "code" /\ Ids # {} /\ SetupFails(Ids, gas)
    /\ Fail

\* The loop takes a context and then its calls, in order.
IsNext(i) ==
    /\ i \in todo
    /\ \/ calls[i].ctx = open
       \/ \A j \in todo : calls[j].ctx # open
    /\ \A j \in todo : calls[j].ctx = calls[i].ctx => i <= j

Advance(i) == /\ phase = "locals" /\ IsNext(i)
              /\ todo' = todo \ {i}
              /\ open' = calls[i].ctx

(* callbackAsync: the callback gets what the destination has left, which     *)
(* must exceed the cost of the step.  A callback that fails, or that the     *)
(* contract does not have, spends it all and does not fail the contract.     *)
CallbackGasLeft(left, used, ok) ==
    IF ok THEN left - used ELSE AsyncCallStep

(* processAsyncCall: the destination runs with all the gas that is left, not *)
(* with the limit of the call, and spends `used` of it; then the callback.   *)
ProcessAsyncCall(i, used, callbackUsed, ok) ==
    LET left == gas - used
        end == CallbackGasLeft(left, callbackUsed, ok)
    IN  /\ used <= gas /\ left > AsyncCallStep
        /\ callbackUsed <= left - AsyncCallStep
        /\ Advance(i)
        /\ calls' = [calls EXCEPT ![i].status = "Resolved"]
        /\ gas' = end
        /\ ghost' = [ghost EXCEPT !.spent = @ + (gas - end),
                                  !.ran = @ \cup {i}]
        /\ UNCHANGED <<phase, entry, record, inflight, plain, calledBack>>

\* A destination that leaves calls of its own pending has sent them with all
\* of its gas, and no callback is run for it now.
ProcessAsyncCallLeftPending(i) ==
    /\ Advance(i)
    /\ gas' = 0
    /\ ghost' = [ghost EXCEPT !.spent = @ + gas]
    /\ UNCHANGED <<phase, entry, calls, record, inflight, plain, calledBack>>

\* A destination that fails has no asyncInfo for getPendingAsyncCalls to read
\* (a nil pointer); one that leaves too little gas fails callbackAsync.
ProcessAsyncCallFails(i) ==
    /\ phase = "locals" /\ IsNext(i)
    /\ Fail

\* A mutant: a context of the pending map starts anew with each call.
PendingLastOfContext ==
    {i \in PendingOf(calls) :
        \A j \in PendingOf(calls) : calls[j].ctx = calls[i].ctx => j <= i}

(* getPendingAsyncCalls *)
getPendingAsyncCalls == PendingOf(calls)

EndOfLoop ==
    /\ phase = "locals" /\ todo = {}
    /\ phase' = "pending"
    /\ open' = NoContext
    /\ UNCHANGED <<entry, calls, todo, gas, record, inflight, plain,
                   calledBack, ghost>>

-----------------------------------------------------------------------------
SumLimits(cs, I) == SumFunction([i \in I |-> cs[i].limit])

GasAfterSave(pending) == UseGas(gas, StoreCost * Cardinality(pending))

(* The second half of processAsyncInfo: the record of the pending calls is  *)
(* stored and paid, the gas that is left is shared again among them, and    *)
(* the ones for other shards are sent.  Sending the first uses up the gas.  *)
SendPending ==
    LET pending == getPendingAsyncCalls
        left == GasAfterSave(pending)
        out == pending \ SyncCalls(pending)
    IN  /\ phase = "pending" /\ pending # {}
        /\ ~SetupFails(pending, left)
        /\ calls' = setupAsyncCallsGas(pending, left)
        /\ record' = pending
        /\ inflight' = out
        /\ gas' = IF out = {} THEN left ELSE 0
        /\ ghost' = [ghost EXCEPT !.spent = @ + (gas - left),
                                  !.forwarded = @ + SumLimits(calls', out)]
        /\ phase' = "idle"
        /\ UNCHANGED <<entry, todo, open, plain, calledBack>>

\* The gas does not do, or a transfer of the calls' value fails; with nothing
\* pending, the transfer of the answer to the caller fails.
SendPendingFails ==
    /\ phase = "pending"
    /\ getPendingAsyncCalls # {} \/ entry.callType = "AsynchronousCall"
    /\ Fail

\* callSCMethod with nothing pending: a contract that was called
\* asynchronously answers now, with all its gas (sendCallbackToCurrentCaller).
NothingPending ==
    LET answers == entry.callType = "AsynchronousCall"
    IN  /\ phase = "pending" /\ getPendingAsyncCalls = {}
        /\ phase' = "idle"
        /\ calledBack' = IF answers THEN calledBack + 1 ELSE calledBack
        /\ ghost' = IF answers THEN [ghost EXCEPT !.forwarded = @ + gas]
                               ELSE ghost
        /\ gas' = IF answers THEN 0 ELSE gas
        /\ UNCHANGED <<entry, calls, todo, open, record, inflight, plain>>

-----------------------------------------------------------------------------
(* The answers.  An answer names no call: it belongs to the first call of   *)
(* any context of the record that went to the address it comes from.        *)
Matches(d) ==
    {i \in record : /\ calls[i].dest = d
                    /\ \A j \in record :
                        calls[j].dest = d /\ calls[j].ctx = calls[i].ctx => i <= j}

\* getFunctionByCallType: the callback of a match, or else "callBack", which
\* the contract of this module does not export.
RunsCallback(d, m) == IF Matches(d) = {} THEN m = 0 ELSE m \in Matches(d)

(* processCallbackStack with the match m.  The shorter list of calls is      *)
(* never stored: only a record whose last call is answered is removed.       *)
Remaining(m) == record \ {m}
ContextEmptied(m) == \A j \in Remaining(m) : calls[j].ctx # calls[m].ctx

\* Mutants: one resolved context is enough, or the map never becomes empty.
WaitingForContext(m) == ~ContextEmptied(m)
WaitingForever(m) == TRUE

StillWaiting(m) == ~ContextEmptied(m) \/ Remaining(m) # {}

\* sendStorageCallbackToDestination gives away the gas that is left and keeps
\* it: checkGas refuses the output unless as much has been spent already.
GasMismatch(provided, left) == provided - left < left

Received(d, i) ==
    /\ phase = "idle"
    /\ \/ i \in inflight /\ calls[i].dest = d
          /\ inflight' = inflight \ {i}
          /\ UNCHANGED plain
       \/ i = 0 /\ d \in plain
          /\ plain' = plain \ {d}
          /\ UNCHANGED inflight
    /\ UNCHANGED <<phase, entry, calls, todo, open, gas>>

\* The transaction of the answer ends well.
Answer(d, i, m, provided, used) ==
    LET left == UseGas(provided, used)
    IN  /\ Received(d, i)
        /\ RunsCallback(d, m) /\ used <= provided
        /\ record # {} => m # 0
        /\ IF record = {} \/ StillWaiting(m)
           THEN UNCHANGED <<record, calledBack>>
           ELSE /\ ~entry.callerIsLocal
                /\ ~GasMismatch(provided, left)
                /\ record' = {}
                /\ calledBack' = calledBack + 1
        /\ ghost' = [ghost EXCEPT !.ran = @ \cup ({m} \ {0}),
                                  !.answered = @ \cup ({i} \ {0})]

\* The callback makes a plain asynchronous call to another shard, which takes
\* all of its gas; then the record is processed as above.
AnswerAndCall(d, i, m, e) ==
    /\ Cardinality(plain) < MaxPlain
    /\ phase = "idle" /\ i \in inflight /\ calls[i].dest = d
    /\ m \in Matches(d)
    /\ inflight' = inflight \ {i}
    /\ plain' = plain \cup {e}
    /\ IF StillWaiting(m)
       THEN UNCHANGED <<record, calledBack>>
       ELSE /\ ~entry.callerIsLocal
            /\ record' = {}
            /\ calledBack' = calledBack + 1
    /\ ghost' = [ghost EXCEPT !.ran = @ \cup {m},
                              !.answered = @ \cup {i}]
    /\ UNCHANGED <<phase, entry, calls, todo, open, gas>>

\* The transaction of the answer fails, and the answer is gone: the callback
\* fails or does not exist, no call of the record matches
\* (ErrCallBackFuncNotExpected), the gas does not match, or the caller is on
\* this shard (a nil pointer).
AnswerFails(d, i) ==
    /\ Received(d, i)
    /\ ghost' = [ghost EXCEPT !.refused = @ \cup ({i} \ {0})]
    /\ UNCHANGED <<record, calledBack>>

-----------------------------------------------------------------------------
Next ==
    \/ \E c \in Identifiers, d \in Local \cup Remote, p \in ProvidedGas :
          CreateAsyncCall(c, d, p)
    \/ \E c \in Identifiers : SetCallbackOfUnknownContext(c)
    \/ EndOfCode
    \/ EndOfCodeWithoutGas
    \/ \E i \in todo, u \in Uses, v \in Uses, ok \in BOOLEAN :
          ProcessAsyncCall(i, u, v, ok)
    \/ \E i \in todo : ProcessAsyncCallLeftPending(i)
    \/ \E i \in todo : ProcessAsyncCallFails(i)
    \/ EndOfLoop
    \/ SendPending
    \/ SendPendingFails
    \/ NothingPending
    \/ \E d \in Remote, i \in Ids \cup {0}, m \in Ids \cup {0},
          g \in AnswerGas, u \in Uses : Answer(d, i, m, g, u)
    \/ \E d \in Remote, i \in Ids, m \in Ids, e \in Remote : AnswerAndCall(d, i, m, e)
    \/ \E d \in Remote, i \in Ids \cup {0} : AnswerFails(d, i)

Answered == \E d \in Remote, i \in Ids \cup {0} :
    \/ AnswerFails(d, i)
    \/ \E m \in Ids \cup {0}, g \in AnswerGas, u \in Uses : Answer(d, i, m, g, u)

(* The protocol answers every call that was sent. *)
PromisesSpec == Init /\ [][Next]_vars /\ WF_vars(Answered)

-----------------------------------------------------------------------------
(* setupAsyncCallsGas shares out no more than there is: what the calls to    *)
(* other shards and the callback to the caller carry away, with what was     *)
(* spent and what is left, never exceeds the gas of the transaction, however *)
(* the contract divides it among its calls (a negative amount is a very      *)
(* large one).                                                               *)
GasForwarded ==
    phase # "failed" => gas + ghost.spent + ghost.forwarded <= ghost.txGas

(* processAsyncInfo forgets no call: when it has succeeded, the callback of  *)
(* every call executed here has been run, and every other call has been sent *)
(* and finds its record in the storage when it is answered.                  *)
NoneForgotten ==
    phase = "idle" =>
        \A i \in Ids :
            IF calls[i].status = "Resolved"
            THEN i \in ghost.ran /\ i \notin record
            ELSE /\ i \in inflight \cup ghost.answered \cup ghost.refused
                 /\ i \in inflight => i \in record

(* The caller of the contract is called back once at most, and only when     *)
(* every call of every context has been executed here or answered; the       *)
(* record is gone then, so that no later answer can call it again.           *)
CallerCalledWhenResolved ==
    /\ calledBack <= 1
    /\ calledBack = 1 =>
        /\ record = {} /\ inflight = {}
        /\ \A i \in Ids : calls[i].status = "Resolved" \/ i \in ghost.answered

(* A contract that waits for a single answer calls its caller back when the  *)
(* answer arrives, unless the transaction of the answer fails.               *)
CallerAnswered ==
    (phase = "idle" /\ Cardinality(record) = 1 /\ ~entry.callerIsLocal)
        ~> (calledBack = 1 \/ ghost.refused # {})

(* The comment on processCallbackStack: "If the associated callback was      *)
(* found in the pending set, it will be removed".  The record holds no more  *)
(* calls than are unanswered, or whose answer failed.                        *)
PendingRemoved == Cardinality(record) <= Cardinality(inflight \cup ghost.refused)
=============================================================================
