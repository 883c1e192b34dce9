---------------------------- MODULE ArwenService ----------------------------
(***************************************************************************)
(* What the ArwenDriver promises the Node's goroutines, without processes, *)
(* pipes or nonces: operations are served one at a time; an operation that *)
(* succeeds returns the output for its own input, computed under the gas   *)
(* schedule of the last GasScheduleChange that was served; any operation   *)
(* may instead return a critical error.                                    *)
(***************************************************************************)
EXTENDS Messages

CONSTANTS Clients

VARIABLES
    phase,      \* of each client: idle, waiting, serving or panicked
    asked,      \* its last request
    answer,     \* what that returned
    schedule,   \* the gas schedule contracts are executed under
    tickets     \* number of operations asked for

serviceVars == <<phase, asked, answer, schedule, tickets>>

NoAnswer == [err |-> "nil", kind |-> 0, id |-> 0, gas |-> 0]
CriticalError == [NoAnswer EXCEPT !.err = "critical"]

ServiceInit ==
    /\ phase = [c \in Clients |-> "idle"]
    /\ asked = [c \in Clients |-> [kind |-> VersionRequest, id |-> 0]]
    /\ answer = [c \in Clients |-> NoAnswer]
    /\ schedule = 0
    /\ tickets = 0

Ask(c) ==
    /\ phase[c] = "idle"
    /\ tickets' = tickets + 1
    /\ \E kind \in NodeRequest :
          asked' = [asked EXCEPT ![c] = [kind |-> kind, id |-> tickets + 1]]
    /\ answer' = [answer EXCEPT ![c] = NoAnswer]
    /\ phase' = [phase EXCEPT ![c] = "waiting"]
    /\ UNCHANGED schedule

Serve(c) ==
    /\ phase[c] = "waiting"
    /\ \A other \in Clients : phase[other] # "serving"
    /\ phase' = [phase EXCEPT ![c] = "serving"]
    /\ schedule' = IF asked[c].kind = GasScheduleChangeRequest
                   THEN asked[c].id ELSE schedule
    /\ UNCHANGED <<asked, answer, tickets>>

Answer(c) ==
    /\ phase[c] = "serving"
    /\ answer' = [answer EXCEPT ![c] =
          [err |-> "nil", kind |-> ResponseKind(asked[c].kind),
           id |-> asked[c].id, gas |-> schedule]]
    /\ phase' = [phase EXCEPT ![c] = "idle"]
    /\ UNCHANGED <<asked, schedule, tickets>>

Fail(c) ==
    /\ phase[c] = "serving"
    /\ answer' = [answer EXCEPT ![c] = CriticalError]
    /\ phase' = [phase EXCEPT ![c] = "idle"]
    /\ UNCHANGED <<asked, schedule, tickets>>

Panic(c) ==
    /\ phase[c] = "serving"
    /\ phase' = [phase EXCEPT ![c] = "panicked"]
    /\ UNCHANGED <<asked, answer, schedule, tickets>>

ServiceNext == \E c \in Clients :
    Ask(c) \/ Serve(c) \/ Answer(c) \/ Fail(c) \/ Panic(c)

ServiceSpec == ServiceInit /\ [][ServiceNext]_serviceVars
=============================================================================
