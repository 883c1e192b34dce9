--------------------------- MODULE MCDeployment ---------------------------
(* A user, a contract "a" that may create others and upgrade "d", with the  *)
(* same code, and two more codes to deploy, one of them not valid.          *)
EXTENDS Deployment

Function(text, in, res) ==
    [name |-> [text |-> text, length |-> 4, ascii |-> TRUE],
     inArity |-> in, outArity |-> res]

MCCodes == {"old", "new", "bad"}
MCWasmModule ==
    [c \in MCCodes |->
        [memory |-> TRUE, imports |-> {"getESDTBalance"},
         exports |-> {Function("init", 0, 0)} \cup
                     (IF c = "bad" THEN {Function("main", 0, 1)} ELSE {})]]
MCNewAddressOf ==
    [c \in {"u", "a"} |->
        IF c = "u" THEN [n \in {0} |-> "u0"]
                   ELSE [n \in 0 .. 1 |-> IF n = 0 THEN "a0" ELSE "a1"]]
MCGenesis == [a \in {"a", "d"} |-> "old"]
MCOwner == [a \in {"a", "d"} |-> IF a = "d" THEN "a" ELSE "u"]
=============================================================================
