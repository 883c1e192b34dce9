------------------------------ MODULE MCVMHost ------------------------------
(* Contracts alice and bob that call each other, and a contract of another
   shard. *)
EXTENDS VMHost

CONSTANTS alice, bob, remote

MCBalance == [x \in Accounts |-> IF x = alice THEN 1 ELSE 0]
MCCodeCost == [x \in Contracts |-> 1]

=============================================================================
