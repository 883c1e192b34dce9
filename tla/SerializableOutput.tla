------------------------- MODULE SerializableOutput -------------------------
(***************************************************************************)
(* A VMOutput on its way through a pipe.  The output accounts and the      *)
(* storage updates of each travel as lists, in whatever order Go walks the *)
(* maps, and the receiver builds the maps again from the address inside    *)
(* each account and the offset inside each update.                         *)
(***************************************************************************)
EXTENDS Sequences, Naturals

\* A storage update carries its offset, an output account its address.
StorageUpdate(offset, data) == [offset |-> offset, data |-> data]
OutputAccount(address, nonce, updates) ==
    [address |-> address, nonce |-> nonce, updates |-> updates]
VMOutput(code, accounts) == [code |-> code, accounts |-> accounts]
EmptyMap == [k \in {} |-> 0]

\* The values of a map, walked in the order of the list of its keys.
Walk(map, keys) == [i \in DOMAIN keys |-> map[keys[i]]]

NewSerializableOutputAccount(account, offsets) ==
    [account EXCEPT !.updates = Walk(account.updates, offsets)]
NewSerializableVMOutput(output, addresses, offsets) ==
    LET list == Walk(output.accounts, addresses)
    IN [output EXCEPT !.accounts =
            [i \in DOMAIN list |-> NewSerializableOutputAccount(list[i], offsets)]]

\* The map of a list, by the key inside each item; the last item with a key wins.
MapBy(list, KeyOf(_)) ==
    [k \in {KeyOf(list[i]) : i \in DOMAIN list} |->
        list[CHOOSE i \in DOMAIN list :
                 /\ KeyOf(list[i]) = k
                 /\ \A j \in DOMAIN list : KeyOf(list[j]) = k => j <= i]]

\* Mutant: the updates are keyed by their data.
ConvertToOutputAccountByData(account) ==
    [account EXCEPT !.updates = MapBy(account.updates, LAMBDA u : u.data)]
ConvertToOutputAccount(account) ==
    [account EXCEPT !.updates = MapBy(account.updates, LAMBDA u : u.offset)]

ConvertToVMOutput(serialized) ==
    LET accounts == MapBy(serialized.accounts, LAMBDA a : a.address)
    IN [serialized EXCEPT !.accounts =
            [a \in DOMAIN accounts |-> ConvertToOutputAccount(accounts[a])]]
=============================================================================
