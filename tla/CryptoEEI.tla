----------------------------- MODULE CryptoEEI -----------------------------
(***************************************************************************)
(* The hashes and signatures of the EEI (cryptoapi/cryptoei.go).  The       *)
(* cryptography is external: a library answers a hash, or that a signature   *)
(* is valid, or an error.  What a contract gets back is 0, 1 or -1.          *)
(***************************************************************************)
EXTENDS BigIntEEI

CONSTANT CryptoLengths   \* the lengths of data a contract passes

\* Gas for a length the contract passes as an int32: uint64(length) of a
\* negative one is enormous, the product saturates.
AllGas == host.contract.gas + 1
GasForBytes(perByte, length) == IF length < 0 THEN AllGas ELSE perByte * length

\* MemLoad fails on a negative length and outside the memory; it reads nothing
\* for the length 0.
NotLoaded(length, inMemory) == length < 0 \/ (length > 0 /\ ~inMemory)

\* A hash: the data is paid for before it is read; an error of the library is
\* an answer, not a fault.
Hash(f) ==
    \E length \in CryptoLengths, inMemory \in BOOLEAN, hashes \in BOOLEAN,
       roomForResult \in BOOLEAN :
        /\ Calls(f)
        /\ LET h == UseGas(Paid, GasForBytes(DataCopyPerByte, length))
           IN host' = IF NotLoaded(length, inMemory) THEN WithFault(h)
                      ELSE IF ~hashes THEN Answered(h, f, length, 1)
                      ELSE IF ~roomForResult THEN WithFault(h)
                      ELSE Answered(h, f, length, 0)
sha256 == Hash("sha256")
keccak256 == Hash("keccak256")
ripemd160 == Hash("ripemd160")

\* A signature: key, message and signature are read in this order; the message
\* is paid for after the key was read.
Verify(f, length, keyInMemory, messageInMemory, sigInMemory, valid) ==
    LET h == UseGas(Paid, GasForBytes(DataCopyPerByte, length))
    IN host' = IF ~keyInMemory THEN WithFault(Paid)
               ELSE IF NotLoaded(length, messageInMemory) \/ ~sigInMemory THEN WithFault(h)
               ELSE Answered(h, f, length, IF valid THEN 0 ELSE -1)
verifyBLS ==
    \E length \in CryptoLengths, key, message, sig, valid \in BOOLEAN :
        /\ Calls("verifyBLS")
        /\ Verify("verifyBLS", length, key, message, sig, valid)
verifyEd25519 ==
    \E length \in CryptoLengths, key, message, sig, valid \in BOOLEAN :
        /\ Calls("verifyEd25519")
        /\ Verify("verifyEd25519", length, key, message, sig, valid)

\* The key is compressed or not, any other length is a fault; the signature says
\* its own length in a header that is read first.
verifySecp256k1 ==
    \E length \in CryptoLengths, keyLengthOK, key, message, sig, valid \in BOOLEAN :
        /\ Calls("verifySecp256k1")
        /\ IF ~keyLengthOK THEN host' = WithFault(Paid)
           ELSE Verify("verifySecp256k1", length, key, message, sig, valid)
=============================================================================
