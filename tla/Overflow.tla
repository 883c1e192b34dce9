------------------------------ MODULE Overflow ------------------------------
(***************************************************************************)
(* The arithmetic helpers of math/overflow.go.  Go's machine integers wrap *)
(* around; the helpers notice it and answer a fixed value instead.  The    *)
(* width is a parameter: an unsigned word holds 0 .. m - 1, a signed one   *)
(* -(m \div 2) .. m \div 2 - 1 (m is 2^64 or 2^32 in the code).            *)
(***************************************************************************)
EXTENDS Integers

Unsigned(m) == 0 .. m - 1
Signed(m) == -(m \div 2) .. (m \div 2) - 1

\* What the machine computes: the exact result modulo the width.
WrapUnsigned(m, x) == x % m
WrapSigned(m, x) == ((x + m \div 2) % m) - (m \div 2)

AddUint64WithErr(m, a, b) ==
    LET s == WrapUnsigned(m, a + b) IN [res |-> s, err |-> ~(s >= a /\ s >= b)]
AddUint64(m, a, b) ==
    LET r == AddUint64WithErr(m, a, b) IN IF r.err THEN m - 1 ELSE r.res

SubUint64(m, a, b) == IF a < b THEN 0 ELSE a - b

MulUint64WithErr(m, a, b) ==
    LET res == WrapUnsigned(m, a * b)
        ok == \/ a = 0
              \/ b = 0
              \/ a = res \div b
    IN [res |-> IF ok THEN res ELSE 0, err |-> ~ok]
MulUint64(m, a, b) ==
    LET r == MulUint64WithErr(m, a, b) IN IF r.err THEN m - 1 ELSE r.res

\* AddInt64 and AddInt32: the largest value is answered whichever end of the
\* range the sum has left.
AddInt(m, a, b) ==
    LET res == WrapSigned(m, a + b)
    IN IF (res > a) <=> (b > 0) THEN res ELSE (m \div 2) - 1

\* SubInt answers the smallest value.
SubInt(m, a, b) ==
    LET res == WrapSigned(m, a - b)
    IN IF (res < a) <=> (b > 0) THEN res ELSE -(m \div 2)
=============================================================================
