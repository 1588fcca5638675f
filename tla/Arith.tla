------------------------------- MODULE Arith -------------------------------
(***************************************************************************)
(* Words of W bits (32 in the code) as the numbers their bits encode, and  *)
(* the arithmetic of the integers they stand for.                          *)
(***************************************************************************)
EXTENDS Integers

CONSTANT W

ASSUME WidthAssumption == \E k \in 1..5 : W = 2^k

Modulus == 2^W
Value == 0 .. Modulus - 1
Ones == Modulus - 1             \* ~0
MinSigned == 2^(W - 1)          \* 32'h80000000, kSignBit
MaxSigned == MinSigned - 1      \* 32'h7fffffff

Negative(x) == x >= MinSigned
Neg(x) == (Modulus - x) % Modulus
Magnitude(x) == IF Negative(x) THEN Neg(x) ELSE x
Sign(a, b) == Negative(a) # Negative(b)

\* The integer a word stands for, and division that rounds towards zero.
Integer(x) == IF Negative(x) THEN x - Modulus ELSE x
Abs(n) == IF n < 0 THEN -n ELSE n
Quot(n, d) == IF (n < 0) # (d < 0) THEN -(Abs(n) \div Abs(d)) ELSE Abs(n) \div Abs(d)

=============================================================================
