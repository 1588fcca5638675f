------------------------------ MODULE DivModel ------------------------------
(***************************************************************************)
(* The prototype of the divider, stepdiv of models/insns/div.h: the        *)
(* divisor is shifted up until it reaches the dividend or has its top bit  *)
(* set, then down again with one trial subtraction per position.  order is *)
(* always 2^k, where k counts the shifts, and divisor d * 2^k.             *)
(***************************************************************************)
EXTENDS Arith

BelowZero(isSigned, x) == isSigned /\ Negative(x)
GetMagnitude(isSigned, x) == IF isSigned THEN Magnitude(x) ELSE x

\* The normalization loop: the number of shifts.
Normalization(n, d) ==
  LET shifts[k \in 0 .. W - 1] ==
        IF n > d * 2^k /\ ~Negative(d * 2^k) THEN shifts[k + 1] ELSE k
  IN  shifts[0]

\* Mutation: only a smaller divisor is subtracted.
MainLoop_Less(n, d, top) ==
  LET turn[k \in 0..top] ==
        LET so == IF k = top THEN <<0, n>> ELSE turn[k + 1]
        IN  IF so[2] > d * 2^k THEN <<so[1] + 2^k, so[2] - d * 2^k>> ELSE so
  IN  turn[0]

\* The main loop, from the highest position down: result and dividend after
\* the turn of position k.
MainLoop(n, d, top) ==
  LET turn[k \in 0..top] ==
        LET so == IF k = top THEN <<0, n>> ELSE turn[k + 1]
        IN  IF so[2] >= d * 2^k THEN <<so[1] + 2^k, so[2] - d * 2^k>> ELSE so
  IN  turn[0]

\* Quotient and remainder; the sign is given to the quotient only.
StepDiv(isSigned, a, b) ==
  IF b = 0 THEN <<Ones, a>>
  ELSE IF isSigned /\ b = Ones /\ a = MinSigned THEN <<MinSigned, 0>>
  ELSE LET n == GetMagnitude(isSigned, a)
           d == GetMagnitude(isSigned, b)
           r == MainLoop(n, d, Normalization(n, d))
           sign == BelowZero(isSigned, a) # BelowZero(isSigned, b)
       IN  <<IF sign THEN Neg(r[1]) ELSE r[1], r[2]>>

=============================================================================
