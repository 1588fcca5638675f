--------------------------- MODULE AluPath_proofs ---------------------------
(***************************************************************************)
(* Proofs about the ALU in the hands of cpu.v, for every width of words,   *)
(* program and number of resets: branches are decided by the right flags,  *)
(* every operation ends in time, its result is that of the integers the    *)
(* operands stand for, and the divider does what its prototype does.       *)
(***************************************************************************)
EXTENDS AluPath, WellFoundedInduction, TLAPS

-----------------------------------------------------------------------------
(* The inductive invariant. *)

\* The counters of the multi-cycle operations are in range.
Counters ==
  /\ shiftcnt \in 0 .. W - 1 /\ bitMul \in 0..W /\ bitDiv \in 0..W
  /\ busy \in BOOLEAN /\ op \in AluOp /\ s1 \in Value /\ s2 \in Value
  /\ state \in {"FETCH", "EXEC", "POST_EXEC", "UPDATE_PC"}
  /\ waited \in Nat

\* The ALU is never left busy with an operation that is no longer there:
\* otherwise the next instruction would go on with the counters of the last.
NothingLeft ==
  /\ state \in {"FETCH", "UPDATE_PC"} => ~busy
  /\ busy => op \notin SimpleOp

\* The ticks the operation still takes, and the one that leaves POST_EXEC.
TicksLeft ==
  IF ~busy THEN 1
  ELSE IF op \in ShiftOp THEN shiftcnt + 2
  ELSE IF op \in MulOp THEN bitMul + 2 ELSE bitDiv + 2

InTime ==
  /\ waited <= W + 2
  /\ state = "EXEC" => waited = 0
  /\ state = "POST_EXEC" => waited + TicksLeft <= W + 2

\* EXEC has compared the operands.
Compared == state = "POST_EXEC" => flags = Flags(s1, s2)

PathInv == Counters /\ NothingLeft /\ InTime /\ Compared

-----------------------------------------------------------------------------
\* The widths the assumption allows, and their powers of two.
LEMMA Widths ==
  /\ W \in {2, 4, 8, 16, 32} /\ Modulus \in Nat /\ MinSigned \in Nat
  /\ Modulus = 2 * MinSigned
<1>1. PICK k \in 1..5 : W = 2^k
  BY WidthAssumption
<1>2. CASE k = 1
  <2>1. W = 2 BY <1>1, <1>2, SMT
  <2>2. 2^2 = 4 /\ 2^(2 - 1) = 2 BY SMT
  <2> QED BY <2>1, <2>2 DEF Modulus, MinSigned
<1>3. CASE k = 2
  <2>1. W = 4 BY <1>1, <1>3, SMT
  <2>2. 2^4 = 16 /\ 2^(4 - 1) = 8 BY SMT
  <2> QED BY <2>1, <2>2 DEF Modulus, MinSigned
<1>4. CASE k = 3
  <2>1. W = 8 BY <1>1, <1>4, SMT
  <2>2. 2^8 = 256 /\ 2^(8 - 1) = 128 BY SMT
  <2> QED BY <2>1, <2>2 DEF Modulus, MinSigned
<1>5. CASE k = 4
  <2>1. W = 16 BY <1>1, <1>5, SMT
  <2>2. 2^16 = 65536 /\ 2^(16 - 1) = 32768 BY SMT
  <2> QED BY <2>1, <2>2 DEF Modulus, MinSigned
<1>6. CASE k = 5
  <2>1. W = 32 BY <1>1, <1>6, SMT
  <2>2. 2^32 = 4294967296 /\ 2^(32 - 1) = 2147483648 BY SMT
  <2> QED BY <2>1, <2>2 DEF Modulus, MinSigned
<1> QED BY <1>2, <1>3, <1>4, <1>5, <1>6

\* The borrow, corrected by the signs, compares signed numbers.
LEMMA FlagsCompare ==
  ASSUME NEW a \in Value, NEW b \in Value
  PROVE  Flags(a, b) = [lt |-> Integer(a) < Integer(b), ltu |-> a < b, eq |-> a = b]
<1>1. a \in Nat /\ b \in Nat /\ a < Modulus /\ b < Modulus
  BY Widths DEF Value
<1>2. Ltu(a, b) = (a < b)
  BY <1>1 DEF Ltu
<1>3. Lt(a, b) = (Integer(a) < Integer(b))
  BY <1>1, Widths DEF Lt, Ltu, Sign, Negative, Integer
<1> QED BY <1>2, <1>3 DEF Flags

\* One tick of a busy ALU brings the end one tick nearer; a start takes at
\* most W + 2 ticks.
LEMMA OneTick ==
  ASSUME Counters, busy => op \notin SimpleOp, NEW en \in BOOLEAN, AluTick(en, op, s1, s2),
         op' = op
  PROVE  /\ shiftcnt' \in 0 .. W - 1 /\ bitMul' \in 0..W /\ bitDiv' \in 0..W /\ busy' \in BOOLEAN
         /\ busy' => op \notin SimpleOp
         /\ busy => TicksLeft' = TicksLeft - 1
         /\ ~busy /\ en => TicksLeft' <= W + 2
         /\ ~busy /\ ~en => UNCHANGED aluVars
<1>1. W \in Nat /\ W >= 2
  BY Widths
<1>2. s2 % W \in 0 .. W - 1
  <2>1. s2 \in Nat
    BY Widths DEF Counters, Value
  <2> QED BY <1>1, <2>1, SMT
<1>3. /\ shiftcnt \in 0 .. W - 1 /\ bitMul \in 0..W /\ bitDiv \in 0..W /\ busy \in BOOLEAN
      /\ op \in SimpleOp \cup ShiftOp \cup MulOp \cup DivOp
  BY DEF Counters, AluOp
<1>4. CASE ~en /\ ~busy
  <2>1. UNCHANGED aluVars
    BY <1>4 DEF AluTick
  <2> QED BY <1>3, <1>4, <2>1 DEF aluVars, shiftVars, mulVars, divVars
<1>5. CASE en \/ busy
  <2>1. \/ Immediate(op, s1, s2) \/ Shift(op, s1, s2) \/ Multiply(op, s1, s2)
        \/ Divide(op, s1, s2)
    BY <1>5 DEF AluTick
  <2>2. CASE Immediate(op, s1, s2)
    <3>1. op \in SimpleOp /\ ~busy /\ UNCHANGED <<busy, shiftcnt, bitMul, bitDiv>>
      BY <2>2 DEF Immediate, shiftVars, mulVars, divVars
    <3> QED BY <1>1, <1>3, <1>5, <3>1 DEF TicksLeft
  <2>3. CASE Shift(op, s1, s2)
    <3>1. /\ op \in ShiftOp /\ op \notin SimpleOp /\ UNCHANGED <<bitMul, bitDiv>>
          /\ \/ ~busy /\ busy' /\ shiftcnt' = s2 % W
             \/ busy /\ shiftcnt # 0 /\ shiftcnt' = shiftcnt - 1 /\ busy'
             \/ busy /\ shiftcnt = 0 /\ ~busy' /\ shiftcnt' = shiftcnt
      BY <2>3 DEF Shift, ShiftOp, SimpleOp, mulVars, divVars
    <3>2. busy' \in BOOLEAN
      BY <1>3, <2>3 DEF Shift
    <3>3. /\ TicksLeft = IF ~busy THEN 1 ELSE shiftcnt + 2
          /\ TicksLeft' = IF ~busy' THEN 1 ELSE shiftcnt' + 2
      BY <3>1 DEF TicksLeft
    <3> QED BY <1>1, <1>2, <1>3, <1>5, <3>1, <3>2, <3>3
  <2>4. CASE Multiply(op, s1, s2)
    <3>1. /\ op \in MulOp /\ op \notin SimpleOp /\ op \notin ShiftOp
          /\ UNCHANGED <<shiftcnt, bitDiv>>
          /\ \/ ~busy /\ busy' /\ bitMul' = W
             \/ busy /\ bitMul # 0 /\ bitMul' = bitMul - 1 /\ busy'
             \/ busy /\ bitMul = 0 /\ ~busy' /\ bitMul' = bitMul
      BY <2>4 DEF Multiply, MulLoad, MulStep, MulEnd, MulOp, ShiftOp, SimpleOp, shiftVars,
         mulVars, divVars
    <3>2. busy' \in BOOLEAN
      BY <1>3, <2>4 DEF Multiply, MulLoad, MulStep, MulEnd
    <3>3. /\ TicksLeft = IF ~busy THEN 1 ELSE bitMul + 2
          /\ TicksLeft' = IF ~busy' THEN 1 ELSE bitMul' + 2
      BY <3>1 DEF TicksLeft
    <3> QED BY <1>1, <1>3, <1>5, <3>1, <3>2, <3>3
  <2>5. CASE Divide(op, s1, s2)
    <3>1. /\ op \in DivOp /\ op \notin SimpleOp /\ op \notin ShiftOp /\ op \notin MulOp
          /\ UNCHANGED <<shiftcnt, bitMul>>
          /\ \/ ~busy /\ ~busy' /\ bitDiv' = bitDiv
             \/ ~busy /\ busy' /\ bitDiv' = W
             \/ busy /\ bitDiv # 0 /\ bitDiv' = bitDiv - 1 /\ busy'
             \/ busy /\ bitDiv = 0 /\ ~busy' /\ bitDiv' = bitDiv
      BY <2>5 DEF Divide, DivAtOnce, DivLoad, DivStep, DivEnd, DivOp, MulOp, ShiftOp, SimpleOp,
         shiftVars, mulVars, divVars
    <3>2. busy' \in BOOLEAN
      BY <1>3, <2>5 DEF Divide, DivAtOnce, DivLoad, DivStep, DivEnd
    <3>3. /\ TicksLeft = IF ~busy THEN 1 ELSE bitDiv + 2
          /\ TicksLeft' = IF ~busy' THEN 1 ELSE bitDiv' + 2
      BY <3>1 DEF TicksLeft
    <3> QED BY <1>1, <1>3, <1>5, <3>1, <3>2, <3>3
  <2> QED BY <2>1, <2>2, <2>3, <2>4, <2>5
<1> QED BY <1>4, <1>5

-----------------------------------------------------------------------------
(* One lemma per action. *)

\* Fetching uses the idle ALU for an addition.
LEMMA FetchStep == ASSUME PathInv, Fetch PROVE PathInv'
<1>1. ~busy /\ busy \in BOOLEAN
  BY DEF PathInv, NothingLeft, Counters, Fetch
<1>2. PICK pc \in Pcs : AluTick(TRUE, "ADD", pc, 4 % Modulus)
  BY DEF Fetch
<1>3. "ADD" \notin ShiftOp /\ "ADD" \notin MulOp /\ "ADD" \notin DivOp
  BY DEF ShiftOp, MulOp, DivOp
<1>4. UNCHANGED <<busy, shiftcnt, bitMul, bitDiv>>
  BY <1>2, <1>3 DEF AluTick, Immediate, Shift, Multiply, Divide, shiftVars, mulVars, divVars
<1>5. op' \in AluOp /\ state' = "EXEC" /\ waited' = 0 /\ UNCHANGED <<s1, s2>>
  BY PathAssumption DEF Fetch
<1> QED BY <1>1, <1>4, <1>5, Widths DEF PathInv, Counters, NothingLeft, InTime, Compared

\* An operation that has just started will end in time.
LEMMA JustStarted ==
  ASSUME Counters', waited' = 0, state' = "POST_EXEC" => TicksLeft' <= W + 2
  PROVE  InTime'
<1>1. W \in Nat /\ shiftcnt' \in Nat /\ bitMul' \in Nat /\ bitDiv' \in Nat
  BY Widths DEF Counters
<1>2. 1 \in Nat /\ 0 <= W + 2 /\ \A n \in Nat : n + 2 \in Nat /\ 0 + n = n
  BY <1>1
<1>3. TicksLeft' \in Nat
  BY <1>1, <1>2, Zenon DEF TicksLeft
<1> QED BY <1>2, <1>3, Zenon DEF InTime

\* EXEC starts the operation, or goes on with it while the host halts.
LEMMA ExecStep == ASSUME PathInv, NEW halt, Exec(halt) PROVE PathInv'
<1>1. /\ AluTick(TRUE, op, s1, s2) /\ UNCHANGED <<op, s1, s2, waited>>
      /\ state' = IF busy \/ halt THEN "EXEC" ELSE "POST_EXEC"
      /\ state = "EXEC"
  BY DEF Exec
<1>2. Counters /\ (busy => op \notin SimpleOp) /\ waited = 0
  BY <1>1 DEF PathInv, NothingLeft, InTime
<1>3. /\ shiftcnt' \in 0 .. W - 1 /\ bitMul' \in 0..W /\ bitDiv' \in 0..W /\ busy' \in BOOLEAN
      /\ busy' => op \notin SimpleOp
      /\ ~busy => TicksLeft' <= W + 2
  BY <1>1, <1>2, OneTick
<1>4. flags' = Flags(s1, s2)
  BY <1>1 DEF AluTick
<1>5. Counters' /\ NothingLeft'
  BY <1>1, <1>2, <1>3 DEF Counters, NothingLeft
<1>6. InTime'
  BY <1>1, <1>2, <1>3, <1>5, JustStarted
<1>7. Compared'
  BY <1>1, <1>4 DEF Compared, Flags, Lt, Ltu, Sign, Negative
<1> QED BY <1>5, <1>6, <1>7 DEF PathInv

\* POST_EXEC waits for the operation.
LEMMA PostExecStep == ASSUME PathInv, NEW halt, PostExec(halt) PROVE PathInv'
<1>1. /\ AluTick(FALSE, op, s1, s2) /\ UNCHANGED <<op, s1, s2>>
      /\ state' = IF busy \/ halt THEN "POST_EXEC" ELSE "UPDATE_PC"
      /\ waited' = IF busy \/ ~halt THEN waited + 1 ELSE waited
      /\ state = "POST_EXEC"
  BY DEF PostExec
<1>2. /\ Counters /\ (busy => op \notin SimpleOp) /\ waited + TicksLeft <= W + 2
      /\ waited \in Nat /\ busy \in BOOLEAN /\ flags = Flags(s1, s2)
  BY <1>1 DEF PathInv, NothingLeft, InTime, Counters, Compared
<1>3. /\ shiftcnt' \in 0 .. W - 1 /\ bitMul' \in 0..W /\ bitDiv' \in 0..W /\ busy' \in BOOLEAN
      /\ busy' => op \notin SimpleOp
      /\ busy => TicksLeft' = TicksLeft - 1
      /\ ~busy => UNCHANGED aluVars
  BY <1>1, <1>2, OneTick
<1>4. TicksLeft \in Nat /\ TicksLeft >= 1 /\ (~busy => TicksLeft = 1)
  BY <1>2, Widths DEF TicksLeft, Counters
<1>5. flags' = Flags(s1, s2)
  <2>1. CASE busy
    BY <1>1, <2>1 DEF AluTick
  <2>2. CASE ~busy
    BY <1>2, <1>3, <2>2 DEF aluVars
  <2> QED BY <2>1, <2>2
<1>6. busy' => busy
  BY <1>2, <1>3 DEF aluVars
<1>7. Counters' /\ NothingLeft'
  BY <1>1, <1>2, <1>3, <1>6 DEF Counters, NothingLeft
<1>8. InTime'
  <2>1. CASE busy
    BY <1>1, <1>2, <1>3, <1>4, <2>1, Widths DEF InTime
  <2>2. CASE ~busy
    <3>1. ~busy'
      BY <1>6, <2>2
    <3>2. TicksLeft' = 1
      BY <3>1 DEF TicksLeft
    <3> QED BY <1>1, <1>2, <1>4, <2>2, <3>2, Widths DEF InTime
  <2> QED BY <2>1, <2>2
<1>9. Compared'
  BY <1>1, <1>5 DEF Compared, Flags, Lt, Ltu, Sign, Negative
<1> QED BY <1>7, <1>8, <1>9 DEF PathInv

\* UPDATE_PC leaves the ALU alone.
LEMMA UpdatePcStep == ASSUME PathInv, NEW halt, UpdatePc(halt) PROVE PathInv'
<1>1. /\ AluTick(FALSE, "ADD", s1, s2) /\ UNCHANGED <<op, s1, s2, waited>>
      /\ state' = (IF halt THEN "UPDATE_PC" ELSE "FETCH") /\ ~busy
  BY DEF UpdatePc, PathInv, NothingLeft
<1>2. UNCHANGED <<busy, shiftcnt, bitMul, bitDiv>>
  BY <1>1 DEF AluTick, aluVars, shiftVars, mulVars, divVars
<1> QED BY <1>1, <1>2 DEF PathInv, Counters, NothingLeft, InTime, Compared

\* A reset in the middle of an operation leaves the counters where they are
\* and takes busy away.
LEMMA ResetStep == ASSUME PathInv, Reset PROVE PathInv'
<1>1. /\ busy' = FALSE /\ state' = "FETCH" /\ waited' = 0
      /\ UNCHANGED <<op, s1, s2, shiftcnt, bitMul, bitDiv>>
  BY DEF Reset, AluReset, shiftVars, mulVars, divVars
<1>2. Counters' /\ NothingLeft'
  BY <1>1 DEF PathInv, Counters, NothingLeft
<1>3. InTime' /\ Compared'
  BY <1>1, Widths DEF InTime, Compared
<1> QED BY <1>2, <1>3 DEF PathInv

\* The invariant is inductive.
LEMMA PathHolds == Spec => []PathInv
<1>1. Init => PathInv
  <2> SUFFICES ASSUME Init PROVE PathInv
    OBVIOUS
  <2>1. PICK x \in Leftovers : shiftcnt = x % W
    BY DEF Init
  <2>2. W \in Nat /\ W >= 2 /\ x \in Nat
    BY Widths, PathAssumption DEF Value
  <2>3. shiftcnt \in 0 .. W - 1
    BY <2>1, <2>2, SMT
  <2>4. "ADD" \in AluOp
    BY DEF AluOp, SimpleOp
  <2>5. /\ busy = FALSE /\ bitMul = 0 /\ bitDiv = 0 /\ op = "ADD" /\ s1 \in Value
        /\ s2 \in Value /\ state = "FETCH" /\ waited = 0
    BY DEF Init
  <2>6. Counters /\ NothingLeft
    <3>1. 0 \in 0..W /\ 0 \in Nat
      BY <2>2
    <3> QED BY <2>3, <2>4, <2>5, <3>1, Zenon DEF Counters, NothingLeft
  <2>7. InTime /\ Compared
    BY <2>2, <2>5 DEF InTime, Compared
  <2> QED BY <2>6, <2>7 DEF PathInv
<1>2. PathInv /\ [Next]_vars => PathInv'
  <2> SUFFICES ASSUME PathInv, [Next]_vars PROVE PathInv'
    OBVIOUS
  <2>1. CASE Clock
    BY <2>1, FetchStep, ExecStep, PostExecStep, UpdatePcStep DEF Clock
  <2>2. CASE Reset
    BY <2>2, ResetStep
  <2>3. CASE UNCHANGED vars
    <3>1. UNCHANGED <<busy, shiftcnt, bitMul, bitDiv, flags, state, op, s1, s2, waited>>
      BY <2>3 DEF vars, aluVars, pathVars, shiftVars, mulVars, divVars
    <3> QED BY <3>1 DEF PathInv, Counters, NothingLeft, InTime, Compared, TicksLeft,
            Flags, Lt, Ltu, Sign, Negative
  <2> QED BY <2>1, <2>2, <2>3 DEF Next
<1> QED BY <1>1, <1>2, PTL DEF Spec

-----------------------------------------------------------------------------
\* Branches are decided by the comparison of the operands as signed and as
\* unsigned numbers, for words of every width and however often the host has
\* halted the CPU or reset it in the middle of an operation.
THEOREM FlagsDecide == Spec => []FlagsCorrect
<1>1. PathInv => FlagsCorrect
  BY FlagsCompare DEF PathInv, Counters, Compared, FlagsCorrect
<1> QED BY <1>1, PathHolds, PTL

\* Every operation leaves POST_EXEC after at most W + 2 ticks that are not
\* the host's: 34 with the words of the code, of the 50 soc.py allows.
THEOREM OperationsEndInTime == Spec => []AnswersInTime
<1>1. PathInv => AnswersInTime
  BY DEF PathInv, InTime, AnswersInTime
<1> QED BY <1>1, PathHolds, PTL

-----------------------------------------------------------------------------
(* Arithmetic.  Powers are evaluated one by one: no width needs more than  *)
(* these.                                                                  *)

\* Consecutive powers of two.
LEMMA Doubling ==
  ASSUME NEW n \in 0..31
  PROVE  2^n \in Nat /\ 2^n > 0 /\ 2^(n + 1) = 2 * 2^n
<1>0. CASE n = 0  BY <1>0
<1>1. CASE n = 1  BY <1>1
<1>2. CASE n = 2  BY <1>2
<1>3. CASE n = 3  BY <1>3
<1>4. CASE n = 4  BY <1>4
<1>5. CASE n = 5  BY <1>5
<1>6. CASE n = 6  BY <1>6
<1>7. CASE n = 7  BY <1>7
<1>8. CASE n = 8  BY <1>8
<1>9. CASE n = 9  BY <1>9
<1>10. CASE n = 10  BY <1>10
<1>11. CASE n = 11  BY <1>11
<1>12. CASE n = 12  BY <1>12
<1>13. CASE n = 13  BY <1>13
<1>14. CASE n = 14  BY <1>14
<1>15. CASE n = 15  BY <1>15
<1>16. CASE n = 16  BY <1>16
<1>17. CASE n = 17  BY <1>17
<1>18. CASE n = 18  BY <1>18
<1>19. CASE n = 19  BY <1>19
<1>20. CASE n = 20  BY <1>20
<1>21. CASE n = 21  BY <1>21
<1>22. CASE n = 22  BY <1>22
<1>23. CASE n = 23  BY <1>23
<1>24. CASE n = 24  BY <1>24
<1>25. CASE n = 25  BY <1>25
<1>26. CASE n = 26  BY <1>26
<1>27. CASE n = 27  BY <1>27
<1>28. CASE n = 28  BY <1>28
<1>29. CASE n = 29  BY <1>29
<1>30. CASE n = 30  BY <1>30
<1>31. CASE n = 31  BY <1>31
<1>. QED  BY <1>0, <1>1, <1>2, <1>3, <1>4, <1>5, <1>6, <1>7, <1>8, <1>9,
          <1>10, <1>11, <1>12, <1>13, <1>14, <1>15, <1>16, <1>17, <1>18,
          <1>19, <1>20, <1>21, <1>22, <1>23, <1>24, <1>25, <1>26, <1>27,
          <1>28, <1>29, <1>30, <1>31

\* The same for the exponents a width allows.
LEMMA Powers ==
  /\ 2^0 = 1
  /\ \A n \in 0..W : 2^n \in Nat /\ 2^n > 0
  /\ \A n \in 0 .. W - 1 : 2^(n + 1) = 2 * 2^n
<1>1. 2^0 = 1
  OBVIOUS
<1>2. ASSUME NEW n \in 0 .. W - 1 PROVE 2^n \in Nat /\ 2^n > 0 /\ 2^(n + 1) = 2 * 2^n
  <2>1. n \in 0..31
    BY Widths
  <2>. QED  BY <2>1, Doubling
<1>3. ASSUME NEW n \in 0..W PROVE 2^n \in Nat /\ 2^n > 0
  <2>1. CASE n = 0
    BY <1>1, <2>1
  <2>2. CASE n # 0
    <3>1. n - 1 \in 0 .. W - 1 /\ (n - 1) + 1 = n
      BY <2>2, Widths
    <3>2. 2^(n - 1) \in Nat /\ 2^(n - 1) > 0 /\ 2^((n - 1) + 1) = 2 * 2^(n - 1)
      BY <1>2, <3>1
    <3>3. 2^n = 2 * 2^(n - 1)
      BY <3>1, <3>2, Zenon
    <3>. QED  BY <3>2, <3>3
  <2>. QED  BY <2>1, <2>2
<1>. QED  BY <1>1, <1>2, <1>3

\* Quotient and remainder.
LEMMA Euclid ==
  ASSUME NEW x \in Int, NEW m \in Nat, m > 0
  PROVE  /\ x \div m \in Int /\ x % m \in Int
         /\ x = m * (x \div m) + (x % m) /\ 0 <= x % m /\ x % m < m
OBVIOUS

\* A number has one quotient and one remainder.
LEMMA Unique ==
  ASSUME NEW m \in Nat, m > 0, NEW q \in Int, NEW s \in Int, NEW r \in Int, NEW t \in Int,
         0 <= r, r < m, 0 <= t, t < m, m * q + r = m * s + t
  PROVE  q = s /\ r = t
<1>1. ASSUME NEW a \in Int, NEW b \in Int, a < b PROVE m * a + m <= m * b
  <2>1. PICK c \in Nat : b = a + 1 + c
    <3>1. b - a - 1 \in Nat /\ b = a + 1 + (b - a - 1)
      BY <1>1
    <3>. QED  BY <3>1
  <2>2. m * (a + 1 + c) = m * a + m + m * c /\ m * c \in Nat
    OBVIOUS
  <2>. QED  BY <2>1, <2>2
<1>2. CASE q < s
  <2>1. m * q + m <= m * s
    BY <1>1, <1>2
  <2>. QED  BY <1>2, <2>1
<1>3. CASE s < q
  <2>1. m * s + m <= m * q
    BY <1>1, <1>3
  <2>. QED  BY <1>3, <2>1
<1>4. CASE s = q
  BY <1>4
<1>. QED  BY <1>2, <1>3, <1>4

\* How quotients and remainders are found.
LEMMA DivMod ==
  ASSUME NEW m \in Nat, m > 0, NEW x \in Int, NEW q \in Int, NEW r \in Int,
         0 <= r, r < m, x = m * q + r
  PROVE  x \div m = q /\ x % m = r
BY Euclid, Unique

\* Adding multiples of the modulus.
LEMMA AddMultiple ==
  ASSUME NEW m \in Nat, m > 0, NEW x \in Int, NEW k \in Int
  PROVE  (x + m * k) % m = x % m /\ (x + m * k) \div m = (x \div m) + k
<1>1. /\ x \div m \in Int /\ x % m \in Int /\ x = m * (x \div m) + (x % m)
      /\ 0 <= x % m /\ x % m < m
  BY Euclid
<1>2. \A a \in Int : m * (a + k) = m * a + m * k
  OBVIOUS
<1>3. x + m * k = m * ((x \div m) + k) + (x % m)
  <2>1. m * ((x \div m) + k) = m * (x \div m) + m * k
    BY <1>1, <1>2, Zenon
  <2>. DEFINE d == x \div m
              r == x % m
              y == m * k
  <2>2. /\ y \in Int /\ m * d \in Int /\ d \in Int /\ r \in Int
        /\ x = m * d + r /\ m * (d + k) = m * d + y
    BY <1>1, <2>1
  <2>. HIDE DEF d, r, y
  <2>3. x + y = m * (d + k) + r
    BY <2>2
  <2>. QED  BY <2>3 DEF d, r, y
<1>4. x + m * k \in Int /\ (x \div m) + k \in Int
  BY <1>1
<1>. QED  BY <1>1, <1>3, <1>4, DivMod

\* Two shifts to the right are one.
LEMMA HalfOfQuotient ==
  ASSUME NEW x \in Int, NEW p \in Nat, p > 0
  PROVE  (x \div p) \div 2 = x \div (2 * p)
<1>1. PICK q \in Int, r \in Int : q = x \div p /\ x = p * q + r /\ 0 <= r /\ r < p
  BY Euclid
<1>2. PICK h \in Int, b \in Int : h = q \div 2 /\ q = 2 * h + b /\ 0 <= b /\ b <= 1
  BY <1>1
<1>3. CASE b = 0
  <2>1. x = (2 * p) * h + r /\ r < 2 * p /\ 2 * p \in Nat /\ 2 * p > 0
    BY <1>1, <1>2, <1>3
  <2>2. x \div (2 * p) = h
    BY <1>1, <2>1, DivMod
  <2>. QED  BY <1>1, <1>2, <2>2
<1>4. CASE b = 1
  <2>1. x = (2 * p) * h + (p + r) /\ p + r < 2 * p /\ 2 * p \in Nat /\ 2 * p > 0 /\ p + r \in Int
        /\ 0 <= p + r
    BY <1>1, <1>2, <1>4
  <2>2. x \div (2 * p) = h
    BY <1>1, <2>1, DivMod
  <2>. QED  BY <1>1, <1>2, <2>2
<1>. QED  BY <1>2, <1>3, <1>4

\* A shift to the left within the word.
LEMMA TwiceModulo ==
  ASSUME NEW x \in Int, NEW m \in Nat, m > 0
  PROVE  (2 * (x % m)) % m = (2 * x) % m
<1>1. PICK q \in Int, r \in Int : r = x % m /\ x = m * q + r /\ 0 <= r /\ r < m
  BY Euclid
<1>2. 2 * x = 2 * r + m * (2 * q) /\ 2 * r \in Int /\ 2 * q \in Int
  BY <1>1
<1>3. (2 * r + m * (2 * q)) % m = (2 * r) % m
  BY <1>1, <1>2, AddMultiple
<1>. QED  BY <1>1, <1>2, <1>3

\* One step of the multiplier: bit h % 2 moves from the part that is left to
\* the part that has been multiplied.
LEMMA OneBitMultiplied ==
  ASSUME NEW h \in Nat, NEW l \in Nat, NEW p \in Nat, NEW q \in Nat, NEW c \in Nat
  PROVE  LET x == h + (l * c) * (2 * q)
             k == h \div 2
             m == l + (h % 2) * p
         IN  /\ k \in Nat /\ m \in Nat
             /\ h * p + l = k * (2 * p) + m
             /\ l < p => m < 2 * p
             /\ (x \div 2) + (IF x % 2 = 1 THEN c * (p * q) ELSE 0) = k + (m * c) * q
<1>1. PICK k \in Nat, b \in Nat : k = h \div 2 /\ b = h % 2 /\ h = 2 * k + b /\ b <= 1
  OBVIOUS
<1>. DEFINE y == (l * c) * q
            x == h + (l * c) * (2 * q)
            m == l + b * p
<1>2. y \in Nat /\ (l * c) * (2 * q) = 2 * y
  <2>1. l * c \in Nat /\ \A z \in Nat : z * (2 * q) = 2 * (z * q) /\ z * q \in Nat
    OBVIOUS
  <2>. QED  BY <2>1
<1>3. CASE b = 0
  <2>1. x = 2 * (k + y) /\ m = l /\ k + y \in Nat
    BY <1>1, <1>2, <1>3
  <2>2. x \div 2 = k + y /\ x % 2 = 0
    BY <2>1
  <2>3. h * p + l = k * (2 * p) + m
    BY <1>1, <1>3, <2>1
  <2>. QED  BY <1>1, <1>3, <2>1, <2>2, <2>3
<1>4. CASE b = 1
  <2>1. x = 2 * (k + y) + 1 /\ m = l + p /\ k + y \in Nat
    BY <1>1, <1>2, <1>4
  <2>2. x \div 2 = k + y /\ x % 2 = 1
    BY <2>1
  <2>3. h * p + l = k * (2 * p) + m
    <3>1. (2 * k + 1) * p = k * (2 * p) + p
      OBVIOUS
    <3>. QED  BY <1>1, <1>4, <2>1, <3>1
  <2>4. (m * c) * q = y + c * (p * q)
    <3>1. (l + p) * c = l * c + p * c
      OBVIOUS
    <3>2. \A u, v \in Nat : (u + v) * q = u * q + v * q
      OBVIOUS
    <3>3. (p * c) * q = c * (p * q) /\ l * c \in Nat /\ p * c \in Nat
      OBVIOUS
    <3>. QED  BY <2>1, <3>1, <3>2, <3>3
  <2>. QED  BY <1>1, <1>4, <2>1, <2>2, <2>3, <2>4
<1>. QED  BY <1>1, <1>3, <1>4

\* The sign of a product x of two words: y is x or -x in twice the width.
LEMMA SignOfProduct ==
  ASSUME NEW m \in Nat, m > 0, NEW x \in Nat, x < m * m, NEW neg \in BOOLEAN
  PROVE  LET n == IF neg THEN -x ELSE x
             y == IF neg THEN (m * m - x) % (m * m) ELSE x
         IN  y % m = n % m /\ y \div m = (n \div m) % m
<1>. DEFINE n == IF neg THEN -x ELSE x
            y == IF neg THEN (m * m - x) % (m * m) ELSE x
<1>1. m * m \in Nat /\ m * m > 0
  OBVIOUS
<1>2. PICK e \in 0..1 : y = n + m * (m * e) /\ 0 <= y /\ y < m * m
  <2>1. CASE neg /\ x > 0
    <3>1. (m * m - x) % (m * m) = m * m - x
      <4>1. m * m - x = (m * m) * 0 + (m * m - x) /\ 0 <= m * m - x /\ m * m - x < m * m
        BY <1>1, <2>1
      <4>. QED  BY <1>1, <4>1, DivMod
    <3>2. y = n + m * (m * 1)
      BY <1>1, <2>1, <3>1
    <3>. QED  BY <1>1, <2>1, <3>1, <3>2
  <2>2. CASE neg /\ x = 0
    <3>1. (m * m - x) % (m * m) = 0
      <4>1. m * m - x = (m * m) * 1 + 0
        BY <1>1, <2>2
      <4>. QED  BY <1>1, <4>1, DivMod
    <3>2. y = n + m * (m * 0)
      BY <1>1, <2>2, <3>1
    <3>. QED  BY <1>1, <2>2, <3>1, <3>2
  <2>3. CASE ~neg
    <3>1. y = n + m * (m * 0)
      BY <2>3
    <3>. QED  BY <2>3, <3>1
  <2>. QED  BY <2>1, <2>2, <2>3
<1>3. n \in Int /\ m * e \in Int /\ y \in Int
  BY <1>1, <1>2
<1>. HIDE DEF n, y
<1>4. y % m = n % m /\ y \div m = (n \div m) + m * e
  BY <1>2, <1>3, AddMultiple
<1>5. PICK q \in Int, r \in Int : q = y \div m /\ y = m * q + r /\ 0 <= r /\ r < m
  BY <1>3, Euclid
<1>6. 0 <= q /\ q < m
  <2>1. CASE q < 0
    <3>1. m * q <= m * (-1)
      BY <2>1
    <3>. QED  BY <1>2, <1>5, <3>1
  <2>2. CASE q >= m
    <3>1. m * q >= m * m
      BY <2>2
    <3>. QED  BY <1>1, <1>2, <1>5, <3>1
  <2>. QED  BY <2>1, <2>2
<1>7. q % m = q
  <2>1. q = m * 0 + q
    BY <1>6
  <2>. QED  BY <1>6, <2>1, DivMod
<1>8. PICK z \in Int : z = n \div m
  BY <1>3, Euclid
<1>9. (z + m * e) % m = z % m
  <2>1. \A k \in Int : (z + m * k) % m = z % m
    BY AddMultiple
  <2>2. e \in Int
    OBVIOUS
  <2>. QED  BY <2>1, <2>2, Zenon
<1>. QED  BY <1>4, <1>5, <1>7, <1>8, <1>9 DEF n, y

\* One step of the divider: the quotient gets a bit and the divisor moves
\* down by one.
LEMMA OneBitDivided ==
  ASSUME NEW r \in Nat, NEW c \in Nat, NEW v \in Nat, c < 2 * v
  PROVE  LET fits == v <= c
             d == IF fits THEN c - v ELSE c
             q == 2 * r + (IF fits THEN 1 ELSE 0)
         IN  d \in Nat /\ d < v /\ q \in Nat /\ r * (2 * v) + c = q * v + d
<1>1. r * (2 * v) = (2 * r) * v /\ (2 * r + 1) * v = (2 * r) * v + v /\ (2 * r) * v \in Nat
  OBVIOUS
<1>2. CASE v <= c
  BY <1>1, <1>2
<1>3. CASE ~(v <= c)
  BY <1>1, <1>3
<1>. QED  BY <1>2, <1>3

\* The top bit of the difference, of twice the width, compares.
LEMMA Borrow ==
  ASSUME NEW n \in Nat, NEW c \in Nat, c < 2 * n, n >= 2, NEW v \in Nat, v < 2 * (n * n)
  PROVE  (c - v) % (4 * (n * n)) < (4 * (n * n)) \div 2 <=> v <= c
<1>1. PICK k \in Nat : k = n * n /\ 2 * n <= k
  <2>1. n * n \in Nat /\ 2 * n <= n * n
    OBVIOUS
  <2>. QED  BY <2>1
<1>2. (4 * k) \div 2 = 2 * k /\ 4 * k \in Nat /\ 4 * k > 0
  BY <1>1
<1>3. CASE v <= c
  <2>1. c - v = (4 * k) * 0 + (c - v) /\ c - v \in Int /\ 0 <= c - v /\ c - v < 4 * k
    BY <1>1, <1>3
  <2>2. (c - v) % (4 * k) = c - v
    BY <1>2, <2>1, DivMod
  <2>. QED  BY <1>1, <1>2, <1>3, <2>2
<1>4. CASE ~(v <= c)
  <2>1. /\ c - v = (4 * k) * (-1) + (4 * k + (c - v)) /\ c - v \in Int
        /\ 4 * k + (c - v) \in Int /\ 0 <= 4 * k + (c - v) /\ 4 * k + (c - v) < 4 * k
    BY <1>1, <1>4
  <2>2. (c - v) % (4 * k) = 4 * k + (c - v)
    BY <1>2, <2>1, DivMod
  <2>. QED  BY <1>1, <1>2, <1>4, <2>2
<1>. QED  BY <1>3, <1>4

-----------------------------------------------------------------------------
(* Words and the integers they stand for. *)

\* No word is so short that it has no bit next to its sign.
LEMMA Large == Modulus >= 4 /\ MinSigned >= 2
<1>1. CASE W = 2
  <2>1. 2^2 = 4 /\ 2^(2 - 1) = 2
    BY SMT
  <2>. QED  BY <1>1, <2>1 DEF Modulus, MinSigned
<1>2. CASE W = 4
  <2>1. 2^4 = 16 /\ 2^(4 - 1) = 8
    BY SMT
  <2>. QED  BY <1>2, <2>1 DEF Modulus, MinSigned
<1>3. CASE W = 8
  <2>1. 2^8 = 256 /\ 2^(8 - 1) = 128
    BY SMT
  <2>. QED  BY <1>3, <2>1 DEF Modulus, MinSigned
<1>4. CASE W = 16
  <2>1. 2^16 = 65536 /\ 2^(16 - 1) = 32768
    BY SMT
  <2>. QED  BY <1>4, <2>1 DEF Modulus, MinSigned
<1>5. CASE W = 32
  <2>1. 2^32 = 4294967296 /\ 2^(32 - 1) = 2147483648
    BY SMT
  <2>. QED  BY <1>5, <2>1 DEF Modulus, MinSigned
<1>. QED  BY <1>1, <1>2, <1>3, <1>4, <1>5, Widths

\* A word, its magnitude, and the integer it stands for.
LEMMA Words ==
  ASSUME NEW x \in Value
  PROVE  /\ x \in Nat /\ x < Modulus
         /\ Magnitude(x) \in Value /\ (Magnitude(x) = 0 <=> x = 0)
         /\ Integer(x) \in Int /\ (Negative(x) <=> Integer(x) < 0)
         /\ Integer(x) = IF Negative(x) THEN -Magnitude(x) ELSE Magnitude(x)
         /\ \E k \in Int : Integer(x) = x + Modulus * k
         /\ Integer(x) % Modulus = x
<1>1. x \in Nat /\ x < Modulus /\ Modulus \in Nat /\ Modulus > 0
  BY Widths DEF Value
<1>2. Negative(x) => Neg(x) = Modulus - x
  <2>1. ASSUME Negative(x) PROVE Neg(x) = Modulus - x
    <3>1. x > 0
      BY <1>1, <2>1, Large, Widths DEF Negative
    <3>2. /\ Modulus - x = Modulus * 0 + (Modulus - x)
          /\ 0 <= Modulus - x /\ Modulus - x < Modulus /\ Modulus - x \in Int
      BY <1>1, <3>1
    <3>3. (Modulus - x) % Modulus = Modulus - x
      BY <1>1, <3>2, DivMod
    <3>. QED  BY <3>3 DEF Neg
  <2>. QED  BY <2>1
<1>3. /\ Magnitude(x) \in Value /\ (Magnitude(x) = 0 <=> x = 0)
      /\ Integer(x) \in Int /\ (Negative(x) <=> Integer(x) < 0)
      /\ Integer(x) = IF Negative(x) THEN -Magnitude(x) ELSE Magnitude(x)
  BY <1>1, <1>2, Large, Widths DEF Magnitude, Integer, Negative, Value
<1>4. PICK k \in Int : Integer(x) = x + Modulus * k
  <2>1. CASE Negative(x)
    <3>1. x - Modulus = x + Modulus * (-1)
      BY <1>1
    <3>. QED  BY <2>1, <3>1 DEF Integer
  <2>2. CASE ~Negative(x)
    <3>1. x = x + Modulus * 0
      BY <1>1
    <3>. QED  BY <2>2, <3>1 DEF Integer
  <2>. QED  BY <2>1, <2>2
<1>5. Integer(x) % Modulus = x
  <2>1. (x + Modulus * k) % Modulus = x % Modulus
    BY <1>1, AddMultiple
  <2>2. x % Modulus = x
    <3>1. x = Modulus * 0 + x
      BY <1>1
    <3>. QED  BY <1>1, <3>1, DivMod
  <2>. QED  BY <1>4, <2>1, <2>2
<1>. QED  BY <1>1, <1>3, <1>4, <1>5

-----------------------------------------------------------------------------
(* The inductive invariant of the results. *)

\* The operands the multi-cycle operations work on.
MulA(f, a) == IF f = "MULHU" THEN a ELSE Magnitude(a)
MulB(f, b) == IF f \in {"MUL", "MULH"} THEN Magnitude(b) ELSE b
DivArg(f, x) == IF f \in {"DIVU", "REMU"} THEN x ELSE Magnitude(x)

\* The shifter has done all of the shift but shiftcnt bits of it.
Shifting ==
  \E k \in 0 .. W - 1 :
    /\ k + shiftcnt = s2 % W /\ result \in Value
    /\ op = "SLL" => result = (s1 * 2^k) % Modulus
    /\ op = "SRL" => result = s1 \div 2^k
    /\ op = "SRA" => Integer(result) = Integer(s1) \div 2^k

\* The multiplier is h * p + l, where p is 2 to the number of bits done: l
\* has been multiplied and h is what is left in the low end of product.
Multiplying ==
  /\ mulcand = MulB(op, s2)
  /\ \E h, l, p \in Nat :
       /\ p * 2^bitMul = Modulus /\ l < p
       /\ MulA(op, s1) = h * p + l
       /\ product = h + (l * mulcand) * 2^bitMul

\* The dividend is the quotient so far times the divisor, moved up by the
\* bits that are left, plus a remainder below the moved divisor.
Dividing ==
  LET moved == DivArg(op, s2) * 2^bitDiv
  IN  /\ ~DivSpecial(op, s1, s2)
      /\ result \in Value /\ dividendCopy \in Value
      /\ DivArg(op, s1) = result * moved + dividendCopy
      /\ dividendCopy < moved
      /\ bitDiv > 0 => /\ dividerCopy \in Nat /\ 2 * dividerCopy = moved
                       /\ dividerCopy <= DivArg(op, s2) * MinSigned

Working ==
  busy => /\ op \in ShiftOp => Shifting
          /\ op \in MulOp => Multiplying
          /\ op \in DivOp => Dividing

\* What the divider answers, the remainder without a sign.
DivAnswer(f, a, b) ==
  LET n == DivArg(f, a)
      d == DivArg(f, b)
  IN  CASE f \in {"REM", "REMU"} /\ b = 0 -> a
        [] f \in {"REM", "REMU"} /\ ~DivSpecial(f, a, b) -> n % d
        [] f = "DIVU" /\ b # 0 -> n \div d
        [] f = "DIV" /\ b # 0 -> IF Sign(a, b) THEN Neg(n \div d) ELSE n \div d
        [] OTHER -> Ones

Answer(f, a, b) == IF f \in DivOp THEN DivAnswer(f, a, b) ELSE Reference(f, a, b)

Answered == state \in {"POST_EXEC", "UPDATE_PC"} /\ ~busy => result = Answer(op, s1, s2)

ResultInv == Working /\ Answered

-----------------------------------------------------------------------------
(* The shifter. *)

\* One place to the right, with the sign.
LEMMA HalfSigned ==
  ASSUME NEW x \in Value
  PROVE  ShiftedOne("SRA", x) \in Value /\ Integer(ShiftedOne("SRA", x)) = Integer(x) \div 2
<1>1. x \in Nat /\ x < Modulus /\ Modulus = 2 * MinSigned /\ MinSigned \in Nat
  BY Widths DEF Value
<1>2. ShiftedOne("SRA", x) = (x \div 2) + (IF Negative(x) THEN MinSigned ELSE 0)
  BY DEF ShiftedOne
<1>3. CASE Negative(x)
  <2>1. ShiftedOne("SRA", x) = (x \div 2) + MinSigned
    BY <1>2, <1>3
  <2>2. PICK y \in Nat : y = x \div 2 /\ 2 * y <= x /\ x <= 2 * y + 1
    BY <1>1
  <2>3. (x - Modulus) \div 2 = y - MinSigned
    BY <1>1, <2>2
  <2>4. MinSigned <= y + MinSigned /\ y + MinSigned < Modulus
    BY <1>1, <2>2
  <2>. QED  BY <1>1, <1>3, <2>1, <2>2, <2>3, <2>4 DEF Negative, Integer, Value
<1>4. CASE ~Negative(x)
  <2>1. ShiftedOne("SRA", x) = x \div 2
    BY <1>1, <1>2, <1>4
  <2>. QED  BY <1>1, <1>4, <2>1 DEF Negative, Integer, Value
<1>. QED  BY <1>3, <1>4

\* One tick of the shifter.
LEMMA ShiftTick ==
  ASSUME Counters, Working, Shift(op, s1, s2), UNCHANGED <<op, s1, s2>>
  PROVE  (busy' => Shifting') /\ (busy /\ ~busy' => result' = Reference(op, s1, s2))
<1>1. /\ op \in {"SLL", "SRL", "SRA"} /\ s1 \in Value /\ s2 \in Value /\ shiftcnt \in 0 .. W - 1
      /\ s1 \in Nat /\ s2 \in Nat /\ s1 < Modulus
      /\ W \in Nat /\ W >= 2 /\ Modulus \in Nat /\ Modulus > 0
  BY Widths DEF Counters, Shift, ShiftOp, Value
<1>2. s2 % W \in 0 .. W - 1
  BY <1>1, Euclid
<1>3. Integer(s1) \in Int
  BY <1>1, Words
<1>4. CASE ~busy
  <2>1. busy' /\ result' = s1 /\ shiftcnt' = s2 % W
    BY <1>4 DEF Shift
  <2>2. (s1 * 1) % Modulus = s1 /\ s1 \div 1 = s1 /\ Integer(s1) \div 1 = Integer(s1)
    <3>1. s1 * 1 = Modulus * 0 + s1
      BY <1>1
    <3>. QED  BY <1>1, <1>3, <3>1, DivMod
  <2>3. 0 \in 0 .. W - 1 /\ 0 + (s2 % W) = s2 % W
    BY <1>1, <1>2
  <2>4. /\ 0 + shiftcnt' = s2' % W /\ result' \in Value
        /\ op' = "SLL" => result' = (s1' * 2^0) % Modulus
        /\ op' = "SRL" => result' = s1' \div 2^0
        /\ op' = "SRA" => Integer(result)' = Integer(s1)' \div 2^0
    BY <1>1, <2>1, <2>2, <2>3, Powers DEF Integer, Negative
  <2>5. Shifting'
    BY <2>3, <2>4 DEF Shifting
  <2>. QED  BY <1>4, <2>5
<1>5. CASE busy
  <2>1. PICK k \in 0 .. W - 1 :
          /\ k + shiftcnt = s2 % W /\ result \in Value
          /\ op = "SLL" => result = (s1 * 2^k) % Modulus
          /\ op = "SRL" => result = s1 \div 2^k
          /\ op = "SRA" => Integer(result) = Integer(s1) \div 2^k
    BY <1>1, <1>5 DEF Working, Shifting, ShiftOp
  <2>2. PICK p \in Nat : p = 2^k /\ p > 0
    BY <1>1, Powers
  <2>3. CASE shiftcnt # 0
    <3>1. busy' /\ result' = ShiftedOne(op, result) /\ shiftcnt' = shiftcnt - 1
      BY <1>5, <2>3 DEF Shift
    <3>2. k + 1 \in 0 .. W - 1 /\ (k + 1) + shiftcnt' = s2 % W
      BY <1>1, <1>2, <2>1, <2>3, <3>1
    <3>3. 2^(k + 1) = 2 * p
      BY <2>2, Powers
    <3>4. CASE op = "SLL"
      <4>1. result' = (2 * result) % Modulus
        BY <3>1, <3>4 DEF ShiftedOne
      <4>2. PICK x \in Nat : x = s1 * p /\ result = x % Modulus /\ 2 * x = s1 * (2 * p)
        <5>1. s1 * p \in Nat /\ 2 * (s1 * p) = s1 * (2 * p)
          BY <1>1
        <5>. QED  BY <2>1, <2>2, <3>4, <5>1
      <4>3. result' = (2 * x) % Modulus
        BY <1>1, <4>1, <4>2, TwiceModulo
      <4>4. result' = (s1 * 2^(k + 1)) % Modulus
        BY <3>3, <4>2, <4>3
      <4>5. result' \in Value
        BY <1>1, <4>2, <4>3, Euclid DEF Value
      <4>6. Shifting'
        BY <3>2, <3>4, <4>4, <4>5 DEF Shifting
      <4>. QED  BY <3>1, <4>6
    <3>5. CASE op = "SRL"
      <4>1. result' = result \div 2
        BY <3>1, <3>5 DEF ShiftedOne
      <4>2. result = s1 \div p
        BY <2>1, <2>2, <3>5
      <4>3. result' = s1 \div (2 * p)
        BY <1>1, <2>2, <4>1, <4>2, HalfOfQuotient
      <4>4. result' = s1 \div 2^(k + 1)
        BY <3>3, <4>3
      <4>5. result' \in Value
        BY <1>1, <2>1, <4>1 DEF Value
      <4>6. Shifting'
        BY <3>2, <3>5, <4>4, <4>5 DEF Shifting
      <4>. QED  BY <3>1, <4>6
    <3>6. CASE op = "SRA"
      <4>1. result' = ShiftedOne("SRA", result)
        BY <3>1, <3>6
      <4>2. result' \in Value /\ Integer(result') = Integer(result) \div 2
        BY <2>1, <4>1, HalfSigned
      <4>3. Integer(result) = Integer(s1) \div p
        BY <2>1, <2>2, <3>6
      <4>4. Integer(result') = Integer(s1) \div (2 * p)
        BY <1>3, <2>2, <4>2, <4>3, HalfOfQuotient
      <4>5. Integer(result') = Integer(s1') \div 2^(k + 1)
        BY <3>3, <4>4
      <4>6. Integer(result)' = Integer(s1)' \div 2^(k + 1)
        BY <4>5 DEF Integer, Negative
      <4>7. Shifting'
        BY <3>2, <3>6, <4>2, <4>6 DEF Shifting
      <4>. QED  BY <3>1, <4>7
    <3>. QED  BY <1>1, <3>4, <3>5, <3>6
  <2>4. CASE shiftcnt = 0
    <3>1. busy' = FALSE /\ result' = result
      BY <1>5, <2>4 DEF Shift
    <3>2. k = s2 % W
      BY <1>2, <2>1, <2>4
    <3>3. result = Integer(result) % Modulus
      BY <2>1, Words
    <3>4. result = Reference(op, s1, s2)
      BY <1>1, <2>1, <3>2, <3>3 DEF Reference
    <3>. QED  BY <3>1, <3>4
  <2>. QED  BY <2>3, <2>4
<1>. QED  BY <1>4, <1>5

-----------------------------------------------------------------------------
(* The multiplier. *)

\* The product of two integers, from their magnitudes.
LEMMA SignedTimes ==
  ASSUME NEW a \in Value, NEW b \in Value
  PROVE  /\ Integer(a) * Integer(b) = IF Sign(a, b) THEN -(Magnitude(a) * Magnitude(b))
                                      ELSE Magnitude(a) * Magnitude(b)
         /\ Integer(a) * b = IF Negative(a) THEN -(Magnitude(a) * b) ELSE Magnitude(a) * b
<1>1. PICK u \in Nat, v \in Nat : u = Magnitude(a) /\ v = Magnitude(b)
  BY Words DEF Value
<1>2. /\ Integer(a) = (IF Negative(a) THEN -u ELSE u)
      /\ Integer(b) = (IF Negative(b) THEN -v ELSE v) /\ b \in Nat
  BY <1>1, Words DEF Value
<1>3. /\ (-u) * (-v) = u * v /\ (-u) * v = -(u * v) /\ u * (-v) = -(u * v)
      /\ (-u) * b = -(u * b)
  BY <1>2
<1>4. Integer(a) * b = IF Negative(a) THEN -(u * b) ELSE u * b
  BY <1>2, <1>3
<1>5. CASE Negative(a) /\ Negative(b)
  BY <1>1, <1>2, <1>3, <1>4, <1>5 DEF Sign
<1>6. CASE Negative(a) /\ ~Negative(b)
  BY <1>1, <1>2, <1>3, <1>4, <1>6 DEF Sign
<1>7. CASE ~Negative(a) /\ Negative(b)
  BY <1>1, <1>2, <1>3, <1>4, <1>7 DEF Sign
<1>8. CASE ~Negative(a) /\ ~Negative(b)
  <2>1. ~Sign(a, b)
    BY <1>8 DEF Sign, Negative
  <2>. QED  BY <1>1, <1>2, <1>4, <1>8, <2>1
<1>. QED  BY <1>5, <1>6, <1>7, <1>8

\* The operands of the multiplier are words, and their product fits product.
LEMMA MulOperands ==
  ASSUME NEW f \in MulOp, NEW a \in Value, NEW b \in Value
  PROVE  /\ MulA(f, a) \in Value /\ MulB(f, b) \in Value
         /\ MulA(f, a) * MulB(f, b) \in Nat /\ MulA(f, a) * MulB(f, b) < Modulus * Modulus
<1>1. MulA(f, a) \in Value /\ MulB(f, b) \in Value
  <2>1. Magnitude(a) \in Value /\ Magnitude(b) \in Value
    BY Words
  <2>. QED  BY <2>1, Zenon DEF MulA, MulB
<1>2. PICK u \in Nat, v \in Nat : u = MulA(f, a) /\ v = MulB(f, b) /\ u < Modulus /\ v < Modulus
  BY <1>1, Words
<1>3. u * v \in Nat /\ u * v < Modulus * Modulus
  <2>1. Modulus \in Nat
    BY Widths
  <2>2. u * v <= u * Modulus /\ u * Modulus < Modulus * Modulus
    BY <1>2, <2>1
  <2>. QED  BY <1>2, <2>1, <2>2
<1>. QED  BY <1>1, <1>2, <1>3

\* The last tick gives the product its sign.
LEMMA MulAnswer ==
  ASSUME NEW f \in MulOp, NEW a \in Value, NEW b \in Value,
         product = MulA(f, a) * MulB(f, b)
  PROVE  Reference(f, a, b) = IF f = "MUL" THEN SignedProduct(f, a, b) % Modulus
                              ELSE SignedProduct(f, a, b) \div Modulus
<1>1. product \in Nat /\ product < Modulus * Modulus /\ Modulus \in Nat /\ Modulus > 0
  BY MulOperands, Widths, Large
<1>. DEFINE neg == (f \in {"MUL", "MULH"} /\ Sign(a, b)) \/ (f = "MULHSU" /\ Negative(a))
            n == IF neg THEN -product ELSE product
            y == IF neg THEN (Modulus * Modulus - product) % (Modulus * Modulus) ELSE product
<1>2. SignedProduct(f, a, b) = y
  BY DEF SignedProduct, WideModulus
<1>3. y % Modulus = n % Modulus /\ y \div Modulus = (n \div Modulus) % Modulus
  <2>1. neg \in BOOLEAN
    OBVIOUS
  <2>. HIDE DEF neg
  <2>. QED  BY <1>1, <2>1, SignOfProduct
<1>4. f \in {"MUL", "MULH", "MULHSU", "MULHU"}
  BY DEF MulOp
<1>5. CASE f \in {"MUL", "MULH"}
  <2>1. n = Integer(a) * Integer(b)
    <3>1. neg <=> Sign(a, b)
      BY <1>5
    <3>2. product = Magnitude(a) * Magnitude(b)
      BY <1>5 DEF MulA, MulB
    <3>. HIDE DEF neg
    <3>. QED  BY <3>1, <3>2, SignedTimes
  <2>. HIDE DEF n, y
  <2>. QED  BY <1>2, <1>3, <1>5, <2>1 DEF Reference
<1>6. CASE f = "MULHSU"
  <2>1. n = Integer(a) * b
    <3>1. neg <=> Negative(a)
      BY <1>6
    <3>2. product = Magnitude(a) * b
      BY <1>6 DEF MulA, MulB
    <3>. HIDE DEF neg
    <3>. QED  BY <3>1, <3>2, SignedTimes
  <2>. HIDE DEF n, y
  <2>. QED  BY <1>2, <1>3, <1>6, <2>1 DEF Reference
<1>7. CASE f = "MULHU"
  <2>1. ~neg /\ y = product
    BY <1>7
  <2>2. product = a * b
    BY <1>7 DEF MulA, MulB
  <2>. HIDE DEF n, y
  <2>. QED  BY <1>2, <1>7, <2>1, <2>2 DEF Reference
<1>. QED  BY <1>4, <1>5, <1>6, <1>7

\* One tick of the multiplier.
LEMMA MulTick ==
  ASSUME Counters, Working, Multiply(op, s1, s2), UNCHANGED <<op, s1, s2>>
  PROVE  (busy' => Multiplying') /\ (busy /\ ~busy' => result' = Reference(op, s1, s2))
<1>1. /\ op \in MulOp /\ s1 \in Value /\ s2 \in Value /\ bitMul \in 0..W /\ W \in Nat
      /\ Modulus \in Nat /\ MinSigned \in Nat /\ Modulus = 2 * MinSigned
  BY Widths DEF Counters, Multiply
<1>2. PICK a \in Nat, b \in Nat : a = MulA(op, s1) /\ b = MulB(op, s2) /\ a < Modulus /\ b < Modulus
  BY <1>1, MulOperands, Widths DEF Value
<1>3. MulA(op, s1)' = a /\ MulB(op, s2)' = b
  BY <1>2 DEF MulA, MulB, Magnitude, Negative, Neg
<1>4. CASE MulLoad(op, s1, s2)
  <2>1. /\ ~busy /\ bitMul' = W /\ product' = a /\ mulcand' = b
    BY <1>2, <1>4 DEF MulLoad, MulA, MulB
  <2>2. /\ 1 * 2^W = Modulus /\ 0 < 1 /\ a = a * 1 + 0
        /\ a = a + (0 * b) * 2^W
    <3>1. 2^W \in Nat
      BY <1>1 DEF Modulus
    <3>. QED  BY <1>2, <3>1 DEF Modulus
  <2>3. \E h, l, p \in Nat : /\ p * 2^(bitMul') = Modulus /\ l < p
                             /\ a = h * p + l
                             /\ product' = h + (l * mulcand') * 2^(bitMul')
    <3>. WITNESS a \in Nat, 0 \in Nat, 1 \in Nat
    <3>. QED  BY <2>1, <2>2
  <2>4. Multiplying'
    BY <1>3, <2>1, <2>3, Zenon DEF Multiplying
  <2>. QED  BY <2>1, <2>4
<1>5. ASSUME busy
      PROVE  /\ mulcand = b
             /\ \E h, l, p \in Nat :
                  /\ p * 2^bitMul = Modulus /\ l < p
                  /\ a = h * p + l
                  /\ product = h + (l * b) * 2^bitMul
  BY <1>1, <1>2, <1>5 DEF Working, Multiplying
<1>6. CASE MulStep
  <2>1. /\ busy /\ busy' = busy /\ bitMul # 0 /\ bitMul' = bitMul - 1 /\ mulcand' = mulcand
        /\ product' = (product \div 2) + (IF product % 2 = 1 THEN mulcand * MinSigned ELSE 0)
    BY <1>6 DEF MulStep
  <2>2. PICK h \in Nat, l \in Nat, p \in Nat :
          /\ p * 2^bitMul = Modulus /\ l < p /\ a = h * p + l
          /\ product = h + (l * b) * 2^bitMul
    BY <1>5, <2>1
  <2>3. bitMul - 1 \in 0 .. W - 1 /\ (bitMul - 1) + 1 = bitMul /\ bitMul - 1 \in 0..W
    BY <1>1, <2>1
  <2>4. PICK q \in Nat : q = 2^(bitMul - 1) /\ 2^bitMul = 2 * q
    <3>1. 2^(bitMul - 1) \in Nat /\ 2^((bitMul - 1) + 1) = 2 * 2^(bitMul - 1)
      BY <2>3, Powers
    <3>2. 2^((bitMul - 1) + 1) = 2^bitMul
      BY <2>3, Zenon
    <3>. QED  BY <3>1, <3>2
  <2>5. p * q = MinSigned /\ (2 * p) * q = Modulus
    <3>1. p * (2 * q) = 2 * (p * q) /\ (2 * p) * q = 2 * (p * q) /\ p * q \in Nat
      OBVIOUS
    <3>. QED  BY <1>1, <2>2, <2>4, <3>1
  <2>6. PICK k \in Nat, m \in Nat :
          /\ h * p + l = k * (2 * p) + m /\ m < 2 * p
          /\ (product \div 2) + (IF product % 2 = 1 THEN b * (p * q) ELSE 0) = k + (m * b) * q
    <3>1. product = h + (l * b) * (2 * q)
      BY <2>2, <2>4
    <3>. DEFINE x == h + (l * b) * (2 * q)
                k == h \div 2
                m == l + (h % 2) * p
    <3>2. /\ k \in Nat /\ m \in Nat
          /\ h * p + l = k * (2 * p) + m
          /\ l < p => m < 2 * p
          /\ (x \div 2) + (IF x % 2 = 1 THEN b * (p * q) ELSE 0) = k + (m * b) * q
      BY OneBitMultiplied
    <3>3. product = x
      BY <3>1
    <3>. HIDE DEF x, k, m
    <3>. QED  BY <2>2, <3>2, <3>3
  <2>7. product' = k + (m * b) * q /\ mulcand' = b
    BY <1>5, <2>1, <2>5, <2>6
  <2>8. \E hh, ll, pp \in Nat : /\ pp * 2^(bitMul') = Modulus /\ ll < pp
                                /\ a = hh * pp + ll
                                /\ product' = hh + (ll * mulcand') * 2^(bitMul')
    <3>1. 2 * p \in Nat
      OBVIOUS
    <3>2. 2^(bitMul') = q
      BY <2>1, <2>4
    <3>. WITNESS k \in Nat, m \in Nat, 2 * p \in Nat
    <3>. QED  BY <2>2, <2>5, <2>6, <2>7, <3>2, Zenon
  <2>9. Multiplying'
    BY <1>3, <2>7, <2>8, Zenon DEF Multiplying
  <2>. QED  BY <2>1, <2>9
<1>7. CASE MulEnd(op, s1, s2)
  <2>1. /\ busy /\ bitMul = 0 /\ busy' = FALSE
        /\ result' = IF op = "MUL" THEN SignedProduct(op, s1, s2) % Modulus
                     ELSE SignedProduct(op, s1, s2) \div Modulus
    BY <1>7 DEF MulEnd
  <2>2. PICK h \in Nat, l \in Nat, p \in Nat :
          /\ p * 2^bitMul = Modulus /\ l < p /\ a = h * p + l
          /\ product = h + (l * b) * 2^bitMul
    BY <1>5, <2>1
  <2>3. 2^bitMul = 1
    BY <2>1, Powers
  <2>4. p = Modulus
    BY <2>2, <2>3
  <2>5. h = 0 /\ l = a
    <3>1. a = p * h + l /\ a = p * 0 + a
      BY <1>2, <2>2
    <3>. QED  BY <1>2, <2>2, <2>4, <3>1, Unique
  <2>6. product = a * b
    <3>1. a * b \in Nat
      BY <1>2
    <3>. QED  BY <2>2, <2>3, <2>5, <3>1
  <2>. QED  BY <1>1, <1>2, <2>1, <2>6, MulAnswer
<1>. QED  BY <1>4, <1>6, <1>7 DEF Multiply

-----------------------------------------------------------------------------
(* The divider. *)

\* The operands of the divider are words.
LEMMA DivOperand ==
  ASSUME NEW f, NEW x \in Value
  PROVE  DivArg(f, x) \in Nat /\ DivArg(f, x) < Modulus /\ (x # 0 => DivArg(f, x) > 0)
<1>1. /\ Magnitude(x) \in Nat /\ Magnitude(x) < Modulus /\ (x # 0 => Magnitude(x) > 0)
      /\ x \in Nat /\ x < Modulus /\ (x # 0 => x > 0)
  BY Words, Widths DEF Value
<1>. QED  BY <1>1, Zenon DEF DivArg

\* The difference has no borrow when the divisor fits.
LEMMA FitsCompares ==
  ASSUME NEW d \in Nat, d < Modulus, dividendCopy \in Nat, dividendCopy < Modulus,
         dividerCopy \in Nat, dividerCopy <= d * MinSigned
  PROVE  Fits <=> dividerCopy <= dividendCopy
<1>1. PICK n \in Nat : n = MinSigned /\ n >= 2 /\ Modulus = 2 * n
  BY Widths, Large
<1>2. WideModulus = 4 * (n * n)
  <2>1. (2 * n) * (2 * n) = 4 * (n * n)
    OBVIOUS
  <2>. QED  BY <1>1, <2>1 DEF WideModulus
<1>3. dividerCopy < 2 * (n * n)
  <2>1. d * n <= (2 * n - 1) * n /\ (2 * n - 1) * n = 2 * (n * n) - n /\ n * n \in Nat
    BY <1>1
  <2>. QED  BY <1>1, <2>1
<1>4. (dividendCopy - dividerCopy) % (4 * (n * n)) < (4 * (n * n)) \div 2
        <=> dividerCopy <= dividendCopy
  BY <1>1, <1>3, Borrow
<1>. QED  BY <1>2, <1>4, Zenon DEF Fits

\* One tick of the divider.
LEMMA DivTick ==
  ASSUME Counters, Working, Divide(op, s1, s2), UNCHANGED <<op, s1, s2>>
  PROVE  (busy' => Dividing') /\ (~busy' => result' = DivAnswer(op, s1, s2))
<1>1. /\ op \in {"DIV", "DIVU", "REM", "REMU"} /\ op \in DivOp /\ s1 \in Value /\ s2 \in Value
      /\ bitDiv \in 0..W /\ W \in Nat /\ W >= 2
      /\ Modulus \in Nat /\ Modulus > 0 /\ MinSigned \in Nat /\ Modulus = 2 * MinSigned
  BY Widths, Large DEF Counters, Divide, DivOp
<1>2. PICK a \in Nat, d \in Nat : /\ a = DivArg(op, s1) /\ d = DivArg(op, s2) /\ a < Modulus
                                  /\ d < Modulus /\ (s2 # 0 => d > 0)
  BY <1>1, DivOperand
<1>3. /\ DivArg(op, s1)' = a /\ DivArg(op, s2)' = d
      /\ DivSpecial(op, s1, s2)' = DivSpecial(op, s1, s2)
  BY <1>2 DEF DivArg, Magnitude, Negative, Neg, DivSpecial
<1>4. ASSUME ~DivSpecial(op, s1, s2) PROVE s2 # 0 /\ d > 0
  BY <1>2, <1>4 DEF DivSpecial
<1>5. CASE DivAtOnce(op, s1, s2)
  <2>1. /\ ~busy /\ ~busy' /\ DivSpecial(op, s1, s2)
        /\ result' = IF s2 = 0 /\ op \in {"REM", "REMU"} THEN s1 ELSE Ones
    BY <1>5 DEF DivAtOnce
  <2>2. CASE s2 = 0
    BY <1>1, <2>1, <2>2 DEF DivAnswer
  <2>3. CASE s2 # 0
    <3>1. op = "REM"
      BY <2>1, <2>3 DEF DivSpecial
    <3>. QED  BY <2>1, <2>3, <3>1 DEF DivAnswer
  <2>. QED  BY <2>1, <2>2, <2>3
<1>6. CASE DivLoad(op, s1, s2)
  <2>1. /\ ~DivSpecial(op, s1, s2) /\ busy' = TRUE /\ result' = 0 /\ bitDiv' = W
        /\ dividendCopy' = a /\ dividerCopy' = d * MinSigned
    BY <1>2, <1>6 DEF DivLoad, DivArg
  <2>2. /\ 0 \in Value /\ a \in Value /\ 0 * (d * 2^W) = 0 /\ a = 0 + a
        /\ a < d * 2^W /\ 2 * (d * MinSigned) = d * 2^W 
        /\ d * MinSigned <= d * MinSigned /\ d * MinSigned \in Nat
    <3>1. d * Modulus >= Modulus /\ 2 * (d * MinSigned) = d * Modulus /\ d * Modulus \in Nat
      BY <1>1, <1>4, <2>1
    <3>2. 2^W = Modulus /\ d * MinSigned \in Nat
      BY <1>1 DEF Modulus
    <3>. QED  BY <1>1, <1>2, <3>1, <3>2 DEF Value
  <2>3. Dividing'
    <3>1. ~DivSpecial(op, s1, s2)'
      BY <1>3, <2>1
    <3>. QED  BY <1>3, <2>1, <2>2, <3>1, Zenon DEF Dividing
  <2>. QED  BY <2>1, <2>3
<1>7. ASSUME busy
      PROVE  /\ ~DivSpecial(op, s1, s2) /\ d > 0
             /\ result \in Nat /\ dividendCopy \in Nat /\ dividendCopy < Modulus
             /\ a = result * (d * 2^bitDiv) + dividendCopy
             /\ dividendCopy < d * 2^bitDiv
             /\ bitDiv > 0 => /\ dividerCopy \in Nat /\ 2 * dividerCopy = d * 2^bitDiv
                              /\ dividerCopy <= d * MinSigned
  <2>1. Dividing
    BY <1>1, <1>7 DEF Working
  <2>2. \A x \in Value : x \in Nat /\ x < Modulus
    BY Words
  <2>. QED  BY <1>2, <1>4, <2>1, <2>2 DEF Dividing
<1>8. CASE DivStep
  <2>1. /\ busy /\ busy' = busy /\ bitDiv # 0 /\ bitDiv' = bitDiv - 1
        /\ dividendCopy' = IF Fits THEN dividendCopy - dividerCopy ELSE dividendCopy
        /\ result' = (2 * result + (IF Fits THEN 1 ELSE 0)) % Modulus
        /\ dividerCopy' = dividerCopy \div 2
    BY <1>8 DEF DivStep
  <2>2. /\ bitDiv - 1 \in 0 .. W - 1 /\ bitDiv - 1 \in 0..W /\ (bitDiv - 1) + 1 = bitDiv
        /\ bitDiv > 0
    BY <1>1, <2>1
  <2>3. PICK q \in Nat : q = 2^(bitDiv - 1) /\ 2^bitDiv = 2 * q /\ q > 0
    <3>1. /\ 2^(bitDiv - 1) \in Nat /\ 2^(bitDiv - 1) > 0
          /\ 2^((bitDiv - 1) + 1) = 2 * 2^(bitDiv - 1)
      BY <2>2, Powers
    <3>2. 2^((bitDiv - 1) + 1) = 2^bitDiv
      BY <2>2, Zenon
    <3>. QED  BY <3>1, <3>2
  <2>4. PICK v \in Nat : v = d * q /\ v > 0 /\ d * 2^bitDiv = 2 * v
    <3>1. d * q \in Nat /\ d * q > 0 /\ d * (2 * q) = 2 * (d * q)
      BY <1>7, <2>1, <2>3
    <3>. QED  BY <2>3, <3>1
  <2>5. dividerCopy = v /\ v <= d * MinSigned
    <3>1. dividerCopy \in Nat /\ 2 * dividerCopy = 2 * v /\ dividerCopy <= d * MinSigned
      BY <1>7, <2>1, <2>2, <2>4, Zenon
    <3>2. dividerCopy = v
      BY <3>1
    <3>. QED  BY <3>1, <3>2, Zenon
  <2>6. Fits <=> v <= dividendCopy
    BY <1>2, <1>7, <2>1, <2>5, FitsCompares
  <2>. DEFINE fits == v <= dividendCopy
              c == IF fits THEN dividendCopy - v ELSE dividendCopy
              r == 2 * result + (IF fits THEN 1 ELSE 0)
  <2>7. c \in Nat /\ c < v /\ r \in Nat /\ a = r * v + c /\ c <= dividendCopy
    <3>1. a = result * (2 * v) + dividendCopy /\ dividendCopy < 2 * v
      BY <1>7, <2>1, <2>4
    <3>2. c \in Nat /\ c < v /\ r \in Nat /\ result * (2 * v) + dividendCopy = r * v + c
      BY <1>7, <2>1, <3>1, OneBitDivided
    <3>3. c <= dividendCopy
      BY <1>7, <2>1, <2>4
    <3>. HIDE DEF c, r
    <3>. QED  BY <3>1, <3>2, <3>3
  <2>8. dividendCopy' = c /\ result' = r % Modulus
    BY <2>1, <2>5, <2>6
  <2>. HIDE DEF c, r
  <2>9. r < Modulus
    <3>1. r * v >= r
      BY <2>4, <2>7
    <3>2. r * v \in Nat
      BY <2>7
    <3>. QED  BY <1>1, <1>2, <2>7, <3>1, <3>2
  <2>10. result' = r
    <3>1. r = Modulus * 0 + r
      BY <1>1, <2>7
    <3>. QED  BY <1>1, <2>7, <2>8, <2>9, <3>1, DivMod
  <2>11. result' \in Value /\ dividendCopy' \in Value
    BY <1>1, <1>7, <2>1, <2>7, <2>8, <2>9, <2>10 DEF Value
  <2>12. d * 2^(bitDiv') = v
    BY <2>1, <2>3, <2>4
  <2>13. bitDiv' > 0 => /\ dividerCopy' \in Nat /\ 2 * dividerCopy' = v
                        /\ dividerCopy' <= d * MinSigned
    <3>1. ASSUME bitDiv' > 0 PROVE \E z \in Nat : v = 2 * z
      <4>1. /\ bitDiv - 2 \in 0 .. W - 1 /\ bitDiv - 2 \in 0..W
            /\ (bitDiv - 2) + 1 = bitDiv - 1
        BY <1>1, <2>1, <3>1
      <4>2. PICK u \in Nat : u = 2^(bitDiv - 2) /\ 2^((bitDiv - 2) + 1) = 2 * u
        BY <4>1, Powers
      <4>3. q = 2 * u
        BY <2>3, <4>1, <4>2, Zenon
      <4>4. d * u \in Nat /\ d * (2 * u) = 2 * (d * u)
        OBVIOUS
      <4>. QED  BY <2>4, <4>3, <4>4
    <3>2. ASSUME bitDiv' > 0
          PROVE  dividerCopy' \in Nat /\ 2 * dividerCopy' = v /\ dividerCopy' <= d * MinSigned
      <4>1. PICK z \in Nat : v = 2 * z
        BY <3>1, <3>2
      <4>2. dividerCopy' = z /\ z <= v
        BY <2>1, <2>5, <4>1
      <4>3. d * MinSigned \in Nat
        BY <1>1
      <4>. QED  BY <2>5, <4>1, <4>2, <4>3
    <3>. QED  BY <3>2
  <2>14. Dividing'
    <3>1. ~DivSpecial(op, s1, s2)'
      BY <1>3, <1>7, <2>1
    <3>2. a = result' * v + dividendCopy' /\ dividendCopy' < v
      BY <2>7, <2>8, <2>10
    <3>. QED  BY <1>3, <2>11, <2>12, <2>13, <3>1, <3>2, Zenon DEF Dividing
  <2>. QED  BY <2>1, <2>14
<1>9. CASE DivEnd(op, s1, s2)
  <2>1. /\ busy /\ bitDiv = 0 /\ busy' = FALSE
        /\ result' = CASE op = "DIV" -> IF Sign(s1, s2) THEN Neg(result) ELSE result
                       [] op = "DIVU" -> result
                       [] OTHER -> dividendCopy % Modulus
    BY <1>9 DEF DivEnd
  <2>2. d * 2^bitDiv = d
    <3>1. 2^bitDiv = 1
      BY <2>1, Powers
    <3>. QED  BY <3>1
  <2>3. /\ a = result * d + dividendCopy /\ dividendCopy < d /\ result \in Nat /\ dividendCopy \in Nat
        /\ dividendCopy < Modulus /\ ~DivSpecial(op, s1, s2) /\ s2 # 0 /\ d > 0
    BY <1>4, <1>7, <2>1, <2>2
  <2>4. result = a \div d /\ dividendCopy = a % d
    <3>1. a = d * result + dividendCopy
      BY <2>3
    <3>. QED  BY <2>3, <3>1, DivMod
  <2>5. dividendCopy % Modulus = dividendCopy
    <3>1. dividendCopy = Modulus * 0 + dividendCopy
      BY <1>1, <2>3
    <3>. QED  BY <1>1, <2>3, <3>1, DivMod
  <2>6. CASE op = "DIV"
    BY <1>2, <2>1, <2>3, <2>4, <2>6 DEF DivAnswer
  <2>7. CASE op = "DIVU"
    BY <1>2, <2>1, <2>3, <2>4, <2>7 DEF DivAnswer
  <2>8. CASE op \in {"REM", "REMU"}
    BY <1>2, <2>1, <2>3, <2>4, <2>5, <2>8 DEF DivAnswer
  <2>. QED  BY <1>1, <2>1, <2>6, <2>7, <2>8
<1>. QED  BY <1>5, <1>6, <1>8, <1>9 DEF Divide

\* What the divider answers is the quotient rounded towards zero, or the
\* remainder where the dividend has no sign.
LEMMA DivAnswerReference ==
  ASSUME NEW f \in DivOp, NEW a \in Value, NEW b \in Value, ~(f = "REM" /\ Negative(a))
  PROVE  DivAnswer(f, a, b) = Reference(f, a, b)
<1>1. f \in {"DIV", "DIVU", "REM", "REMU"} /\ Modulus \in Nat /\ Modulus > 0 /\ a \in Nat /\ b \in Nat
  BY Widths, Large DEF DivOp, Value
<1>2. CASE b = 0
  BY <1>1, <1>2 DEF DivAnswer, Reference, DivSpecial
<1>3. CASE b # 0 /\ f \in {"DIVU", "REMU"}
  BY <1>1, <1>3 DEF DivAnswer, Reference, DivSpecial, DivArg
<1>4. CASE b # 0 /\ f \in {"DIV", "REM"}
  <2>1. PICK n \in Nat, d \in Nat :
          /\ n = Magnitude(a) /\ n < Modulus /\ d = Magnitude(b) /\ d > 0 /\ d < Modulus
          /\ Integer(a) = (IF Negative(a) THEN -n ELSE n)
          /\ Integer(b) = (IF Negative(b) THEN -d ELSE d)
          /\ Negative(a) <=> Integer(a) < 0
          /\ Negative(b) <=> Integer(b) < 0
    <3>1. ASSUME NEW x \in Value
          PROVE  /\ Magnitude(x) \in Nat /\ Magnitude(x) < Modulus /\ (x # 0 => Magnitude(x) > 0)
                 /\ Integer(x) = (IF Negative(x) THEN -Magnitude(x) ELSE Magnitude(x))
                 /\ Negative(x) <=> Integer(x) < 0
      <4>1. /\ Magnitude(x) \in Value /\ (Magnitude(x) = 0 <=> x = 0)
            /\ (Negative(x) <=> Integer(x) < 0)
            /\ Integer(x) = IF Negative(x) THEN -Magnitude(x) ELSE Magnitude(x)
        BY Words
      <4>2. Magnitude(x) \in Nat /\ Magnitude(x) < Modulus /\ (x # 0 => Magnitude(x) > 0)
        BY <4>1, Widths DEF Value
      <4>. QED  BY <4>1, <4>2, Zenon
    <3>. QED  BY <1>4, <3>1, Zenon
  <2>2. DivArg(f, a) = n /\ DivArg(f, b) = d
    BY <1>4, <2>1 DEF DivArg
  <2>3. PICK q \in Int, r \in Int : q = n \div d /\ r = n % d /\ n = d * q + r /\ 0 <= r /\ r < d
    <3>1. n \in Int /\ d > 0
      BY <2>1
    <3>. QED  BY <3>1, Euclid
  <2>4. 0 <= q /\ q < Modulus
    <3>1. ASSUME q < 0 PROVE FALSE
      <4>1. d * q <= d * (-1)
        BY <2>1, <3>1
      <4>. QED  BY <2>1, <2>3, <4>1
    <3>2. q \in Nat /\ d >= 1 /\ n < Modulus
      BY <2>1, <3>1
    <3>3. d * q >= q /\ d * q \in Nat
      BY <3>2
    <3>. QED  BY <1>1, <2>3, <3>2, <3>3
  <2>5. Abs(Integer(a)) = n /\ Abs(Integer(b)) = d
    BY <2>1 DEF Abs
  <2>6. ((Integer(a) < 0) # (Integer(b) < 0)) <=> Sign(a, b)
    <3>1. (Negative(a) <=> Integer(a) < 0) /\ (Negative(b) <=> Integer(b) < 0)
      BY <2>1
    <3>. QED  BY <3>1 DEF Sign, Negative
  <2>7. Quot(Integer(a), Integer(b)) = IF Sign(a, b) THEN -q ELSE q
    BY <2>3, <2>5, <2>6 DEF Quot
  <2>8. \A x \in Int : 0 <= x /\ x < Modulus => x % Modulus = x
    <3>1. ASSUME NEW x \in Int, 0 <= x, x < Modulus PROVE x % Modulus = x
      <4>1. x = Modulus * 0 + x
        BY <1>1
      <4>. QED  BY <1>1, <3>1, <4>1, DivMod
    <3>. QED  BY <3>1
  <2>9. CASE f = "DIV"
    <3>1. (-q) % Modulus = Neg(q)
      <4>1. (-q + Modulus * 1) % Modulus = (-q) % Modulus
        BY <1>1, <2>4, AddMultiple
      <4>2. -q + Modulus * 1 = Modulus - q
        BY <1>1
      <4>. QED  BY <4>1, <4>2 DEF Neg
    <3>2. DivAnswer(f, a, b) = IF Sign(a, b) THEN Neg(q) ELSE q
      BY <1>4, <2>2, <2>3, <2>9 DEF DivAnswer
    <3>3. Reference(f, a, b) = Quot(Integer(a), Integer(b)) % Modulus
      BY <1>4, <2>9 DEF Reference
    <3>4. q % Modulus = q
      BY <2>4, <2>8
    <3>. QED  BY <2>7, <3>1, <3>2, <3>3, <3>4
  <2>10. CASE f = "REM"
    <3>1. ~Negative(a)
      BY <2>10
    <3>2. ~DivSpecial(f, a, b)
      BY <1>4, <3>1, Widths, Large DEF DivSpecial, Negative, Ones
    <3>3. DivAnswer(f, a, b) = r
      BY <1>4, <2>2, <2>3, <2>10, <3>2 DEF DivAnswer
    <3>4. Integer(a) - Integer(b) * Quot(Integer(a), Integer(b)) = r
      <4>1. Integer(a) = n
        BY <2>1, <3>1
      <4>2. CASE Negative(b)
        <5>1. Sign(a, b) /\ Integer(b) = -d
          BY <2>1, <3>1, <4>2 DEF Sign
        <5>2. Quot(Integer(a), Integer(b)) = -q
          BY <2>7, <5>1
        <5>3. (-d) * (-q) = d * q
          BY <2>3
        <5>. QED  BY <2>3, <4>1, <5>1, <5>2, <5>3
      <4>3. CASE ~Negative(b)
        <5>1. ~Sign(a, b)
          BY <3>1, <4>3 DEF Sign, Negative
        <5>2. Integer(b) = d
          BY <2>1, <4>3
        <5>3. Quot(Integer(a), Integer(b)) = q
          BY <2>7, <5>1
        <5>. QED  BY <2>3, <4>1, <5>2, <5>3
      <4>. QED  BY <4>2, <4>3
    <3>5. Reference(f, a, b) = (Integer(a) - Integer(b) * Quot(Integer(a), Integer(b))) % Modulus
      BY <1>4, <2>10 DEF Reference
    <3>6. r % Modulus = r
      <4>1. 0 <= r /\ r < Modulus
        BY <1>1, <2>1, <2>3
      <4>. QED  BY <2>8, <4>1, Zenon
    <3>. QED  BY <3>3, <3>4, <3>5, <3>6
  <2>. QED  BY <1>4, <2>9, <2>10
<1>. QED  BY <1>1, <1>2, <1>3, <1>4

-----------------------------------------------------------------------------
(* The operations of one tick. *)

\* Words are added, subtracted and compared like the integers they stand for.
LEMMA SimpleReference ==
  ASSUME NEW f \in SimpleOp, NEW a \in Value, NEW b \in Value
  PROVE  Simple(f, a, b) = Reference(f, a, b)
<1>1. /\ f \in {"ADD", "SUB", "AND", "OR", "XOR", "SLT", "SLTU"}
      /\ Modulus \in Nat /\ Modulus > 0 /\ a \in Nat /\ b \in Nat
  BY Widths, Large DEF SimpleOp, Value
<1>2. PICK j \in Int : Integer(a) = a + Modulus * j
  BY Words
<1>3. PICK k \in Int : Integer(b) = b + Modulus * k
  BY Words
<1>. DEFINE Shifted(x, i) == (x + Modulus * i) % Modulus = x % Modulus
<1>0. \A x, i \in Int : Shifted(x, i)
  BY <1>1, AddMultiple
<1>4. CASE f = "ADD"
  <2>1. Integer(a) + Integer(b) = (a + b) + Modulus * (j + k)
    BY <1>1, <1>2, <1>3
  <2>2. ((a + b) + Modulus * (j + k)) % Modulus = (a + b) % Modulus
    <3>1. a + b \in Int /\ j + k \in Int
      BY <1>1
    <3>. QED  BY <1>0, <3>1, Zenon
  <2>. QED  BY <1>4, <2>1, <2>2 DEF Simple, Reference
<1>5. CASE f = "SUB"
  <2>1. Integer(a) - Integer(b) = (a - b) + Modulus * (j - k)
    BY <1>1, <1>2, <1>3
  <2>2. ((a - b) + Modulus * (j - k)) % Modulus = (a - b) % Modulus
    <3>1. a - b \in Int /\ j - k \in Int
      BY <1>1
    <3>. QED  BY <1>0, <3>1, Zenon
  <2>. QED  BY <1>5, <2>1, <2>2 DEF Simple, Reference
<1>6. CASE f \in {"AND", "OR", "XOR"}
  BY <1>6 DEF Reference
<1>7. Lt(a, b) = (Integer(a) < Integer(b)) /\ Ltu(a, b) = (a < b)
  <2>1. a < Modulus /\ b < Modulus
    BY Words
  <2>. QED  BY <1>1, <2>1, Widths DEF Lt, Ltu, Sign, Negative, Integer
<1>8. CASE f = "SLT"
  BY <1>7, <1>8 DEF Simple, Reference
<1>9. CASE f = "SLTU"
  BY <1>7, <1>9 DEF Simple, Reference
<1>. QED  BY <1>1, <1>4, <1>5, <1>6, <1>8, <1>9

-----------------------------------------------------------------------------
(* One tick of the ALU with the operation of the instruction, and the      *)
(* invariant of the results. *)

\* The ALU goes on with what it does or answers.
LEMMA ResultTick ==
  ASSUME PathInv, ResultInv, NEW en \in BOOLEAN, en \/ busy, AluTick(en, op, s1, s2),
         UNCHANGED <<op, s1, s2>>
  PROVE  Working' /\ (~busy' => result' = Answer(op, s1, s2))
<1>1. Counters /\ Working /\ s1 \in Value /\ s2 \in Value /\ (busy => op \notin SimpleOp)
  BY DEF PathInv, Counters, NothingLeft, ResultInv
<1>2. \/ Immediate(op, s1, s2) \/ Shift(op, s1, s2) \/ Multiply(op, s1, s2) \/ Divide(op, s1, s2)
  BY DEF AluTick
<1>3. CASE Immediate(op, s1, s2)
  <2>1. op \in SimpleOp /\ op \notin DivOp /\ result' = Simple(op, s1, s2) /\ ~busy'
    BY <1>1, <1>3 DEF Immediate, SimpleOp, DivOp
  <2>2. result' = Answer(op, s1, s2)
    BY <1>1, <2>1, SimpleReference DEF Answer
  <2>. QED  BY <2>1, <2>2 DEF Working
<1>4. CASE Shift(op, s1, s2)
  <2>1. op \in ShiftOp /\ op \notin MulOp /\ op \notin DivOp
    BY <1>4 DEF Shift, ShiftOp, MulOp, DivOp
  <2>2. (busy' => Shifting') /\ (busy /\ ~busy' => result' = Reference(op, s1, s2))
    BY <1>1, <1>4, ShiftTick
  <2>3. ~busy' => busy
    BY <1>4 DEF Shift
  <2>4. Working'
    BY <2>1, <2>2, Zenon DEF Working
  <2>. QED  BY <2>1, <2>2, <2>3, <2>4, Zenon DEF Answer
<1>5. CASE Multiply(op, s1, s2)
  <2>1. op \in MulOp /\ op \notin ShiftOp /\ op \notin DivOp
    BY <1>5 DEF Multiply, ShiftOp, MulOp, DivOp
  <2>2. (busy' => Multiplying') /\ (busy /\ ~busy' => result' = Reference(op, s1, s2))
    BY <1>1, <1>5, MulTick
  <2>3. ~busy' => busy
    BY <1>5 DEF Multiply, MulLoad, MulStep, MulEnd
  <2>4. Working'
    BY <2>1, <2>2, Zenon DEF Working
  <2>. QED  BY <2>1, <2>2, <2>3, <2>4, Zenon DEF Answer
<1>6. CASE Divide(op, s1, s2)
  <2>1. op \in DivOp /\ op \notin MulOp /\ op \notin ShiftOp
    BY <1>6 DEF Divide, ShiftOp, MulOp, DivOp
  <2>2. (busy' => Dividing') /\ (~busy' => result' = DivAnswer(op, s1, s2))
    BY <1>1, <1>6, DivTick
  <2>3. Working'
    BY <2>1, <2>2, Zenon DEF Working
  <2>. QED  BY <2>1, <2>2, <2>3, Zenon DEF Answer
<1>. QED  BY <1>2, <1>3, <1>4, <1>5, <1>6

\* An idle ALU is not working on anything.
LEMMA Idle == ASSUME ~busy' PROVE Working'
BY Zenon DEF Working

\* The invariant of the results is inductive, on top of the first one.
LEMMA ResultHolds == Spec => []ResultInv
<1>1. Init => ResultInv
  BY DEF Init, ResultInv, Working, Answered
<1>2. PathInv /\ ResultInv /\ [Next]_vars => ResultInv'
  <2> SUFFICES ASSUME PathInv, ResultInv, [Next]_vars PROVE ResultInv'
    OBVIOUS
  <2>1. CASE Fetch
    <3>1. ~busy /\ state' = "EXEC"
      BY <2>1 DEF Fetch, PathInv, NothingLeft
    <3>2. PICK pc \in Pcs : AluTick(TRUE, "ADD", pc, 4 % Modulus)
      BY <2>1 DEF Fetch
    <3>3. "ADD" \notin ShiftOp /\ "ADD" \notin MulOp /\ "ADD" \notin DivOp
      BY DEF ShiftOp, MulOp, DivOp
    <3>4. ~busy'
      BY <3>1, <3>2, <3>3 DEF AluTick, Immediate, Shift, Multiply, Divide
    <3>. QED  BY <3>1, <3>4, Idle DEF ResultInv, Answered
  <2>2. ASSUME NEW halt, Exec(halt) PROVE ResultInv'
    <3>1. /\ AluTick(TRUE, op, s1, s2) /\ UNCHANGED <<op, s1, s2>>
      BY <2>2 DEF Exec
    <3>2. Working' /\ (~busy' => result' = Answer(op, s1, s2))
      BY <3>1, ResultTick
    <3>3. Answer(op, s1, s2)' = Answer(op, s1, s2)
      BY <3>1
    <3>. QED  BY <3>2, <3>3, Zenon DEF ResultInv, Answered
  <2>3. ASSUME NEW halt, PostExec(halt) PROVE ResultInv'
    <3>1. AluTick(FALSE, op, s1, s2) /\ UNCHANGED <<op, s1, s2>> /\ state = "POST_EXEC"
      BY <2>3 DEF PostExec
    <3>2. Answer(op, s1, s2)' = Answer(op, s1, s2)
      BY <3>1
    <3>3. CASE busy
      <4>1. Working' /\ (~busy' => result' = Answer(op, s1, s2))
        BY <3>1, <3>3, ResultTick
      <4>. QED  BY <3>2, <4>1, Zenon DEF ResultInv, Answered
    <3>4. CASE ~busy
      <4>1. ~busy' /\ result' = result
        BY <3>1, <3>4 DEF AluTick, aluVars
      <4>2. result = Answer(op, s1, s2)
        BY <3>1, <3>4 DEF ResultInv, Answered
      <4>3. Working'
        BY <4>1, Idle
      <4>. QED  BY <3>2, <4>1, <4>2, <4>3, Zenon DEF ResultInv, Answered
    <3>. QED  BY <3>3, <3>4
  <2>4. ASSUME NEW halt, UpdatePc(halt) PROVE ResultInv'
    <3>1. /\ AluTick(FALSE, "ADD", s1, s2) /\ UNCHANGED <<op, s1, s2>> /\ ~busy
          /\ state = "UPDATE_PC"
      BY <2>4 DEF UpdatePc, PathInv, NothingLeft
    <3>2. ~busy' /\ result' = result
      BY <3>1 DEF AluTick, aluVars
    <3>3. result = Answer(op, s1, s2)
      BY <3>1 DEF ResultInv, Answered
    <3>4. Answer(op, s1, s2)' = Answer(op, s1, s2)
      BY <3>1
    <3>5. Working'
      BY <3>2, Idle
    <3>. QED  BY <3>2, <3>3, <3>4, <3>5, Zenon DEF ResultInv, Answered
  <2>5. CASE Reset
    <3>1. ~busy' /\ state' = "FETCH"
      BY <2>5 DEF Reset, AluReset
    <3>. QED  BY <3>1, Idle DEF ResultInv, Answered
  <2>6. CASE UNCHANGED vars
    <3>1. /\ UNCHANGED <<busy, shiftcnt, bitMul, bitDiv, state, op, s1, s2>>
          /\ UNCHANGED <<result, product, mulcand, dividendCopy, dividerCopy>>
      BY <2>6 DEF vars, aluVars, pathVars, shiftVars, mulVars, divVars
    <3>2. Working' = Working /\ Answered' = Answered
      BY <3>1 DEF Working, Answered, Shifting, Multiplying, Dividing
    <3>. QED  BY <3>2 DEF ResultInv
  <2>. QED  BY <2>1, <2>2, <2>3, <2>4, <2>5, <2>6 DEF Next, Clock
<1>. QED  BY <1>1, <1>2, PathHolds, PTL DEF Spec

\* What an instruction writes back is what the arithmetic of the integers its
\* operands stand for gives, for words of every width: the shifter, the
\* multiplier and the divider compute it bit by bit, and neither the host's
\* halts nor an operation that a reset has broken off get in the way.
THEOREM ResultsCorrect == Spec => []ResultCorrect
<1>1. PathInv /\ ResultInv => ResultCorrect
  <2>. SUFFICES ASSUME PathInv, ResultInv, state = "UPDATE_PC", ~(op = "REM" /\ Negative(s1))
                PROVE  result = Reference(op, s1, s2)
    BY DEF ResultCorrect
  <2>1. ~busy /\ s1 \in Value /\ s2 \in Value
    BY DEF PathInv, NothingLeft, Counters
  <2>2. result = Answer(op, s1, s2)
    BY <2>1 DEF ResultInv, Answered
  <2>3. CASE op \in DivOp
    BY <2>1, <2>2, <2>3, DivAnswerReference DEF Answer
  <2>4. CASE op \notin DivOp
    BY <2>2, <2>4 DEF Answer
  <2>. QED  BY <2>3, <2>4
<1>. QED  BY <1>1, PathHolds, ResultHolds, PTL

-----------------------------------------------------------------------------
(* The prototype of the divider.  Its loops are recursive functions, read  *)
(* by induction from the last position down.                               *)

\* Induction from m down to 0, on a set.
LEMMA Descent ==
  ASSUME NEW m \in Nat, NEW T, m \in T, \A k \in 0 .. m - 1 : k + 1 \in T => k \in T
  PROVE  0 \in T
<1>. DEFINE U == {i \in Nat : i <= m /\ m - i \notin T}
<1>1. SUFFICES ASSUME U # {} PROVE FALSE
  <2>1. m \in Nat /\ m <= m /\ m - m = 0
    OBVIOUS
  <2>. QED  BY <1>1, <2>1
<1>2. PICK x \in U : \A y \in U : ~(<<y, x>> \in OpToRel(<, Nat))
  BY <1>1, NatLessThanWellFounded, WFMin, Zenon
<1>3. \A y \in U : ~(y < x)
  BY <1>2 DEF OpToRel
<1>4. CASE x = 0
  BY <1>4
<1>5. CASE x # 0
  <2>1. /\ x - 1 \in Nat /\ x - 1 <= m /\ x - 1 < x /\ m - (x - 1) = (m - x) + 1
        /\ m - x \in 0 .. m - 1
    BY <1>5
  <2>2. m - (x - 1) \in T
    BY <1>3, <2>1
  <2>. QED  BY <2>1, <2>2
<1>. QED  BY <1>4, <1>5

\* The loops as functions.
More(n, d, k) == n > d * 2^k /\ ~Negative(d * 2^k)
Shifts(n, d) ==
  CHOOSE f : f = [k \in 0 .. W - 1 |-> IF n > d * 2^k /\ ~Negative(d * 2^k) THEN f[k + 1] ELSE k]

\* The normalization stops at the latest where the divisor has its top bit
\* set, and then twice the divisor is beyond the dividend.
LEMMA NormalizationStops ==
  ASSUME NEW n \in Nat, n < Modulus, NEW d \in Nat, d > 0
  PROVE  Normalization(n, d) \in 0 .. W - 1 /\ n < d * 2^(Normalization(n, d) + 1)
<1>. DEFINE N == W - 1
            Solves(g, k) == \A i \in k .. N : g[i] = IF More(n, d, i) THEN g[i + 1] ELSE i
            S == {k \in 0..N : \E g \in [k .. N -> 0..N] : Solves(g, k)}
<1>1. N \in Nat /\ W = N + 1 /\ Modulus = 2 * MinSigned /\ MinSigned \in Nat /\ MinSigned = 2^N
  BY Widths DEF MinSigned
<1>. HIDE DEF N
<1>2. ~More(n, d, N)
  <2>1. d * MinSigned >= MinSigned
    BY <1>1
  <2>. QED  BY <1>1, <2>1 DEF More, Negative
<1>3. N \in S
  <2>1. [i \in N .. N |-> N] \in [N .. N -> 0..N]
    BY <1>1
  <2>2. Solves([i \in N .. N |-> N], N)
    BY <1>1, <1>2
  <2>. QED  BY <1>1, <2>1, <2>2
<1>4. ASSUME NEW k \in 0 .. N - 1, k + 1 \in S PROVE k \in S
  <2>1. PICK g \in [k + 1 .. N -> 0..N] : Solves(g, k + 1)
    BY <1>4
  <2>. DEFINE v == IF More(n, d, k) THEN g[k + 1] ELSE k
              h == [i \in k .. N |-> IF i = k THEN v ELSE g[i]]
  <2>2. v \in 0..N
    BY <1>1, <2>1
  <2>. HIDE DEF v
  <2>3. h \in [k .. N -> 0..N]
    BY <1>1, <2>1, <2>2
  <2>4. ASSUME NEW i \in k .. N PROVE h[i] = IF More(n, d, i) THEN h[i + 1] ELSE i
    <3>1. CASE i = k
      BY <1>1, <3>1 DEF v
    <3>2. CASE i # k
      <4>1. i \in k + 1 .. N /\ h[i] = g[i]
        BY <1>1, <3>2
      <4>2. g[i] = IF More(n, d, i) THEN g[i + 1] ELSE i
        BY <2>1, <4>1
      <4>3. More(n, d, i) => i # N
        BY <1>2
      <4>4. More(n, d, i) => i + 1 \in k .. N /\ i + 1 # k
        BY <1>1, <4>1, <4>3
      <4>. QED  BY <4>1, <4>2, <4>4
    <3>. QED  BY <3>1, <3>2
  <2>. HIDE DEF h
  <2>. QED  BY <1>1, <2>3, <2>4
<1>5. PICK g \in [0..N -> 0..N] : Solves(g, 0)
  <2>1. 0 \in S
    <3>. HIDE DEF S
    <3>. QED  BY <1>1, <1>3, <1>4, Descent
  <2>. QED  BY <2>1
<1>6. g = [k \in 0 .. W - 1 |-> IF n > d * 2^k /\ ~Negative(d * 2^k) THEN g[k + 1] ELSE k]
  <2>1. 0 .. W - 1 = 0..N
    BY DEF N
  <2>2. \A k \in 0..N : g[k] = IF n > d * 2^k /\ ~Negative(d * 2^k) THEN g[k + 1] ELSE k
    BY <1>5 DEF More
  <2>. QED  BY <2>1, <2>2
<1>. DEFINE f == Shifts(n, d)
<1>7. f = [k \in 0 .. W - 1 |-> IF n > d * 2^k /\ ~Negative(d * 2^k) THEN f[k + 1] ELSE k]
  BY <1>6, Zenon DEF Shifts
<1>8. \A k \in 0..N : f[k] = IF More(n, d, k) THEN f[k + 1] ELSE k
  <2>1. 0 .. W - 1 = 0..N
    BY DEF N
  <2>. HIDE DEF f
  <2>. QED  BY <1>7, <2>1, Zenon DEF More
<1>. HIDE DEF f
<1>. DEFINE T == {k \in 0..N : f[k] \in 0..N /\ n < d * 2^(f[k] + 1)}
<1>9. ASSUME NEW k \in 0..N, ~More(n, d, k) PROVE k \in T
  <2>1. f[k] = k
    BY <1>8, <1>9
  <2>2. PICK p \in Nat : p = 2^k /\ p > 0 /\ 2^(k + 1) = 2 * p
    BY <1>1, Powers
  <2>3. d * p \in Nat /\ d * p > 0 /\ d * (2 * p) = 2 * (d * p)
    BY <2>2
  <2>4. n <= d * p \/ d * p >= MinSigned
    BY <1>1, <1>9, <2>2, <2>3 DEF More, Negative
  <2>5. n < d * (2 * p)
    BY <1>1, <2>3, <2>4
  <2>. QED  BY <2>1, <2>2, <2>5
<1>10. ASSUME NEW k \in 0 .. N - 1, k + 1 \in T PROVE k \in T
  <2>1. k \in 0..N
    BY <1>1
  <2>2. CASE More(n, d, k)
    <3>1. f[k] = f[k + 1]
      BY <1>8, <2>1, <2>2
    <3>. QED  BY <1>10, <2>1, <3>1
  <2>3. CASE ~More(n, d, k)
    BY <1>9, <2>1, <2>3
  <2>. QED  BY <2>2, <2>3
<1>11. 0 \in T
  <2>1. N \in T
    BY <1>1, <1>2, <1>9
  <2>. HIDE DEF T
  <2>. QED  BY <1>1, <1>10, <2>1, Descent
<1>12. Normalization(n, d) = f[0]
  BY Zenon DEF Normalization, Shifts, f
<1>. QED  BY <1>11, <1>12 DEF N

\* One turn of the main loop: the next bit of the quotient.
LEMMA OneTurn ==
  ASSUME NEW n \in Nat, NEW p \in Nat, NEW v \in Nat, v > 0, NEW q \in Nat, NEW c \in Nat,
         c < 2 * v, n = (2 * v) * q + c
  PROVE  /\ c >= v => (2 * p) * q + p = p * (n \div v) /\ c - v = n % v
         /\ ~(c >= v) => (2 * p) * q = p * (n \div v) /\ c = n % v
<1>1. CASE c >= v
  <2>1. n = v * (2 * q + 1) + (c - v) /\ 0 <= c - v /\ c - v < v
    <3>1. v * (2 * q + 1) = (2 * v) * q + v
      OBVIOUS
    <3>. QED  BY <1>1, <3>1
  <2>2. n \div v = 2 * q + 1 /\ n % v = c - v
    BY <2>1, DivMod
  <2>3. p * (2 * q + 1) = (2 * p) * q + p
    OBVIOUS
  <2>. QED  BY <1>1, <2>2, <2>3
<1>2. CASE ~(c >= v)
  <2>1. n = v * (2 * q) + c /\ c < v
    <3>1. v * (2 * q) = (2 * v) * q
      OBVIOUS
    <3>. QED  BY <1>2, <3>1
  <2>2. n \div v = 2 * q /\ n % v = c
    BY <2>1, DivMod
  <2>3. p * (2 * q) = (2 * p) * q
    OBVIOUS
  <2>. QED  BY <1>2, <2>2, <2>3
<1>. QED  BY <1>1, <1>2

Turn(d, k, so) == IF so[2] >= d * 2^k THEN <<so[1] + 2^k, so[2] - d * 2^k>> ELSE so
Turns(n, d, top) ==
  CHOOSE f : f = [k \in 0..top |->
                    LET so == IF k = top THEN <<0, n>> ELSE f[k + 1]
                    IN  IF so[2] >= d * 2^k THEN <<so[1] + 2^k, so[2] - d * 2^k>> ELSE so]

\* The main loop divides.
LEMMA MainLoopDivides ==
  ASSUME NEW n \in Nat, NEW d \in Nat, d > 0, NEW top \in 0 .. W - 1, n < d * 2^(top + 1)
  PROVE  MainLoop(n, d, top) = <<n \div d, n % d>>
<1>. DEFINE g == [k \in 0..top |-> <<2^k * (n \div (d * 2^k)), n % (d * 2^k)>>]
            Before(f, k) == IF k = top THEN <<0, n>> ELSE f[k + 1]
<1>1. W \in Nat /\ top \in Nat /\ top <= W - 1
  BY Widths
<1>2. ASSUME NEW k \in 0..top PROVE g[k] = Turn(d, k, Before(g, k))
  <2>1. PICK p \in Nat, v \in Nat : /\ p = 2^k /\ p > 0 /\ 2^(k + 1) = 2 * p /\ v = d * p /\ v > 0
                                    /\ d * 2^(k + 1) = 2 * v
    <3>1. PICK p \in Nat : p = 2^k /\ p > 0 /\ 2^(k + 1) = 2 * p
      BY <1>1, Powers
    <3>2. d * p \in Nat /\ d * p > 0 /\ d * (2 * p) = 2 * (d * p)
      BY <3>1
    <3>. QED  BY <3>1, <3>2
  <2>2. PICK q \in Nat, c \in Nat : /\ c < 2 * v /\ n = (2 * v) * q + c
                                    /\ Before(g, k) = <<(2 * p) * q, c>>
    <3>1. CASE k = top
      <4>1. /\ 0 \in Nat /\ n < 2 * v /\ n = (2 * v) * 0 + n
            /\ Before(g, k) = <<0, n>> /\ (2 * p) * 0 = 0
        BY <2>1, <3>1
      <4>. HIDE DEF Before
      <4>. QED  BY <4>1
    <3>2. CASE k # top
      <4>1. k + 1 \in 0..top
        BY <1>1, <3>2
      <4>2. Before(g, k) = <<2^(k + 1) * (n \div (d * 2^(k + 1))), n % (d * 2^(k + 1))>>
        BY <3>2, <4>1
      <4>3. Before(g, k) = <<(2 * p) * (n \div (2 * v)), n % (2 * v)>>
        BY <2>1, <4>2
      <4>4. PICK q \in Int, c \in Int : /\ q = n \div (2 * v) /\ c = n % (2 * v)
                                        /\ n = (2 * v) * q + c /\ 0 <= c /\ c < 2 * v
        <5>1. 2 * v \in Nat /\ 2 * v > 0 /\ n \in Int
          BY <2>1
        <5>. QED  BY <5>1, Euclid
      <4>5. q \in Nat
        <5>1. ASSUME q < 0 PROVE FALSE
          <6>1. (2 * v) * q <= (2 * v) * (-1)
            BY <2>1, <4>4, <5>1
          <6>. QED  BY <2>1, <4>4, <6>1
        <5>. QED  BY <5>1
      <4>. HIDE DEF Before, g
      <4>. QED  BY <4>3, <4>4, <4>5
    <3>. QED  BY <3>1, <3>2
  <2>3. Turn(d, k, Before(g, k)) = IF c >= v THEN <<(2 * p) * q + p, c - v>> ELSE <<(2 * p) * q, c>>
    <3>. HIDE DEF Before, g
    <3>. QED  BY <2>1, <2>2 DEF Turn
  <2>4. g[k] = <<p * (n \div v), n % v>>
    BY <2>1
  <2>. HIDE DEF Before, g
  <2>5. v > 0 /\ c < 2 * v /\ n = (2 * v) * q + c
    BY <2>1, <2>2
  <2>6. (IF c >= v THEN <<(2 * p) * q + p, c - v>> ELSE <<(2 * p) * q, c>>)
          = <<p * (n \div v), n % v>>
    <3>1. /\ c >= v => (2 * p) * q + p = p * (n \div v) /\ c - v = n % v
          /\ ~(c >= v) => (2 * p) * q = p * (n \div v) /\ c = n % v
      BY <2>5, OneTurn, SMT
    <3>. QED  BY <3>1, Zenon
  <2>. QED  BY <2>3, <2>4, <2>6, Zenon
<1>. DEFINE f == Turns(n, d, top)
<1>3. f = [k \in 0..top |->
             LET so == IF k = top THEN <<0, n>> ELSE f[k + 1]
             IN  IF so[2] >= d * 2^k THEN <<so[1] + 2^k, so[2] - d * 2^k>> ELSE so]
  <2>. DEFINE h(x) == [k \in 0..top |->
                         LET so == IF k = top THEN <<0, n>> ELSE x[k + 1]
                         IN  IF so[2] >= d * 2^k THEN <<so[1] + 2^k, so[2] - d * 2^k>> ELSE so]
  <2>1. g = h(g)
    <3>1. \A k \in 0..top : g[k] = h(g)[k]
      <4>. HIDE DEF g
      <4>. QED  BY <1>2, Zenon DEF Turn
    <3>2. g = [k \in 0..top |-> g[k]]
      OBVIOUS
    <3>. HIDE DEF g
    <3>. QED  BY <3>1, <3>2, Zenon
  <2>. HIDE DEF g
  <2>. QED  BY <2>1, Zenon DEF Turns
<1>4. \A k \in 0..top : f[k] = Turn(d, k, Before(f, k))
  <2>. HIDE DEF f
  <2>. QED  BY <1>3, Zenon DEF Turn
<1>. HIDE DEF f
<1>. DEFINE T == {k \in 0..top : f[k] = g[k]}
<1>5. 0 \in T
  <2>1. top \in T
    <3>1. top \in 0..top /\ Before(f, top) = Before(g, top)
      BY <1>1
    <3>. HIDE DEF Before, g
    <3>. QED  BY <1>2, <1>4, <3>1
  <2>2. ASSUME NEW k \in 0 .. top - 1, k + 1 \in T PROVE k \in T
    <3>1. k \in 0..top /\ k # top /\ f[k + 1] = g[k + 1]
      BY <1>1, <2>2
    <3>. HIDE DEF g
    <3>2. Before(f, k) = Before(g, k)
      BY <3>1
    <3>. HIDE DEF Before
    <3>. QED  BY <1>2, <1>4, <3>1, <3>2
  <2>. HIDE DEF T
  <2>. QED  BY <1>1, <2>1, <2>2, Descent
<1>6. g[0] = <<n \div d, n % d>>
  <2>1. 0 \in 0..top /\ 2^0 = 1 /\ d * 1 = d
    BY <1>1, Powers
  <2>2. n \div d \in Int /\ \A x \in Int : 1 * x = x
    BY Euclid
  <2>. QED  BY <2>1, <2>2
<1>7. MainLoop(n, d, top) = f[0]
  BY Zenon DEF MainLoop, Turns, f
<1>. QED  BY <1>5, <1>6, <1>7

\* The prototype answers what the divider answers.
LEMMA StepDivAnswer ==
  ASSUME NEW f \in DivOp, NEW a \in Value, NEW b \in Value, ~(DivSpecial(f, a, b) /\ b # 0)
  PROVE  DivAnswer(f, a, b) = StepDiv(f \in {"DIV", "REM"}, a, b)
                                [IF f \in {"DIV", "DIVU"} THEN 1 ELSE 2]
<1>1. f \in {"DIV", "DIVU", "REM", "REMU"}
  BY DEF DivOp
<1>. DEFINE signed == f \in {"DIV", "REM"}
            i == IF f \in {"DIV", "DIVU"} THEN 1 ELSE 2
<1>2. CASE b = 0
  <2>1. StepDiv(signed, a, b) = <<Ones, a>>
    BY <1>2 DEF StepDiv
  <2>2. DivAnswer(f, a, b) = IF f \in {"DIV", "DIVU"} THEN Ones ELSE a
    BY <1>1, <1>2 DEF DivAnswer, DivSpecial
  <2>. QED  BY <2>1, <2>2
<1>3. CASE b # 0
  <2>. DEFINE n == DivArg(f, a)
              d == DivArg(f, b)
              sign == f = "DIV" /\ Sign(a, b)
  <2>1. n \in Nat /\ n < Modulus /\ d \in Nat /\ d > 0
    BY <1>3, DivOperand
  <2>2. DivAnswer(f, a, b) = <<IF sign THEN Neg(n \div d) ELSE n \div d, n % d>>[i]
    BY <1>1, <1>3 DEF DivAnswer
  <2>3. MainLoop(n, d, Normalization(n, d)) = <<n \div d, n % d>>
    <3>. HIDE DEF n, d
    <3>. QED  BY <2>1, NormalizationStops, MainLoopDivides
  <2>4. GetMagnitude(signed, a) = n /\ GetMagnitude(signed, b) = d
    BY <1>1 DEF GetMagnitude, DivArg
  <2>5. CASE signed /\ b = Ones /\ a = MinSigned
    <3>1. n = MinSigned /\ d = 1 /\ ~Sign(a, b)
      <4>1. Negative(a) /\ Negative(b) /\ Modulus - MinSigned = MinSigned /\ Modulus - Ones = 1
        BY <2>5, Widths, Large DEF Negative, Ones
      <4>2. MinSigned % Modulus = MinSigned /\ 1 % Modulus = 1
        <5>1. /\ MinSigned = Modulus * 0 + MinSigned /\ 1 = Modulus * 0 + 1
              /\ Modulus \in Nat /\ Modulus > 0 /\ MinSigned \in Nat /\ MinSigned < Modulus /\ 1 < Modulus
          BY Widths, Large
        <5>. QED  BY <5>1, DivMod
      <4>3. Magnitude(a) = MinSigned /\ Magnitude(b) = 1
        BY <2>5, <4>1, <4>2 DEF Magnitude, Neg
      <4>. QED  BY <2>5, <4>1, <4>3 DEF DivArg, Sign
    <3>2. n \div d = MinSigned /\ n % d = 0
      BY <3>1, Widths
    <3>3. StepDiv(signed, a, b) = <<MinSigned, 0>>
      BY <1>3, <2>5 DEF StepDiv
    <3>. QED  BY <2>2, <3>1, <3>2, <3>3
  <2>6. CASE ~(signed /\ b = Ones /\ a = MinSigned)
    <3>1. sign => BelowZero(signed, a) # BelowZero(signed, b)
      BY DEF BelowZero, Sign, Negative
    <3>2. f \in {"DIV", "DIVU"} /\ BelowZero(signed, a) # BelowZero(signed, b) => sign
      BY <1>1 DEF BelowZero, Sign, Negative
    <3>3. StepDiv(signed, a, b) =
            <<IF BelowZero(signed, a) # BelowZero(signed, b) THEN Neg(n \div d) ELSE n \div d, n % d>>
      <4>. HIDE DEF n, d, signed
      <4>. QED  BY <1>3, <2>3, <2>4, <2>6 DEF StepDiv
    <3>. HIDE DEF n, d
    <3>. QED  BY <1>1, <2>2, <3>1, <3>2, <3>3
  <2>. QED  BY <2>5, <2>6
<1>. QED  BY <1>2, <1>3

\* The divider of alu.v implements the prototype of models/insns/div.h: its
\* quotients, and its remainders of dividends that are not negative, are those
\* of the other loop, for words of every width, whatever was interrupted before.
THEOREM PrototypeImplemented == Spec => []ImplementsPrototype
<1>1. PathInv /\ ResultInv => ImplementsPrototype
  <2>. SUFFICES ASSUME PathInv, ResultInv, state = "UPDATE_PC", op \in DivOp,
                       ~(op = "REM" /\ Negative(s1)), ~(DivSpecial(op, s1, s2) /\ s2 # 0)
                PROVE  result = StepDiv(op \in {"DIV", "REM"}, s1, s2)
                                  [IF op \in {"DIV", "DIVU"} THEN 1 ELSE 2]
    BY Zenon DEF ImplementsPrototype
  <2>1. ~busy /\ s1 \in Value /\ s2 \in Value
    BY DEF PathInv, NothingLeft, Counters
  <2>2. result = DivAnswer(op, s1, s2)
    BY <2>1 DEF ResultInv, Answered, Answer
  <2>. QED  BY <2>1, <2>2, StepDivAnswer, Zenon
<1>. QED  BY <1>1, PathHolds, ResultHolds, PTL

=============================================================================
