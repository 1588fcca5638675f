-------------------------------- MODULE Alu --------------------------------
(***************************************************************************)
(* rtl/cpu/alu.v as it is built: HW_DIVISION, with the multi-cycle shifter,*)
(* multiplier and divider.  The inputs of a tick are the enable, the       *)
(* operation and the two operands, which cpu.v holds while the ALU is      *)
(* busy.                                                                   *)
(***************************************************************************)
EXTENDS Arith, FiniteSetsExt

VARIABLES
  result, busy, flags,
  shiftcnt,
  product, mulcand, bitMul,
  dividendCopy, dividerCopy, bitDiv

shiftVars == <<shiftcnt>>
mulVars == <<product, mulcand, bitMul>>
divVars == <<dividendCopy, dividerCopy, bitDiv>>
aluVars == <<result, busy, flags, shiftVars, mulVars, divVars>>

SimpleOp == {"ADD", "SUB", "AND", "OR", "XOR", "SLT", "SLTU"}
ShiftOp == {"SLL", "SRL", "SRA"}
MulOp == {"MUL", "MULH", "MULHSU", "MULHU"}
DivOp == {"DIV", "DIVU", "REM", "REMU"}
AluOp == SimpleOp \cup ShiftOp \cup MulOp \cup DivOp

\* Registers of twice the width.
WideModulus == Modulus * Modulus

\* The 1 bits of a value, and back.
BitsOf(x) == {i \in 0 .. W - 1 : (x \div 2^i) % 2 = 1}
ValueOf(bits) == MapThenSumSet(LAMBDA i : 2^i, bits)

-----------------------------------------------------------------------------
(* Combinational results. *)

\* sub[32]: the borrow of the subtraction.
Ltu(a, b) == a - b < 0
\* Mutation: the signs of the operands are left out.
Lt_Borrow(a, b) == Ltu(a, b)

Lt(a, b) == Ltu(a, b) # Sign(a, b)

Flags(a, b) == [lt |-> Lt(a, b), ltu |-> Ltu(a, b), eq |-> a = b]

Simple(op, a, b) ==
  CASE op = "ADD" -> (a + b) % Modulus
    [] op = "SUB" -> (a - b) % Modulus
    [] op = "AND" -> ValueOf(BitsOf(a) \cap BitsOf(b))
    [] op = "OR" -> ValueOf(BitsOf(a) \cup BitsOf(b))
    [] op = "XOR" -> ValueOf((BitsOf(a) \cup BitsOf(b)) \ (BitsOf(a) \cap BitsOf(b)))
    [] op = "SLT" -> IF Lt(a, b) THEN 1 ELSE 0
    [] op = "SLTU" -> IF Ltu(a, b) THEN 1 ELSE 0

-----------------------------------------------------------------------------
(* Multi-cycle operations: the load of the first tick, one step per bit,   *)
(* and a last tick that clears busy.                                       *)

ShiftedOne(op, x) ==
  CASE op = "SLL" -> (2 * x) % Modulus
    [] op = "SRL" -> x \div 2
    [] op = "SRA" -> x \div 2 + IF Negative(x) THEN MinSigned ELSE 0

Shift(op, a, b) ==
  /\ op \in ShiftOp
  /\ \/ ~busy /\ busy' = TRUE /\ result' = a /\ shiftcnt' = b % W
     \/ /\ busy /\ shiftcnt # 0
        /\ result' = ShiftedOne(op, result) /\ shiftcnt' = shiftcnt - 1
        /\ UNCHANGED busy
     \/ busy /\ shiftcnt = 0 /\ busy' = FALSE /\ UNCHANGED <<result, shiftcnt>>
  /\ UNCHANGED <<mulVars, divVars>>

MulLoad(op, a, b) ==
  /\ ~busy /\ busy' = TRUE /\ bitMul' = W
  /\ product' = IF op = "MULHU" THEN a ELSE Magnitude(a)
  /\ mulcand' = IF op \in {"MUL", "MULH"} THEN Magnitude(b) ELSE b
  /\ UNCHANGED result

MulStep ==
  /\ busy /\ bitMul # 0
  /\ product' = product \div 2
                  + IF product % 2 = 1 THEN mulcand * MinSigned ELSE 0
  /\ bitMul' = bitMul - 1
  /\ UNCHANGED <<busy, result, mulcand>>

\* The product, of twice the width, with the sign it gets.
SignedProduct(op, a, b) ==
  LET negate == \/ op \in {"MUL", "MULH"} /\ Sign(a, b)
                \/ op = "MULHSU" /\ Negative(a)
  IN  IF negate THEN (WideModulus - product) % WideModulus ELSE product

\* Mutation: busy is not cleared.
MulEnd_Busy(op, a, b) ==
  /\ busy /\ bitMul = 0
  /\ result' = IF op = "MUL" THEN SignedProduct(op, a, b) % Modulus
               ELSE SignedProduct(op, a, b) \div Modulus
  /\ UNCHANGED <<busy, mulVars>>

MulEnd(op, a, b) ==
  /\ busy /\ bitMul = 0
  /\ result' = IF op = "MUL" THEN SignedProduct(op, a, b) % Modulus
               ELSE SignedProduct(op, a, b) \div Modulus
  /\ busy' = FALSE
  /\ UNCHANGED mulVars

Multiply(op, a, b) ==
  /\ op \in MulOp
  /\ MulLoad(op, a, b) \/ MulStep \/ MulEnd(op, a, b)
  /\ UNCHANGED <<shiftVars, divVars>>

\* Mutation: no case of its own for a divisor of zero.
DivSpecial_NoZero(op, a, b) ==
  /\ op = "REM"
  /\ \/ a = Ones /\ b \in {MinSigned, MaxSigned}
     \/ a = MinSigned /\ b = MaxSigned

\* Operands answered in one tick.
DivSpecial(op, a, b) ==
  \/ b = 0
  \/ /\ op = "REM"
     /\ \/ a = Ones /\ b \in {MinSigned, MaxSigned}
        \/ a = MinSigned /\ b = MaxSigned

DivAtOnce(op, a, b) ==
  /\ ~busy /\ DivSpecial(op, a, b)
  /\ result' = IF b = 0 /\ op \in {"REM", "REMU"} THEN a ELSE Ones
  /\ UNCHANGED <<busy, divVars>>

DivLoad(op, a, b) ==
  LET operand(x) == IF op \in {"DIVU", "REMU"} THEN x ELSE Magnitude(x)
  IN  /\ ~busy /\ ~DivSpecial(op, a, b)
      /\ busy' = TRUE /\ result' = 0 /\ bitDiv' = W
      /\ dividendCopy' = operand(a)
      /\ dividerCopy' = operand(b) * MinSigned

\* diff[63] is clear: the divider fits.
Fits == (dividendCopy - dividerCopy) % WideModulus < WideModulus \div 2

DivStep ==
  /\ busy /\ bitDiv # 0
  /\ dividendCopy' = IF Fits THEN dividendCopy - dividerCopy ELSE dividendCopy
  /\ result' = (2 * result + IF Fits THEN 1 ELSE 0) % Modulus
  /\ dividerCopy' = dividerCopy \div 2
  /\ bitDiv' = bitDiv - 1
  /\ UNCHANGED busy

DivEnd(op, a, b) ==
  /\ busy /\ bitDiv = 0
  /\ result' = CASE op = "DIV" -> IF Sign(a, b) THEN Neg(result) ELSE result
                 [] op = "DIVU" -> result
                 [] OTHER -> dividendCopy % Modulus
  /\ busy' = FALSE
  /\ UNCHANGED divVars

Divide(op, a, b) ==
  /\ op \in DivOp
  /\ DivAtOnce(op, a, b) \/ DivLoad(op, a, b) \/ DivStep \/ DivEnd(op, a, b)
  /\ UNCHANGED <<shiftVars, mulVars>>

Immediate(op, a, b) ==
  /\ op \in SimpleOp
  /\ result' = Simple(op, a, b)
  /\ UNCHANGED <<busy, shiftVars, mulVars, divVars>>

-----------------------------------------------------------------------------
AluTick(en, op, a, b) ==
  IF en \/ busy
  THEN /\ Immediate(op, a, b) \/ Shift(op, a, b) \/ Multiply(op, a, b) \/ Divide(op, a, b)
       /\ flags' = Flags(a, b)
  ELSE UNCHANGED aluVars

AluReset == busy' = FALSE /\ UNCHANGED <<result, flags, shiftVars, mulVars, divVars>>

AluTypeOK ==
  /\ result \in Value /\ busy \in BOOLEAN
  /\ flags \in [lt : BOOLEAN, ltu : BOOLEAN, eq : BOOLEAN]
  /\ shiftcnt \in 0 .. W - 1
  /\ product \in 0 .. WideModulus - 1 /\ mulcand \in Value /\ bitMul \in 0..W
  /\ dividendCopy \in 0 .. WideModulus - 1 /\ dividerCopy \in 0 .. WideModulus - 1
  /\ bitDiv \in 0..W

=============================================================================
