------------------------------- MODULE AluPath -------------------------------
(***************************************************************************)
(* The ALU in the hands of cpu.v: instructions on two registers, executed  *)
(* one after the other, with the operands held from EXEC to UPDATE_PC, the *)
(* host's halt pin, and resets in the middle of an operation.              *)
(***************************************************************************)
EXTENDS Alu, DivModel

CONSTANTS
  Ops,        \* operations the program uses
  Pcs,        \* values of pc
  Leftovers,  \* values of the registers of alu.v at power-up
  MaxResets   \* bound on the number of resets

ASSUME PathAssumption ==
  /\ Ops \subseteq AluOp /\ Pcs \subseteq Value
  /\ Leftovers \subseteq Value /\ MaxResets \in Nat

VARIABLES
  state,      \* the states of cpu.v that matter here
  op, s1, s2, \* dec_alu_oper, alu_dataS1, alu_dataS2
  waited,     \* ticks in POST_EXEC that are not due to the host
  resets

pathVars == <<state, op, s1, s2, waited, resets>>
vars == <<aluVars, pathVars>>

-----------------------------------------------------------------------------
\* PRE_FETCH to DECODE: the ALU computes the address of the next
\* instruction.  The instruction fetched works on the same two registers.
Fetch ==
  /\ state = "FETCH"
  /\ \E pc \in Pcs : AluTick(TRUE, "ADD", pc, 4 % Modulus)
  /\ op' \in Ops
  /\ state' = "EXEC" /\ waited' = 0
  /\ UNCHANGED <<s1, s2, resets>>

\* A halted CPU stays in EXEC with the ALU enabled, which then starts over.
Exec(halt) ==
  /\ state = "EXEC"
  /\ AluTick(TRUE, op, s1, s2)
  /\ state' = IF busy \/ halt THEN "EXEC" ELSE "POST_EXEC"
  /\ UNCHANGED <<op, s1, s2, waited, resets>>

PostExec(halt) ==
  /\ state = "POST_EXEC"
  /\ AluTick(FALSE, op, s1, s2)
  /\ state' = IF busy \/ halt THEN "POST_EXEC" ELSE "UPDATE_PC"
  /\ waited' = IF busy \/ ~halt THEN waited + 1 ELSE waited
  /\ UNCHANGED <<op, s1, s2, resets>>

\* The operation is ALUOP_ADD outside EXEC and POST_EXEC, and not enabled.
UpdatePc(halt) ==
  /\ state = "UPDATE_PC"
  /\ AluTick(FALSE, "ADD", s1, s2)
  /\ state' = IF halt THEN "UPDATE_PC" ELSE "FETCH"
  /\ UNCHANGED <<op, s1, s2, waited, resets>>

Reset ==
  /\ resets < MaxResets
  /\ AluReset
  /\ state' = "FETCH" /\ waited' = 0 /\ resets' = resets + 1
  /\ UNCHANGED <<op, s1, s2>>

Init ==
  /\ busy = FALSE /\ bitMul = 0 /\ bitDiv = 0
  /\ \E x \in Leftovers :
       /\ result = x /\ shiftcnt = x % W /\ product = x /\ mulcand = x
       /\ dividendCopy = x /\ dividerCopy = x
  /\ flags = [lt |-> FALSE, ltu |-> FALSE, eq |-> FALSE]
  /\ state = "FETCH" /\ op = "ADD" /\ waited = 0 /\ resets = 0
  /\ s1 \in Value /\ s2 \in Value

Clock == Fetch \/ \E halt \in BOOLEAN : Exec(halt) \/ PostExec(halt) \/ UpdatePc(halt)

Next == Clock \/ Reset

Spec == Init /\ [][Next]_vars

-----------------------------------------------------------------------------
(* Reference results: the arithmetic of the integers the operands encode.  *)

Reference(f, a, b) ==
  CASE f = "ADD" -> (Integer(a) + Integer(b)) % Modulus
    [] f = "SUB" -> (Integer(a) - Integer(b)) % Modulus
    [] f \in {"AND", "OR", "XOR"} -> Simple(f, a, b)
    [] f = "SLT" -> IF Integer(a) < Integer(b) THEN 1 ELSE 0
    [] f = "SLTU" -> IF a < b THEN 1 ELSE 0
    [] f = "SLL" -> (a * 2^(b % W)) % Modulus
    [] f = "SRL" -> a \div 2^(b % W)
    [] f = "SRA" -> (Integer(a) \div 2^(b % W)) % Modulus
    [] f = "MUL" -> (Integer(a) * Integer(b)) % Modulus
    [] f = "MULH" -> ((Integer(a) * Integer(b)) \div Modulus) % Modulus
    [] f = "MULHSU" -> ((Integer(a) * b) \div Modulus) % Modulus
    [] f = "MULHU" -> (a * b) \div Modulus
    [] f = "DIV" -> IF b = 0 THEN Ones ELSE Quot(Integer(a), Integer(b)) % Modulus
    [] f = "DIVU" -> IF b = 0 THEN Ones ELSE a \div b
    [] f = "REM" -> IF b = 0 THEN a
                    ELSE (Integer(a) - Integer(b) * Quot(Integer(a), Integer(b))) % Modulus
    [] f = "REMU" -> IF b = 0 THEN a ELSE a % b

-----------------------------------------------------------------------------
\* The registers of alu.v keep their widths.
TypeOK ==
  /\ AluTypeOK
  /\ state \in {"FETCH", "EXEC", "POST_EXEC", "UPDATE_PC"}
  /\ op \in AluOp /\ s1 \in Value /\ s2 \in Value
  /\ waited \in Nat /\ resets \in 0..MaxResets

\* What UPDATE_PC writes back is the result of the instruction, whatever
\* operation was done or broken off by a reset before it and wherever the
\* host halted it.  REM of a negative dividend is excluded: the multi-cycle
\* divider leaves out the dividend's sign (alu.v:275), which the single-cycle
\* one of alu.v:121 and tests/compliance/rv32im/src/REM.S give the remainder.
ResultCorrect ==
  state = "UPDATE_PC" /\ ~(op = "REM" /\ Negative(s1))
    => result = Reference(op, s1, s2)

\* The divider is the one that was prototyped: whatever was interrupted
\* before, its results are those stepdiv of models/insns/div.h computes by
\* another loop.  Not said of REM of a negative dividend, where the sign is
\* missing as in ResultCorrect, nor of the remainders alu.v answers at once,
\* which have no counterpart in stepdiv.
ImplementsPrototype ==
  state = "UPDATE_PC" /\ op \in DivOp
    /\ ~(op = "REM" /\ Negative(s1)) /\ ~(DivSpecial(op, s1, s2) /\ s2 # 0) =>
    result = StepDiv(op \in {"DIV", "REM"}, s1, s2)
               [IF op \in {"DIV", "DIVU"} THEN 1 ELSE 2]

\* A branch is decided by the flags of EXEC: they compare the operands as
\* signed and unsigned numbers.
FlagsCorrect ==
  state = "POST_EXEC" => flags = [lt |-> Integer(s1) < Integer(s2), ltu |-> s1 < s2,
                                  eq |-> s1 = s2]

\* The longest operation keeps the CPU in POST_EXEC for W + 2 ticks: 34 of
\* the 50 after which soc.py gives the simulation up.
AnswersInTime == waited <= W + 2

=============================================================================
