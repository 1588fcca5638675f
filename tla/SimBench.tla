------------------------------ MODULE SimBench ------------------------------
(***************************************************************************)
(* The simulation bench around the SoC: RiscVSoc.tick, checkFWD and run of *)
(* bench/rtl/dut_wrapper/soc.py, which decide from the CPU's state and     *)
(* program counter alone when a test has ended and when the hart is dead.  *)
(* The SoC is that of Soc in the simulation build, with the CPU as the     *)
(* only master; the control pins are not driven in simulation.             *)
(***************************************************************************)
EXTENDS Core, Soc

CONSTANTS
  AluTicks,       \* ticks alu.v is busy, at most: W + 1, see AluPath
  BraindeadAfter, \* _braindead_threshold
  StallAfter,     \* _stall_threshold
  MaxPrinted      \* bound on the bytes the program prints

ASSUME BenchAssumption ==
  /\ AluTicks \in Nat /\ BraindeadAfter \in Nat /\ StallAfter \in Nat
  /\ MaxPrinted \in Nat

VARIABLES
  fwdState, fwdCntr,  \* _fwd_state, _fwd_cntr
  thePc, stallCnt,    \* _the_pc, _stall_cnt
  verdict,            \* how run ended
  aluLeft,            \* ticks the ALU is still going to be busy
  fetches             \* fetches at thePc in a row, counted up to 2

benchVars == <<fwdState, fwdCntr, thePc, stallCnt, verdict, aluLeft, fetches>>

\* The SoC's inputs: the host's master is idle.
BenchPins(timer, host) ==
  [cpuRst |-> host.rst, rst |-> FALSE, external |-> FALSE, timer |-> timer,
   halt |-> host.halt, single |-> host.single, step |-> host.step,
   addr |-> {}, data |-> {}, size |-> {}, write |-> FALSE, start |-> FALSE,
   clear |-> FALSE]

BenchClock == \E timer \in TimerLevels, host \in HostPins :
                SocTick(BenchPins(timer, host))

-----------------------------------------------------------------------------
\* cpu_valid_pc, of a program that runs from RAM.
ValidPc == state = "FETCH" /\ cyc /\ ack

\* Mutation: the counter is not reset when the next instruction is fetched.
FwdMoved_ToExec == state = "EXEC" /\ fwdState = "FETCH"

FwdMoved == \/ state = "FETCH" /\ fwdState = "EXEC"
            \/ state = "EXEC" /\ fwdState = "FETCH"

CheckFWD ==
  /\ fwdCntr' = IF FwdMoved THEN 0 ELSE fwdCntr + 1
  /\ fwdState' = IF FwdMoved \/ state = "FETCH" THEN state ELSE fwdState

\* An operation of the ALU takes no time or as long as any.
AluLength ==
  /\ aluLeft' \in IF state = "EXEC" /\ insn.slow THEN {0, AluTicks}
                  ELSE {IF aluLeft = 0 THEN 0 ELSE aluLeft - 1}
  /\ aluBusy' = (aluLeft' > 0)

\* Mutation: a new program counter does not restart the count.
Stall_NoReset ==
  /\ stallCnt' = stallCnt + 1
  /\ thePc' = IF ValidPc' THEN pc' ELSE thePc

Stall ==
  IF ValidPc' /\ pc' # thePc
  THEN stallCnt' = 1 /\ thePc' = pc'
  ELSE stallCnt' = stallCnt + 1 /\ thePc' = thePc

CountFetches ==
  fetches' = IF ~ValidPc' THEN fetches
             ELSE IF pc' # thePc THEN 1 ELSE 2

Running == verdict = "running"
RunGoesOn == Running /\ stallCnt < StallAfter /\ ~testFinished

\* RiscVSoc.tick, in the loop of run.  checkFWD looks at the CPU before the
\* clock edge and raises RuntimeError.
BenchTick ==
  /\ RunGoesOn /\ Len(uartLog) <= MaxPrinted
  /\ CheckFWD
  /\ IF fwdCntr' > BraindeadAfter
     THEN verdict' = "braindead" /\ UNCHANGED <<socVars, thePc, stallCnt, aluLeft, fetches>>
     ELSE /\ BenchClock /\ AluLength
          /\ Stall /\ CountFetches
          /\ UNCHANGED verdict

\* The loop of run has ended: the test's exit code is read.
RunReturns ==
  /\ Running /\ ~RunGoesOn
  /\ verdict' = IF testFinished THEN "finished" ELSE "stalled"
  /\ UNCHANGED <<socVars, fwdState, fwdCntr, thePc, stallCnt, aluLeft, fetches>>

\* The caller's limit or breakpoint, which may be met after any tick.
RunRaises ==
  /\ Running /\ stallCnt > 0
  /\ verdict' = "raised"
  /\ UNCHANGED <<socVars, fwdState, fwdCntr, thePc, stallCnt, aluLeft, fetches>>

BenchInit ==
  /\ Init
  /\ ExtInit /\ UartInit({TRUE}) /\ muxAck = FALSE
  /\ fwdState = "NONE" /\ fwdCntr = 0 /\ thePc = {31} /\ stallCnt = 0
  /\ verdict = "running" /\ aluLeft = 0 /\ fetches = 0

BenchNext == BenchTick \/ RunReturns \/ RunRaises

BenchSpec == BenchInit /\ [][BenchNext]_<<socVars, benchVars>>

-----------------------------------------------------------------------------
\* The CPU waits for a register of the UART that never answers: SANITY, or
\* DATA when it is read.
NeverAnswered ==
  LET i == SlaveWires(CpuWires, "UART")
  IN  RegAccess(i, "SANITY") \/ (RegAccess(i, "DATA") /\ ~i.we)

\* checkFWD gives up none but a dead hart: traps, interrupts, unaligned
\* fetches, the longest ALU operations and bytes sent through the UART all
\* fit the threshold, and what does not is a program that waits for ever for
\* an answer of the UART.
BraindeadMeansDead == verdict = "braindead" => NeverAnswered

\* A stall that ends a test means what run prints, no forward progress: the
\* hart has fetched the same address again, it is not merely slow.
StallMeansSpinning == verdict = "stalled" => fetches = 2

=============================================================================
