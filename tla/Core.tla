-------------------------------- MODULE Core --------------------------------
(***************************************************************************)
(* CPU and tagged RAM wired together as in rtl/soc.v, clock edge by clock  *)
(* edge.  The timer interrupt line and the host's control pins are inputs  *)
(* that may change at every tick; the program is whatever instruction the  *)
(* fetched words hold.                                                     *)
(***************************************************************************)
EXTENDS Cpu, BusRam

CONSTANTS
  TimerLevels,  \* levels of timer_irq that occur, a subset of BOOLEAN
  HostPins      \* what the host drives: records halt, single, step, rst

ASSUME CoreAssumption ==
  /\ TimerLevels \subseteq BOOLEAN
  /\ HostPins \subseteq [halt : BOOLEAN, single : BOOLEAN, step : BOOLEAN,
                         rst : BOOLEAN]

vars == <<coreVars, csrVars, busVars, ramVars>>

\* clear_mismatch_i is the CPU's clear_tag_mismatch_o.
RamPins == RamInputs(check, tagsIrqClear)

\* timer_mtimecmp_accessed of wb_timer.v for a CPU that accesses RAM: it
\* decodes the register number from the address alone.
TimerCmpAccessed == adr \cap (2..4) = {2, 3}

CpuPins(timer, host) ==
  [timer |-> timer, tags |-> irq, clearMip |-> TimerCmpAccessed,
   ack |-> ack, dat |-> RamDataOut(RamPins),
   halt |-> host.halt, single |-> host.single, step |-> host.step,
   rst |-> host.rst]

Tick == \E timer \in TimerLevels, host \in HostPins :
          CpuTick(CpuPins(timer, host)) /\ RamTick(RamPins)

Init ==
  /\ CpuInit
  /\ mem = [w \in WordIndex |-> {}]
  /\ tagMem = [g \in Granule |-> {}]
  /\ ramData = {} /\ tagData = {}
  /\ ramState = "IDLE"
  /\ ack = FALSE /\ irq = FALSE /\ ramWe = FALSE /\ tagWe = FALSE
  /\ tagMismatch = FALSE

Spec == Init /\ [][Tick]_vars

\* The clock never stops, and alu.v ends every multi-cycle operation after a
\* bounded number of ticks.
FairSpec == Spec /\ WF_vars(Tick /\ ~aluBusy')

-----------------------------------------------------------------------------
\* Every register holds a value of its width, and the main machine is never
\* in STATE_DEAD.
TypeOK == CpuTypeOK /\ RamTypeOK

\* csr.v keeps the enable bits twice, in the CSR memory and in registers of
\* their own with other write conditions.  Wherever cpu.v decides by the
\* registers, they agree with what software reads back, although traps, mret
\* and csr instructions share the port.
ShadowsCoherent ==
  state \in {"PRE_FETCH", "DECODE", "LOAD1", "STORE1"} =>
    /\ irqEn = (MIE \in csrFile["MSTATUS"])
    /\ irqTimerEn = (MTI \in csrFile["MIE"])
    /\ tagsEn = (LSEN \in csrFile["MTAGS"])
    /\ tagsIfEn = (ICEN \in csrFile["MTAGS"])
    /\ tagsSkipSp = (SKIP_SP \in csrFile["MTAGS"])

\* A reset of the CPU clears the registers and not the CSR memory: what
\* stays true is that no check or interrupt is on that software did not turn
\* on.
ShadowsSound ==
  state \in {"PRE_FETCH", "DECODE", "LOAD1", "STORE1"} =>
    /\ irqEn => MIE \in csrFile["MSTATUS"]
    /\ irqTimerEn => MTI \in csrFile["MIE"]
    /\ tagsEn => LSEN \in csrFile["MTAGS"]
    /\ tagsIfEn => ICEN \in csrFile["MTAGS"]
    /\ tagsSkipSp = (SKIP_SP \in csrFile["MTAGS"])

TagMatches(addr) == TagOf(addr) = tagMem[GranuleOf(addr)]

\* With fetch checking and interrupts on, an instruction whose granule (or,
\* for a 32-bit instruction at pc[1], the granule of its second half) does
\* not carry the tag of pc never reaches EXEC: the RAM raises its interrupt
\* no later than the tick of DECODE in which cpu.v looks at it.
NoMistaggedExec ==
  state = "EXEC" /\ irqEn /\ tagsIfEn =>
    /\ TagMatches(pc)
    /\ insn.long /\ 1 \in pc => TagMatches(AddBit(pc, 1, PcTop))

\* With interrupts on, a mistagged access stops the program before the next
\* instruction has any effect: none is executed while a mismatch is pending
\* or still on its way through wb_ram.v.
NoPendingAtExec == state = "EXEC" /\ irqEn => ~irq /\ ~tagMismatch

\* tags_irq_clear has priority over a new mismatch in wb_ram.v; it never
\* meets one, because the CPU writes CSRs only between memory accesses.
ClearWhenQuiet == tagsIrqClear => ~busy /\ ramState = "IDLE" /\ ~tagMismatch

SequencerDone == trapState = "IDLE" /\ mretState = "IDLE" /\ ~csrBusy

\* What mcause says of the trap: the instruction that asked for it, or the
\* interrupt that came before the instruction was executed.  A violation has
\* the cause 0x8000_0010, whether a load, a store or a fetch was mistagged.
CauseRecorded ==
  IF execDone
  THEN csrFile["MCAUSE"] = CASE insn.sys = "ECALL" -> CAUSE_ECALL
                             [] insn.sys = "EBREAK" -> CAUSE_BREAK
                             [] OTHER -> CAUSE_INVALID_INSTRUCTION
  ELSE \/ irqTimerEn /\ csrFile["MCAUSE"] = CAUSE_TIMER_INTERRUPT
       \/ irq /\ csrFile["MCAUSE"] = CAUSE_TAG_MISMATCH

\* When cpu.v leaves the TRAP state, the sequencer has saved the pc of the
\* instruction that did not execute, disabled interrupts, stacked the enable
\* bit (an interrupt is only taken with MIE set), and the CSR port presents
\* the handler's address.  mcause is right although the main machine writes it
\* while the sequencer starts on the same port, and although the interrupt
\* lines may change before the sequencer ends.
PreciseTrap ==
  state = "TRAP" /\ SequencerDone =>
    /\ csrFile["MEPC"] = pc
    /\ CauseRecorded
    /\ csrData = csrFile["MTVEC"]
    /\ ~irqEn
    /\ 31 \in csrFile["MCAUSE"] => MPIE \in csrFile["MSTATUS"]

\* When cpu.v leaves the MRET state, the CSR port presents mepc and the
\* enable bit is the one the trap stacked.
MretResumes ==
  state = "MRET" /\ SequencerDone =>
    /\ csrData = csrFile["MEPC"]
    /\ irqEn = (MPIE \in csrFile["MSTATUS"])

\* A trapped instruction leaves the register file alone, although the
\* write-back of UPDATE_PC is shared with the instructions that complete.
TrapWritesNoRegister == state = "UPDATE_PC" /\ nextFromCsr => ~RegWe

\* A branch whose condition holds continues at its target, one whose
\* condition fails at the next instruction: the flags of EXEC survive until
\* BRANCH2 and the decision of BRANCH2 until UPDATE_PC.
BranchDecides ==
  [][state = "UPDATE_PC" /\ state' # "UPDATE_PC" /\ state' # "RESET"
     /\ insn.stage = "BRANCH" /\ ~nextFromCsr
       => pc' = (IF insn.taken THEN insn.alu ELSE pcnext) \ {0}]_vars

\* Whenever the trap sequencer has saved a context, the CPU goes on to the
\* handler: it is in TRAP when the sequencer ends.
TrapEntersHandler ==
  [][trapState = "LOAD_TVEC" /\ trapState' = "IDLE" => state' = "TRAP"]_vars

\* The current instruction writes a 1 to tags.IACK.
WritesIack == /\ insn.stage = "SYSTEM" /\ insn.csr = "MTAGS"
              /\ insn.sys # "CSRRC" /\ IACK \in insn.operand

\* A pending violation goes away only by an instruction that writes 1 to
\* tags.IACK: no word that the sequencers move through the CSR port, no write
\* of another register and no other access to tags acknowledges it.
OnlyTagsAcknowledge == [][irq /\ ~irq' => WritesIack]_vars

\* The CPU always finishes the current instruction: no interplay of bus,
\* CSR, ALU and sequencer busy flags blocks the main machine.
Progress == []<>(state = "UPDATE_PC")

\* A pending tag violation is not left waiting: it is taken (which disables
\* interrupts), acknowledged, or masked by the program.
ViolationServed == irq /\ irqEn ~> ~irq \/ ~irqEn

\* Every instruction of a CPU in single-step mode is followed by a stop in
\* CPU_IDLE, and nothing of it (memory access, trap, csr write) is then
\* still under way except the comparison of a store's tag.
IdleIsQuiet == state = "CPU_IDLE" => ~busy /\ ~csrBusy /\ SequencerDone

=============================================================================
