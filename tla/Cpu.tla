--------------------------------- MODULE Cpu ---------------------------------
(***************************************************************************)
(* The CPU's control (rtl/cpu/cpu.v): the main state machine, the trap and *)
(* MRET sequencers that share the CSR port with it, and its bus master.    *)
(* Every action is one positive clock edge in one state of the main        *)
(* machine; its argument x holds the input pins:                           *)
(*   timer, tags      TIMER_INTERRUPT_I, TAGS_INTERRUPT_I                  *)
(*   clearMip         clear_mip_timer_i                                    *)
(*   ack, dat         ACK_I, DAT_I                                         *)
(*   halt, single, step, rst   the host's control pins                     *)
(* Register values and the ALU are abstracted: an instruction carries the  *)
(* result its execution would compute.                                     *)
(***************************************************************************)
EXTENDS Csr, WbCpuBus

CONSTANTS
  Insns,       \* instructions memory may hold
  ResetPc,     \* VECTOR_RESET
  PcTop        \* bound: address arithmetic wraps above this bit

VARIABLES
  state,            \* state of the main machine
  pc, pcnext,
  insn,             \* the decoder's outputs for the current parcels
  aluOut, aluBusy,  \* ALU result register and busy flag
  aluFlags,         \* the branch condition by O_lt, O_ltu and O_eq
  check,            \* check_tags
  execDone,         \* exec_done
  wbFromBus,        \* writeback_from_bus
  branchFromAlu,    \* branch_pc_from_alu
  nextFromCsr,      \* next_addr_from_csr
  testFinished,     \* test_finished
  trapState, mretState

coreVars == <<state, pc, pcnext, insn, aluOut, aluBusy, aluFlags, check,
              execDone, wbFromBus, branchFromAlu, nextFromCsr, testFinished, trapState,
              mretState>>

CAUSE_INSTRUCTION_MISALIGNED == {}
CAUSE_INVALID_INSTRUCTION == {1}
CAUSE_BREAK == {0, 1}
CAUSE_ECALL == {0, 1, 3}
CAUSE_TIMER_INTERRUPT == {0, 1, 2, 31}
CAUSE_TAG_MISMATCH == {4, 31}

-----------------------------------------------------------------------------
(* The decoder's view of an instruction. *)

Insn == [stage : {"FETCH", "LOAD", "STORE", "BRANCH", "SYSTEM", "TRAP"},
         long : BOOLEAN,          \* 32-bit encoding
         pcFromAlu : BOOLEAN,     \* exec_next_pc_from_alu
         writeback : BOOLEAN,     \* exec_writeback_from_alu or _from_imm
         link : BOOLEAN,          \* write_reg
         slow : BOOLEAN,          \* multi-cycle ALU operation
         alu : Word,              \* ALU result: address, target or value
         op : BusOp, sp : BOOLEAN, data : Word,     \* rs1 = x2, rs2's value
         taken : BOOLEAN,
         sys : {"ECALL", "EBREAK", "WFI", "MRET", "INVALID",
                "CSRRW", "CSRRS", "CSRRC"},
         csr : CsrAddr, operand : Word,
         last : BOOLEAN]          \* ecall that ends a test

ASSUME CpuAssumption == Insns \subseteq Insn /\ ResetPc \in Word /\ PcTop \in 2..27

\* OP_MISCMEM: executed as a nop.
Nop == [stage |-> "FETCH", long |-> TRUE, pcFromAlu |-> FALSE,
        writeback |-> FALSE, link |-> FALSE, slow |-> FALSE, alu |-> {},
        op |-> "READW", sp |-> FALSE, data |-> {}, taken |-> FALSE,
        sys |-> "INVALID", csr |-> "NONE", operand |-> {}, last |-> FALSE]
AluInsn(long, slow) == [Nop EXCEPT !.long = long, !.slow = slow,
                                   !.writeback = TRUE]
JumpInsn(long, target) == [Nop EXCEPT !.long = long, !.pcFromAlu = TRUE,
                                      !.link = TRUE, !.alu = target]
BranchInsn(long, target, taken) ==
  [Nop EXCEPT !.stage = "BRANCH", !.long = long, !.alu = target,
              !.taken = taken]
LoadInsn(op, addr, sp) ==
  [Nop EXCEPT !.stage = "LOAD", !.op = op, !.alu = addr, !.sp = sp]
StoreInsn(op, addr, sp, data) ==
  [Nop EXCEPT !.stage = "STORE", !.op = op, !.alu = addr, !.sp = sp,
              !.data = data]
SystemInsn(sys) == [Nop EXCEPT !.stage = "SYSTEM", !.sys = sys]
CsrInsn(sys, csr, operand) ==
  [SystemInsn(sys) EXCEPT !.csr = csr, !.operand = operand]
\* Illegal encodings of compressed instructions keep their write-back flag.
IllegalInsn(writeback) == [Nop EXCEPT !.stage = "TRAP", !.long = FALSE,
                                      !.writeback = writeback]

-----------------------------------------------------------------------------
(* Wires. *)

HandlingTrap == trapState \notin {"RESET", "IDLE"}
HandlingMret == mretState \notin {"RESET", "IDLE"}
\* Mutation: the main machine does not wait for the trap sequencer.
Stalled_NotByTrap(x) == aluBusy \/ busy \/ csrBusy \/ HandlingMret \/ x.halt

Stalled(x) == aluBusy \/ busy \/ csrBusy \/ HandlingTrap \/ HandlingMret
              \/ x.halt
\* Mutation: the tag interrupt is masked together with the timer's.
InterruptOccured_TagsMasked(x) == (x.timer \/ x.tags) /\ irqTimerEn

InterruptOccured(x) == (x.timer /\ irqTimerEn) \/ x.tags

NextPc == (IF nextFromCsr THEN csrData
           ELSE IF insn.pcFromAlu \/ branchFromAlu THEN aluOut
           ELSE pcnext) \ {0}
AddrMisaligned == 0 \in NextPc
\* Mutation: the write-back of UPDATE_PC ignores exec_done.
RegWe_NotExecDone ==
  \/ state = "EXEC" /\ insn.pcFromAlu /\ insn.link
  \/ state = "POST_EXEC" /\ ~insn.pcFromAlu /\ insn.link
  \/ state = "UPDATE_PC" /\ (wbFromBus \/ insn.writeback)

\* reg_we, except for the write of CSR1.
RegWe ==
  \/ state = "EXEC" /\ insn.pcFromAlu /\ insn.link
  \/ state = "POST_EXEC" /\ ~insn.pcFromAlu /\ insn.link
  \/ state = "UPDATE_PC" /\ (wbFromBus \/ insn.writeback) /\ execDone

\* check_tags of a load or store: lt and st are not checked, accesses
\* through sp only if SKIP_SP is off.
DataCheck == /\ insn.op \notin {"READT", "WRITET"}
             /\ tagsEn
             /\ ~(tagsSkipSp /\ insn.sp)

NoCsr == [en |-> FALSE, we |-> FALSE, addr |-> "NONE", data |-> {}]
CsrRead(addr) == [en |-> TRUE, we |-> FALSE, addr |-> addr, data |-> {}]
CsrWrite(addr, data) == [en |-> TRUE, we |-> TRUE, addr |-> addr, data |-> data]
\* Mutation: mepc gets the address of the next instruction.
TrapCsr_NextPc ==
  CASE trapState = "LOAD_STATUS" -> CsrRead("MSTATUS")
    [] trapState = "STORE_STATUS" ->
         CsrWrite("MSTATUS", (csrData \ {MIE, MPIE})
                               \cup {b \in {MPIE} : MIE \in csrData})
    [] trapState = "STORE_EPC" -> CsrWrite("MEPC", pcnext)
    [] trapState = "STORE_TVAL" -> CsrWrite("MTVAL", pc)
    [] trapState = "LOAD_MIP" -> CsrRead("MIP")
    [] trapState = "STORE_MIP" -> CsrWrite("MIP", csrData \cup {MTI})
    [] trapState = "LOAD_TVEC" -> CsrRead("MTVEC")

\* trap_csr_*
TrapCsr ==
  CASE trapState = "LOAD_STATUS" -> CsrRead("MSTATUS")
    [] trapState = "STORE_STATUS" ->
         CsrWrite("MSTATUS", (csrData \ {MIE, MPIE})
                               \cup {b \in {MPIE} : MIE \in csrData})
    [] trapState = "STORE_EPC" -> CsrWrite("MEPC", pc)
    [] trapState = "STORE_TVAL" -> CsrWrite("MTVAL", pc)
    [] trapState = "LOAD_MIP" -> CsrRead("MIP")
    [] trapState = "STORE_MIP" -> CsrWrite("MIP", csrData \cup {MTI})
    [] trapState = "LOAD_TVEC" -> CsrRead("MTVEC")

\* mret_csr_*
MretCsr ==
  CASE mretState = "STORE_STATUS" ->
         CsrWrite("MSTATUS", (csrData \ {MIE}) \cup {b \in {MIE} : MPIE \in csrData})
    [] mretState = "LOAD_EPC" -> CsrRead("MEPC")

\* csr_*_f: who drives the CSR port.
CsrMux(cpu) == IF HandlingTrap THEN TrapCsr
               ELSE IF HandlingMret THEN MretCsr ELSE cpu

NextTrapState(x, trap) ==
  CASE trapState = "RESET" -> "IDLE"
    [] trapState = "IDLE" -> IF trap THEN "LOAD_STATUS" ELSE "IDLE"
    [] trapState = "LOAD_STATUS" -> "STORE_STATUS"
    [] trapState = "STORE_STATUS" -> "STORE_EPC"
    [] trapState = "STORE_EPC" -> "STORE_TVAL"
    [] trapState = "STORE_TVAL" ->
         IF x.timer /\ irqTimerEn THEN "LOAD_MIP" ELSE "LOAD_TVEC"
    [] trapState = "LOAD_MIP" -> "STORE_MIP"
    [] trapState = "STORE_MIP" -> "LOAD_TVEC"
    [] trapState = "LOAD_TVEC" -> "IDLE"
\* Mutation: mret ends without reading mepc.
NextMretState_NoEpc(mret) ==
  CASE mretState = "RESET" -> "IDLE"
    [] mretState = "IDLE" -> IF mret THEN "STORE_STATUS" ELSE "IDLE"
    [] mretState \in {"STORE_STATUS", "LOAD_EPC"} -> "IDLE"

NextMretState(mret) ==
  CASE mretState = "RESET" -> "IDLE"
    [] mretState = "IDLE" -> IF mret THEN "STORE_STATUS" ELSE "IDLE"
    [] mretState = "STORE_STATUS" -> "LOAD_EPC"
    [] mretState = "LOAD_EPC" -> "IDLE"

-----------------------------------------------------------------------------
(* The registers.  o holds the outputs of the combinational block for the  *)
(* current state; Defaults are its assignments before the case statement.  *)

NoBus == [en |-> FALSE, op |-> "READW", addr |-> {}]
Access(op, addr) == [en |-> TRUE, op |-> op, addr |-> addr]

Defaults == [next |-> "DEAD", csr |-> NoCsr, bus |-> NoBus, check |-> FALSE,
             trap |-> FALSE, mret |-> FALSE, aluEn |-> FALSE, alu |-> {},
             branch |-> FALSE, fromCsr |-> FALSE, fromBus |-> FALSE,
             done |-> FALSE, insn |-> insn, finished |-> FALSE]

\* The always block of the main machine, its reset branch first.
MainRegisters(x, o) ==
  LET stalled == Stalled(x)
      Hold(cond, old, new) == IF cond THEN old ELSE new
  IN  IF x.rst
      THEN /\ state' = "RESET" /\ pc' = ResetPc /\ pcnext' = {}
           /\ wbFromBus' = FALSE /\ branchFromAlu' = FALSE
           /\ nextFromCsr' = FALSE /\ check' = FALSE /\ execDone' = FALSE
           /\ testFinished' = FALSE
           /\ UNCHANGED insn
      ELSE /\ state' = Hold(stalled, state, o.next)
           /\ pc' = Hold(state # "UPDATE_PC" \/ stalled, pc, NextPc)
           /\ pcnext' = Hold(state # "DECODE" \/ stalled, pcnext, aluOut)
           /\ wbFromBus' = Hold(stalled, wbFromBus, o.fromBus)
           /\ branchFromAlu' = o.branch
           /\ nextFromCsr' = Hold(stalled, nextFromCsr, o.fromCsr)
           /\ check' = Hold(state \notin {"PRE_FETCH", "LOAD1", "STORE1"},
                            check, o.check)
           /\ execDone' = Hold(state \notin {"PRE_FETCH", "EXEC"},
                               execDone, o.done)
           /\ testFinished' = (testFinished \/ o.finished)
           /\ insn' = Hold(stalled, insn, o.insn)

Sequencers(x, o) ==
  IF x.rst
  THEN trapState' = "RESET" /\ mretState' = "RESET"
  ELSE /\ trapState' = IF csrBusy THEN trapState ELSE NextTrapState(x, o.trap)
       /\ mretState' = IF csrBusy THEN mretState ELSE NextMretState(o.mret)

\* The ALU keeps a multi-cycle operation going until it is done; how many
\* ticks that takes depends on the operands.  The flags compare the operands
\* of the last operation: rs1 and rs2 in EXEC, pc and immediate in BRANCH2
\* (those of the other states are never looked at).
Alu(x, o) ==
  /\ aluOut' = IF o.aluEn /\ ~x.rst THEN o.alu ELSE aluOut
  /\ aluBusy' \in IF ~x.rst /\ insn.slow /\ (state = "EXEC" \/ aluBusy)
                  THEN BOOLEAN ELSE {FALSE}
  /\ aluFlags' \in IF ~o.aluEn \/ x.rst THEN {aluFlags}
                   ELSE IF state = "EXEC" THEN {insn.taken}
                   ELSE IF state = "BRANCH2" THEN BOOLEAN ELSE {FALSE}

CpuClock(x, o) ==
  /\ MainRegisters(x, o)
  /\ Sequencers(x, o)
  /\ Alu(x, o)
  /\ IF x.rst THEN CsrReset ELSE CsrTick(CsrMux(o.csr))
  /\ BusTick(o.bus.en, o.bus.op, o.bus.addr, insn.data, x.ack, x.dat)

-----------------------------------------------------------------------------
(* The states of the main machine. *)

\* Mutation: the cause is put on the CSR port without csr_we.
Trap_NotWritten(cause) ==
  [Defaults EXCEPT !.next = "TRAP", !.trap = TRUE,
                   !.csr = [CsrWrite("MCAUSE", cause) EXCEPT !.we = FALSE]]

Trap(cause) == [Defaults EXCEPT !.next = "TRAP", !.trap = TRUE,
                                !.csr = CsrWrite("MCAUSE", cause)]

StateReset(x) ==
  /\ state = "RESET"
  /\ CpuClock(x, [Defaults EXCEPT !.next = "PRE_FETCH"])
\* Mutation: fetches of the upper parcel of a word are not checked.
StatePreFetch_UpperUnchecked(x) ==
  /\ state = "PRE_FETCH"
  /\ CpuClock(x, [Defaults EXCEPT !.next = "FETCH",
                                  !.check = tagsIfEn /\ 1 \notin pc,
                                  !.bus = Access("READW", pc)])

StatePreFetch(x) ==
  /\ state = "PRE_FETCH"
  /\ CpuClock(x, [Defaults EXCEPT !.next = "FETCH", !.check = tagsIfEn,
                                  !.bus = Access("READW", pc)])

\* The word at pc has arrived when the bus is idle; with pc[1] set it holds
\* only the lower parcel of a 32-bit instruction.
StateFetch(x) ==
  /\ state = "FETCH"
  /\ \E i \in IF Stalled(x) THEN {insn} ELSE Insns :
       LET split == 1 \in pc /\ i.long
       IN  CpuClock(x, [Defaults EXCEPT
             !.next = IF split THEN "PREPAIR_UNALIGNED_FETCH" ELSE "DECODE",
             !.insn = i,
             !.aluEn = TRUE,
             !.alu = AddBit(pc, IF i.long /\ ~split THEN 2 ELSE 1, PcTop)])

\* check_tags is not assigned in this state: the value of PRE_FETCH stays.
StatePrepairUnalignedFetch(x) ==
  /\ state = "PREPAIR_UNALIGNED_FETCH"
  /\ CpuClock(x, [Defaults EXCEPT !.next = "FETCH_MORE",
                                  !.bus = Access("READW", aluOut)])

StateFetchMore(x) ==
  /\ state = "FETCH_MORE"
  /\ CpuClock(x, [Defaults EXCEPT !.next = "DECODE", !.aluEn = TRUE,
                                  !.alu = AddBit(pc, 2, PcTop)])

\* An interrupt is taken here, before the instruction has any effect.
StateDecode(x) ==
  /\ state = "DECODE"
  /\ CpuClock(x,
       IF InterruptOccured(x) /\ irqEn
       THEN Trap(IF x.tags /\ tagsEn THEN CAUSE_TAG_MISMATCH
                 ELSE IF x.timer THEN CAUSE_TIMER_INTERRUPT ELSE {})
       ELSE [Defaults EXCEPT !.next = "EXEC"])

StateExec(x) ==
  /\ state = "EXEC"
  /\ CpuClock(x, [Defaults EXCEPT
       !.next = CASE insn.stage = "FETCH"  -> "POST_EXEC"
                  [] insn.stage = "LOAD"   -> "LOAD1"
                  [] insn.stage = "STORE"  -> "STORE1"
                  [] insn.stage = "BRANCH" -> "BRANCH2"
                  [] insn.stage = "SYSTEM" -> "SYSTEM"
                  [] insn.stage = "TRAP"   -> "TRAP",
       !.done = TRUE,
       !.aluEn = TRUE, !.alu = insn.alu])

StatePostExec(x) ==
  /\ state = "POST_EXEC"
  /\ CpuClock(x, [Defaults EXCEPT !.next = "UPDATE_PC"])

StateLoad1(x) ==
  /\ state = "LOAD1"
  /\ CpuClock(x, [Defaults EXCEPT !.next = "LOAD2", !.check = DataCheck,
                                  !.bus = Access(insn.op, aluOut)])

StateLoad2(x) ==
  /\ state = "LOAD2"
  /\ CpuClock(x, [Defaults EXCEPT !.next = "UPDATE_PC", !.fromBus = TRUE])

\* mip is read ahead, in case the store turns out to go to mtimecmp.
StateStore1(x) ==
  /\ state = "STORE1"
  /\ CpuClock(x, [Defaults EXCEPT !.next = "STORE2", !.check = DataCheck,
                                  !.bus = Access(insn.op, aluOut),
                                  !.csr = CsrRead("MIP")])

StateStore2(x) ==
  /\ state = "STORE2"
  /\ CpuClock(x, [Defaults EXCEPT !.next = "UPDATE_PC",
       !.csr = IF x.clearMip THEN CsrWrite("MIP", csrData \ {MTI}) ELSE NoCsr])
\* Mutation: one more state between BRANCH2 and UPDATE_PC.
StateBranch2_ViaPostExec(x) ==
  /\ state = "BRANCH2"
  /\ CpuClock(x, [Defaults EXCEPT !.next = "POST_EXEC", !.aluEn = TRUE,
                                  !.alu = insn.alu, !.branch = aluFlags])

\* The comparison flags are those of EXEC only in the first tick here: the
\* ALU is reused for the target.
StateBranch2(x) ==
  /\ state = "BRANCH2"
  /\ CpuClock(x, [Defaults EXCEPT !.next = "UPDATE_PC", !.aluEn = TRUE,
                                  !.alu = insn.alu, !.branch = aluFlags])
\* Mutation: ebreak starts the trap sequencer but continues.
StateSystem_EbreakGoesOn(x) ==
  /\ state = "SYSTEM"
  /\ CpuClock(x,
       CASE insn.sys = "ECALL"   -> [Trap(CAUSE_ECALL) EXCEPT !.finished = insn.last]
         [] insn.sys = "EBREAK"  -> [Trap(CAUSE_BREAK) EXCEPT !.next = "UPDATE_PC"]
         [] insn.sys = "INVALID" -> Trap(CAUSE_INVALID_INSTRUCTION)
         [] insn.sys = "WFI"     -> [Defaults EXCEPT !.next = "UPDATE_PC"]
         [] insn.sys = "MRET"    -> [Defaults EXCEPT !.next = "MRET", !.mret = TRUE,
                                                     !.csr = CsrRead("MSTATUS")]
         [] insn.sys \in {"CSRRW", "CSRRS", "CSRRC"} ->
              [Defaults EXCEPT !.next = "CSR1", !.csr = CsrRead(insn.csr)])

StateSystem(x) ==
  /\ state = "SYSTEM"
  /\ CpuClock(x,
       CASE insn.sys = "ECALL"   -> [Trap(CAUSE_ECALL) EXCEPT !.finished = insn.last]
         [] insn.sys = "EBREAK"  -> Trap(CAUSE_BREAK)
         [] insn.sys = "INVALID" -> Trap(CAUSE_INVALID_INSTRUCTION)
         [] insn.sys = "WFI"     -> [Defaults EXCEPT !.next = "UPDATE_PC"]
         [] insn.sys = "MRET"    -> [Defaults EXCEPT !.next = "MRET", !.mret = TRUE,
                                                     !.csr = CsrRead("MSTATUS")]
         [] insn.sys \in {"CSRRW", "CSRRS", "CSRRC"} ->
              [Defaults EXCEPT !.next = "CSR1", !.csr = CsrRead(insn.csr)])

StateCsr1(x) ==
  /\ state = "CSR1"
  /\ CpuClock(x, [Defaults EXCEPT !.next = "CSR2"])
\* Mutation: the next fetch is started together with the CSR write.
StateCsr2_EarlyFetch(x) ==
  /\ state = "CSR2"
  /\ CpuClock(x, [Defaults EXCEPT !.next = "UPDATE_PC",
       !.bus = Access("READW", pcnext),
       !.csr = CsrWrite(insn.csr,
                        CASE insn.sys = "CSRRW" -> insn.operand
                          [] insn.sys = "CSRRS" -> csrData \cup insn.operand
                          [] insn.sys = "CSRRC" -> csrData \ insn.operand)])

\* The register is written back even by the read-only forms of csrrs/csrrc.
StateCsr2(x) ==
  /\ state = "CSR2"
  /\ CpuClock(x, [Defaults EXCEPT !.next = "UPDATE_PC",
       !.csr = CsrWrite(insn.csr,
                        CASE insn.sys = "CSRRW" -> insn.operand
                          [] insn.sys = "CSRRS" -> csrData \cup insn.operand
                          [] insn.sys = "CSRRC" -> csrData \ insn.operand)])

StateTrap(x) ==
  /\ state \in {"TRAP", "MRET"}
  /\ CpuClock(x, [Defaults EXCEPT !.next = "UPDATE_PC", !.fromCsr = TRUE])

StateUpdatePc(x) ==
  /\ state = "UPDATE_PC"
  /\ CpuClock(x, [(IF AddrMisaligned THEN Trap(CAUSE_INSTRUCTION_MISALIGNED)
                   ELSE Defaults) EXCEPT
       !.next = IF x.single \/ testFinished THEN "CPU_IDLE"
                ELSE IF AddrMisaligned THEN "TRAP" ELSE "PRE_FETCH"])

StateCpuIdle(x) ==
  /\ state = "CPU_IDLE"
  /\ CpuClock(x, [Defaults EXCEPT !.next = IF x.step THEN "PRE_FETCH"
                                           ELSE "CPU_IDLE"])

CpuTick(x) ==
  \/ StateReset(x) \/ StatePreFetch(x) \/ StateFetch(x)
  \/ StatePrepairUnalignedFetch(x) \/ StateFetchMore(x) \/ StateDecode(x)
  \/ StateExec(x) \/ StatePostExec(x) \/ StateLoad1(x) \/ StateLoad2(x)
  \/ StateStore1(x) \/ StateStore2(x) \/ StateBranch2(x) \/ StateSystem(x)
  \/ StateCsr1(x) \/ StateCsr2(x) \/ StateTrap(x) \/ StateUpdatePc(x)
  \/ StateCpuIdle(x)

CpuInit ==
  /\ state = "RESET" /\ pc = ResetPc /\ pcnext = {} /\ insn = Nop
  /\ aluOut = {} /\ aluBusy = FALSE /\ aluFlags = FALSE
  /\ check = FALSE /\ execDone = FALSE
  /\ wbFromBus = FALSE /\ branchFromAlu = FALSE /\ nextFromCsr = FALSE
  /\ testFinished = FALSE /\ trapState = "RESET" /\ mretState = "RESET"
  /\ busOp = "READB" /\ buffer = {} /\ busy = FALSE /\ cyc = FALSE
  /\ we = FALSE /\ sel = "NONE" /\ adr = {} /\ dat = {}
  /\ CsrInit

CpuStates == {"RESET", "FETCH", "DECODE", "EXEC", "STORE2", "LOAD2", "BRANCH2",
              "TRAP", "SYSTEM", "UPDATE_PC", "CSR1", "CSR2", "PRE_FETCH",
              "STORE1", "LOAD1", "POST_EXEC", "MRET", "FETCH_MORE",
              "PREPAIR_UNALIGNED_FETCH", "CPU_IDLE"}

CpuTypeOK ==
  /\ CsrTypeOK /\ BusTypeOK
  /\ state \in CpuStates
  /\ pc \in Word /\ pcnext \in Word /\ aluOut \in Word
  /\ insn \in Insn
  /\ aluBusy \in BOOLEAN /\ aluFlags \in BOOLEAN /\ check \in BOOLEAN /\ execDone \in BOOLEAN
  /\ wbFromBus \in BOOLEAN /\ branchFromAlu \in BOOLEAN
  /\ nextFromCsr \in BOOLEAN /\ testFinished \in BOOLEAN
  /\ trapState \in {"RESET", "IDLE", "LOAD_STATUS", "STORE_STATUS", "STORE_EPC",
                    "STORE_TVAL", "LOAD_MIP", "STORE_MIP", "LOAD_TVEC"}
  /\ mretState \in {"RESET", "IDLE", "STORE_STATUS", "LOAD_EPC"}

=============================================================================
