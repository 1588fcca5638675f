----------------------------- MODULE Core_proofs -----------------------------
(***************************************************************************)
(* Proofs about CPU and RAM together, for every program, every RAM size    *)
(* and every behaviour of the timer line.                                  *)
(***************************************************************************)
EXTENDS Core, BusRam_proofs, WellFoundedInduction

-----------------------------------------------------------------------------
(* Types. *)

\* A set of naturals that is not empty has a least element.
LEMMA LeastNat ==
  ASSUME NEW T \in SUBSET Nat, T # {}
  PROVE  \E x \in T : \A y \in T : x <= y
<1> DEFINE R == OpToRel(<, Nat)
<1>1. IsWellFoundedOn(R, Nat)
  BY NatLessThanWellFounded
<1>2. \A x, y \in Nat : y < x => <<y, x>> \in R
  BY DEF OpToRel
<1> HIDE DEF R
<1>3. \E x \in T : \A y \in T : ~ (<<y, x>> \in R)
  BY <1>1, WFMin
<1>4. PICK x \in T : \A y \in T : ~ (<<y, x>> \in R)
  BY <1>3
<1>5. \A y \in T : ~(y < x)
  BY <1>2, <1>4, Zenon
<1> QED BY <1>5, SMT

\* The next address is a word.
LEMMA AddBitType ==
  ASSUME NEW w \in Word, NEW b \in 0..31, NEW top \in 0..31
  PROVE  AddBit(w, b, top) \in Word
<1> DEFINE zeros == {i \in b..top : i \notin w}
           k == CHOOSE i \in zeros : \A j \in zeros : i <= j
<1>1. zeros # {} => k \in zeros
  <2>1. ASSUME zeros # {} PROVE \E i \in zeros : \A j \in zeros : i <= j
    <3>1. zeros \in SUBSET Nat
      BY SMT
    <3> HIDE DEF zeros
    <3> QED BY <2>1, <3>1, LeastNat
  <2> QED BY <2>1
<1>2. zeros # {} => k \in 0..31
  BY <1>1, SMT
<1>3. AddBit(w, b, top) = IF zeros = {} THEN w \ (b..top) ELSE (w \ (b..k)) \cup {k}
  BY DEF AddBit
<1> HIDE DEF zeros, k
<1>4. w \subseteq 0..31
  BY DEF Word
<1>5. AddBit(w, b, top) \subseteq 0..31
  BY <1>2, <1>3, <1>4, Zenon
<1> QED BY <1>5 DEF Word

-----------------------------------------------------------------------------
(* The outputs of the combinational block have their types. *)

CsrReq == [en : BOOLEAN, we : BOOLEAN, addr : CsrAddr, data : Word]

Outputs == [next : CpuStates, csr : CsrReq,
            bus : [en : BOOLEAN, op : BusOp, addr : Word], check : BOOLEAN,
            trap : BOOLEAN, mret : BOOLEAN, aluEn : BOOLEAN, alu : Word,
            branch : BOOLEAN, fromCsr : BOOLEAN, fromBus : BOOLEAN,
            done : BOOLEAN, insn : Insn, finished : BOOLEAN]

Pins == [timer : BOOLEAN, tags : BOOLEAN, clearMip : BOOLEAN, ack : BOOLEAN,
         dat : Word, halt : BOOLEAN, single : BOOLEAN, step : BOOLEAN,
         rst : BOOLEAN]

\* The defaults, a trap and the requests to CSR file and bus.
LEMMA DefaultsType ==
  ASSUME CpuTypeOK
  PROVE  /\ NoCsr \in CsrReq
         /\ \A a \in CsrAddr : CsrRead(a) \in CsrReq
         /\ \A a \in CsrAddr, d \in Word : CsrWrite(a, d) \in CsrReq
         /\ \A op \in BusOp, a \in Word :
              Access(op, a) \in [en : BOOLEAN, op : BusOp, addr : Word]
         /\ NoBus \in [en : BOOLEAN, op : BusOp, addr : Word]
         /\ \A n \in CpuStates : [Defaults EXCEPT !.next = n] \in Outputs
         /\ \A cause \in Word : Trap(cause) \in Outputs
<1>1. {} \in Word /\ "NONE" \in CsrAddr /\ "READW" \in BusOp /\ "MCAUSE" \in CsrAddr
  BY DEF Word, CsrAddr, Csrs, BusOp, ReadOp
<1>2. /\ NoCsr \in CsrReq
      /\ \A a \in CsrAddr : CsrRead(a) \in CsrReq
      /\ \A a \in CsrAddr, d \in Word : CsrWrite(a, d) \in CsrReq
  BY <1>1 DEF NoCsr, CsrRead, CsrWrite, CsrReq
<1>3. /\ NoBus \in [en : BOOLEAN, op : BusOp, addr : Word]
      /\ \A op \in BusOp, a \in Word :
              Access(op, a) \in [en : BOOLEAN, op : BusOp, addr : Word]
  BY <1>1 DEF NoBus, Access
<1>4. insn \in Insn
  BY DEF CpuTypeOK
<1>5. \A n \in CpuStates : [Defaults EXCEPT !.next = n] \in Outputs
  BY <1>1, <1>2, <1>3, <1>4 DEF Defaults, Outputs
<1>6. \A cause \in Word : Trap(cause) \in Outputs
  <2>1. "TRAP" \in CpuStates
    BY DEF CpuStates
  <2> QED BY <1>1, <1>2, <1>3, <1>4, <2>1 DEF Defaults, Outputs, Trap
<1> QED BY <1>2, <1>3, <1>5, <1>6

-----------------------------------------------------------------------------
(* The combinational block as a table: what each state drives.  The        *)
(* invariance proofs below reason from this table and the registers'       *)
(* equations, not from the actions one by one.                             *)

TrapRequested(x) ==
  \/ state = "DECODE" /\ InterruptOccured(x) /\ irqEn
  \/ state = "SYSTEM" /\ insn.sys \in {"ECALL", "EBREAK", "INVALID"}

\* The successor of a state that does not wait.
NextTable(x, o) ==
  /\ state = "RESET" => o.next = "PRE_FETCH"
  /\ state = "PRE_FETCH" => o.next = "FETCH"
  /\ state = "FETCH" => o.next = IF 1 \in pc /\ o.insn.long
                                 THEN "PREPAIR_UNALIGNED_FETCH" ELSE "DECODE"
  /\ state = "PREPAIR_UNALIGNED_FETCH" => o.next = "FETCH_MORE"
  /\ state = "FETCH_MORE" => o.next = "DECODE"
  /\ state = "DECODE" => o.next = IF TrapRequested(x) THEN "TRAP" ELSE "EXEC"
  /\ state = "EXEC" =>
       /\ insn.stage = "FETCH" => o.next = "POST_EXEC"
       /\ insn.stage = "LOAD" => o.next = "LOAD1"
       /\ insn.stage = "STORE" => o.next = "STORE1"
       /\ insn.stage = "BRANCH" => o.next = "BRANCH2"
       /\ insn.stage = "SYSTEM" => o.next = "SYSTEM"
       /\ insn.stage = "TRAP" => o.next = "TRAP"
  /\ state = "LOAD1" => o.next = "LOAD2"
  /\ state = "STORE1" => o.next = "STORE2"
  /\ state = "SYSTEM" =>
       /\ TrapRequested(x) => o.next = "TRAP"
       /\ insn.sys = "WFI" => o.next = "UPDATE_PC"
       /\ insn.sys = "MRET" => o.next = "MRET"
       /\ insn.sys \in {"CSRRW", "CSRRS", "CSRRC"} => o.next = "CSR1"
  /\ state = "CSR1" => o.next = "CSR2"
  /\ state \in {"POST_EXEC", "LOAD2", "STORE2", "BRANCH2", "CSR2", "TRAP", "MRET"}
       => o.next = "UPDATE_PC"
  /\ state \in {"UPDATE_PC", "CPU_IDLE"} => o.next \in {"PRE_FETCH", "CPU_IDLE"}

\* The requests to the CSR port.
CsrTable(x, o) ==
  /\ state \in {"RESET", "PRE_FETCH", "FETCH", "PREPAIR_UNALIGNED_FETCH", "FETCH_MORE",
                "EXEC", "POST_EXEC", "LOAD1", "LOAD2", "BRANCH2", "CSR1", "TRAP",
                "MRET", "UPDATE_PC", "CPU_IDLE"} => o.csr = NoCsr
  /\ state = "DECODE" /\ ~TrapRequested(x) => o.csr = NoCsr
  /\ state = "DECODE" /\ TrapRequested(x) =>
       o.csr = CsrWrite("MCAUSE", IF x.tags /\ tagsEn THEN CAUSE_TAG_MISMATCH
                                  ELSE IF x.timer THEN CAUSE_TIMER_INTERRUPT ELSE {})
  /\ state = "STORE1" => o.csr = CsrRead("MIP")
  /\ state = "STORE2" => \/ o.csr = NoCsr
                         \/ o.csr = CsrWrite("MIP", csrData \ {MTI})
  /\ state = "SYSTEM" =>
       /\ insn.sys = "ECALL" => o.csr = CsrWrite("MCAUSE", CAUSE_ECALL)
       /\ insn.sys = "EBREAK" => o.csr = CsrWrite("MCAUSE", CAUSE_BREAK)
       /\ insn.sys = "INVALID" => o.csr = CsrWrite("MCAUSE", CAUSE_INVALID_INSTRUCTION)
       /\ insn.sys = "WFI" => o.csr = NoCsr
       /\ insn.sys = "MRET" => o.csr = CsrRead("MSTATUS")
       /\ insn.sys \in {"CSRRW", "CSRRS", "CSRRC"} => o.csr = CsrRead(insn.csr)
  /\ state = "CSR2" => \E d \in Word :
       /\ o.csr = CsrWrite(insn.csr, d)
       /\ insn.sys = "CSRRW" => d = insn.operand
       /\ insn.sys = "CSRRS" => d = csrData \cup insn.operand
       /\ insn.sys = "CSRRC" => d = csrData \ insn.operand

\* The bus, the ALU and the control registers.
DriveTable(x, o) ==
  /\ o.bus.en <=> state \in {"PRE_FETCH", "PREPAIR_UNALIGNED_FETCH", "LOAD1", "STORE1"}
  /\ state = "PRE_FETCH" => o.bus = Access("READW", pc)
  /\ state = "PREPAIR_UNALIGNED_FETCH" => o.bus = Access("READW", aluOut)
  /\ state \in {"LOAD1", "STORE1"} => o.bus = Access(insn.op, aluOut)
  /\ state = "PRE_FETCH" => o.check = tagsIfEn
  /\ state \in {"LOAD1", "STORE1"} => o.check = DataCheck
  /\ o.trap <=> TrapRequested(x)
  /\ o.mret <=> state = "SYSTEM" /\ insn.sys = "MRET"
  /\ o.aluEn <=> state \in {"FETCH", "FETCH_MORE", "EXEC", "BRANCH2"}
  /\ state = "FETCH" /\ 1 \in pc /\ o.insn.long => o.alu = AddBit(pc, 1, PcTop)
  /\ state \in {"EXEC", "BRANCH2"} => o.alu = insn.alu
  /\ o.branch <=> state = "BRANCH2" /\ aluFlags
  /\ o.fromCsr <=> state \in {"TRAP", "MRET"}
  /\ o.fromBus <=> state = "LOAD2"
  /\ o.done <=> state = "EXEC"
  /\ IF state = "FETCH" /\ ~Stalled(x) THEN o.insn \in Insns ELSE o.insn = insn

Table(x, o) == NextTable(x, o) /\ CsrTable(x, o) /\ DriveTable(x, o)

\* In the two states of a csr instruction the decoder shows one.
CsrOpKnown == state \in {"CSR1", "CSR2"} => insn.sys \in {"CSRRW", "CSRRS", "CSRRC"}

\* What a state of the main machine drives.
LEMMA OutputsType ==
  ASSUME TypeOK, CsrOpKnown, NEW x \in Pins, CpuTick(x)
  PROVE  \E o \in Outputs : CpuClock(x, o) /\ Table(x, o)
<1>1. /\ CpuTypeOK /\ insn \in Insn /\ pc \in Word /\ aluOut \in Word
      /\ csrData \in Word /\ tagsIfEn \in BOOLEAN /\ aluFlags \in BOOLEAN
  BY DEF TypeOK, CpuTypeOK, CsrTypeOK
<1>2. /\ insn.alu \in Word /\ insn.op \in BusOp /\ insn.csr \in CsrAddr
      /\ insn.operand \in Word /\ insn.last \in BOOLEAN
      /\ insn.stage \in {"FETCH", "LOAD", "STORE", "BRANCH", "SYSTEM", "TRAP"}
      /\ insn.sys \in {"ECALL", "EBREAK", "WFI", "MRET", "INVALID", "CSRRW", "CSRRS",
                       "CSRRC"}
  BY <1>1 DEF Insn
<1>3. /\ "READW" \in BusOp /\ {} \in Word /\ "MIP" \in CsrAddr /\ "MSTATUS" \in CsrAddr
  BY DEF BusOp, ReadOp, CsrAddr, Csrs, Word
<1>4. /\ NoCsr \in CsrReq /\ NoBus \in [en : BOOLEAN, op : BusOp, addr : Word]
      /\ insn \in Insn /\ {} \in Word
  BY <1>1, <1>3, DefaultsType
<1>5. CASE StateReset(x)
  <2> DEFINE o == [Defaults EXCEPT !.next = "PRE_FETCH"]
  <2>2. o \in Outputs
    BY <1>4 DEF Defaults, Outputs, CpuStates
  <2>3. Table(x, o)
    BY <1>5
       DEF StateReset, Table, NextTable, CsrTable, DriveTable, TrapRequested, Defaults, NoBus, Access
  <2> QED BY <1>5, <2>2, <2>3 DEF StateReset
<1>6. CASE StatePreFetch(x)
  <2> DEFINE o == [Defaults EXCEPT !.next = "FETCH", !.check = tagsIfEn,
                               !.bus = Access("READW", pc)]
  <2>1. Access("READW", pc) \in [en : BOOLEAN, op : BusOp, addr : Word]
    BY <1>1, <1>3, DefaultsType
  <2>2. o \in Outputs
    BY <1>4, <1>1, <2>1 DEF Defaults, Outputs, CpuStates
  <2>3. Table(x, o)
    BY <1>6
       DEF StatePreFetch, Table, NextTable, CsrTable, DriveTable, TrapRequested, Defaults, NoBus, Access
  <2> QED BY <1>6, <2>2, <2>3 DEF StatePreFetch
<1>7. CASE StateFetch(x)
  <2>1. PICK i \in IF Stalled(x) THEN {insn} ELSE Insns :
               LET split == 1 \in pc /\ i.long
               IN  CpuClock(x, [Defaults EXCEPT
                     !.next = IF split THEN "PREPAIR_UNALIGNED_FETCH" ELSE "DECODE",
                     !.insn = i,
                     !.aluEn = TRUE,
                     !.alu = AddBit(pc, IF i.long /\ ~split THEN 2 ELSE 1, PcTop)])
    BY <1>7 DEF StateFetch
  <2> DEFINE nx == IF 1 \in pc /\ i.long THEN "PREPAIR_UNALIGNED_FETCH" ELSE "DECODE"
             a == AddBit(pc, IF i.long /\ ~(1 \in pc /\ i.long) THEN 2 ELSE 1, PcTop)
             o == [Defaults EXCEPT !.next = nx, !.insn = i, !.aluEn = TRUE, !.alu = a]
  <2>2. i \in Insn
    BY <1>1, <2>1, CpuAssumption
  <2>3. a \in Word
    BY <1>1, AddBitType, CpuAssumption
  <2>4. nx \in CpuStates
    BY DEF CpuStates
  <2>5. 1 \in pc /\ i.long => a = AddBit(pc, 1, PcTop)
    OBVIOUS
  <2>6. CpuClock(x, o)
    BY <2>1
  <2>7. Table(x, o)
    <3>1. o.next = nx /\ o.insn = i /\ o.alu = a
      BY DEF Defaults
    <3>2. /\ o.csr = NoCsr /\ ~o.bus.en /\ ~o.trap /\ ~o.mret /\ o.aluEn /\ ~o.branch
          /\ ~o.fromCsr /\ ~o.fromBus /\ ~o.done
      BY DEF Defaults, NoBus
    <3>3. state = "FETCH"
      BY <1>7 DEF StateFetch
    <3> HIDE DEF o, a
    <3> QED BY <2>1, <2>5, <3>1, <3>2, <3>3
            DEF Table, NextTable, CsrTable, DriveTable, TrapRequested
  <2> HIDE DEF nx, a
  <2>8. o \in Outputs
    BY <1>4, <2>2, <2>3, <2>4 DEF Defaults, Outputs
  <2> QED BY <2>6, <2>7, <2>8
<1>8. CASE StatePrepairUnalignedFetch(x)
  <2> DEFINE o == [Defaults EXCEPT !.next = "FETCH_MORE", !.bus = Access("READW", aluOut)]
  <2>1. Access("READW", aluOut) \in [en : BOOLEAN, op : BusOp, addr : Word]
    BY <1>1, <1>3, DefaultsType
  <2>2. o \in Outputs
    BY <1>4, <2>1 DEF Defaults, Outputs, CpuStates
  <2>3. Table(x, o)
    BY <1>8
       DEF StatePrepairUnalignedFetch, Table, NextTable, CsrTable, DriveTable, TrapRequested, Defaults, NoBus, Access
  <2> QED BY <1>8, <2>2, <2>3 DEF StatePrepairUnalignedFetch
<1>9. CASE StateFetchMore(x)
  <2> DEFINE o == [Defaults EXCEPT !.next = "DECODE", !.aluEn = TRUE,
                               !.alu = AddBit(pc, 2, PcTop)]
  <2>1. AddBit(pc, 2, PcTop) \in Word
    BY <1>1, AddBitType, CpuAssumption
  <2>2. o \in Outputs
    BY <1>4, <2>1 DEF Defaults, Outputs, CpuStates
  <2>3. Table(x, o)
    BY <1>9
       DEF StateFetchMore, Table, NextTable, CsrTable, DriveTable, TrapRequested, Defaults, NoBus, Access
  <2> QED BY <1>9, <2>2, <2>3 DEF StateFetchMore
<1>10. CASE StateDecode(x)
  <2> DEFINE c == IF x.tags /\ tagsEn THEN CAUSE_TAG_MISMATCH
                  ELSE IF x.timer THEN CAUSE_TIMER_INTERRUPT ELSE {}
  <2>1. c \in Word
    BY SMT DEF CAUSE_TAG_MISMATCH, CAUSE_TIMER_INTERRUPT, Word
  <2>2. CASE TrapRequested(x)
    <3>1. CpuClock(x, Trap(c))
      BY <1>10, <2>2 DEF StateDecode, TrapRequested
    <3>2. Trap(c) \in Outputs
      BY <1>1, <2>1, DefaultsType
    <3> HIDE DEF c
    <3>3. /\ Trap(c).next = "TRAP" /\ Trap(c).trap /\ Trap(c).csr = CsrWrite("MCAUSE", c)
          /\ ~Trap(c).bus.en /\ ~Trap(c).mret /\ ~Trap(c).aluEn /\ ~Trap(c).branch
          /\ ~Trap(c).fromCsr /\ ~Trap(c).fromBus /\ ~Trap(c).done
          /\ Trap(c).insn = insn
      BY DEF Trap, Defaults, NoBus
    <3>4. state = "DECODE"
      BY <1>10 DEF StateDecode
    <3>5. Table(x, Trap(c))
      BY <2>2, <3>3, <3>4 DEF Table, NextTable, CsrTable, DriveTable, c
    <3> QED BY <3>1, <3>2, <3>5
  <2>3. CASE ~TrapRequested(x)
    <3> DEFINE o == [Defaults EXCEPT !.next = "EXEC"]
    <3>1. CpuClock(x, o)
      BY <1>10, <2>3 DEF StateDecode, TrapRequested
    <3>2. o \in Outputs
      BY <1>4 DEF Defaults, Outputs, CpuStates
    <3>3. Table(x, o)
      BY <1>10, <2>3 DEF StateDecode, Table, NextTable, CsrTable, DriveTable, TrapRequested, Defaults, NoBus, Access
    <3> QED BY <3>1, <3>2, <3>3
  <2> QED BY <2>2, <2>3
<1>11. CASE StateExec(x)
  <2> DEFINE nx == CASE insn.stage = "FETCH"  -> "POST_EXEC"
                     [] insn.stage = "LOAD"   -> "LOAD1"
                     [] insn.stage = "STORE"  -> "STORE1"
                     [] insn.stage = "BRANCH" -> "BRANCH2"
                     [] insn.stage = "SYSTEM" -> "SYSTEM"
                     [] insn.stage = "TRAP"   -> "TRAP"
             o == [Defaults EXCEPT !.next = nx, !.done = TRUE, !.aluEn = TRUE,
                                   !.alu = insn.alu]
  <2>1. nx \in CpuStates
    BY <1>2 DEF CpuStates
  <2>2. CpuClock(x, o)
    BY <1>11 DEF StateExec
  <2>3. /\ insn.stage = "FETCH" => nx = "POST_EXEC"
        /\ insn.stage = "LOAD" => nx = "LOAD1"
        /\ insn.stage = "STORE" => nx = "STORE1"
        /\ insn.stage = "BRANCH" => nx = "BRANCH2"
        /\ insn.stage = "SYSTEM" => nx = "SYSTEM"
        /\ insn.stage = "TRAP" => nx = "TRAP"
    OBVIOUS
  <2> HIDE DEF nx
  <2>4. o \in Outputs
    BY <1>2, <1>4, <2>1 DEF Defaults, Outputs
  <2>5. Table(x, o)
    BY <1>11, <2>3
       DEF StateExec, Table, NextTable, CsrTable, DriveTable, TrapRequested, Defaults, NoBus, Access
  <2> QED BY <2>2, <2>4, <2>5
<1>12. CASE StatePostExec(x)
  <2> DEFINE o == [Defaults EXCEPT !.next = "UPDATE_PC"]
  <2>2. o \in Outputs
    BY <1>4 DEF Defaults, Outputs, CpuStates
  <2>3. Table(x, o)
    BY <1>12
       DEF StatePostExec, Table, NextTable, CsrTable, DriveTable, TrapRequested, Defaults, NoBus, Access
  <2> QED BY <1>12, <2>2, <2>3 DEF StatePostExec
<1>13. CASE StateLoad1(x)
  <2> DEFINE o == [Defaults EXCEPT !.next = "LOAD2", !.check = DataCheck,
                               !.bus = Access(insn.op, aluOut)]
  <2>1. /\ DataCheck \in BOOLEAN
        /\ Access(insn.op, aluOut) \in [en : BOOLEAN, op : BusOp, addr : Word]
    BY <1>1, <1>2, DefaultsType DEF DataCheck
  <2>2. o \in Outputs
    BY <1>4, <2>1 DEF Defaults, Outputs, CpuStates
  <2>3. Table(x, o)
    BY <1>13
       DEF StateLoad1, Table, NextTable, CsrTable, DriveTable, TrapRequested, Defaults, NoBus, Access
  <2> QED BY <1>13, <2>2, <2>3 DEF StateLoad1
<1>14. CASE StateLoad2(x)
  <2> DEFINE o == [Defaults EXCEPT !.next = "UPDATE_PC", !.fromBus = TRUE]
  <2>2. o \in Outputs
    BY <1>4 DEF Defaults, Outputs, CpuStates
  <2>3. Table(x, o)
    BY <1>14
       DEF StateLoad2, Table, NextTable, CsrTable, DriveTable, TrapRequested, Defaults, NoBus, Access
  <2> QED BY <1>14, <2>2, <2>3 DEF StateLoad2
<1>15. CASE StateStore1(x)
  <2> DEFINE o == [Defaults EXCEPT !.next = "STORE2", !.check = DataCheck,
                               !.bus = Access(insn.op, aluOut),
                               !.csr = CsrRead("MIP")]
  <2>1. /\ DataCheck \in BOOLEAN /\ CsrRead("MIP") \in CsrReq
        /\ Access(insn.op, aluOut) \in [en : BOOLEAN, op : BusOp, addr : Word]
    BY <1>1, <1>2, <1>3, DefaultsType DEF DataCheck
  <2>2. o \in Outputs
    BY <1>4, <2>1 DEF Defaults, Outputs, CpuStates
  <2>3. Table(x, o)
    BY <1>15
       DEF StateStore1, Table, NextTable, CsrTable, DriveTable, TrapRequested, Defaults, NoBus, Access
  <2> QED BY <1>15, <2>2, <2>3 DEF StateStore1
<1>16. CASE StateStore2(x)
  <2> DEFINE c == IF x.clearMip THEN CsrWrite("MIP", csrData \ {MTI}) ELSE NoCsr
             o == [Defaults EXCEPT !.next = "UPDATE_PC", !.csr = c]
  <2>1. csrData \ {MTI} \in Word
    BY <1>1 DEF Word
  <2>2. c \in CsrReq
    BY <1>1, <1>3, <1>4, <2>1, DefaultsType
  <2>3. CpuClock(x, o)
    BY <1>16 DEF StateStore2
  <2>4. c = NoCsr \/ c = CsrWrite("MIP", csrData \ {MTI})
    OBVIOUS
  <2> HIDE DEF c
  <2>5. o \in Outputs
    BY <1>4, <2>2 DEF Defaults, Outputs, CpuStates
  <2>6. Table(x, o)
    BY <1>16, <2>4
       DEF StateStore2, Table, NextTable, CsrTable, DriveTable, TrapRequested, Defaults, NoBus, Access
  <2> QED BY <2>3, <2>5, <2>6
<1>17. CASE StateBranch2(x)
  <2> DEFINE o == [Defaults EXCEPT !.next = "UPDATE_PC", !.aluEn = TRUE,
                               !.alu = insn.alu, !.branch = aluFlags]
  <2>2. o \in Outputs
    BY <1>4, <1>1, <1>2 DEF Defaults, Outputs, CpuStates
  <2>3. Table(x, o)
    BY <1>17, <1>1
       DEF StateBranch2, Table, NextTable, CsrTable, DriveTable, TrapRequested, Defaults, NoBus, Access
  <2> QED BY <1>17, <2>2, <2>3 DEF StateBranch2
<1>18. CASE StateSystem(x)
  <2>0. state = "SYSTEM"
    BY <1>18 DEF StateSystem
  <2>1. /\ CAUSE_ECALL \in Word /\ CAUSE_BREAK \in Word
        /\ CAUSE_INVALID_INSTRUCTION \in Word
    BY SMT DEF CAUSE_ECALL, CAUSE_BREAK, CAUSE_INVALID_INSTRUCTION, Word
  <2>2. ASSUME NEW c \in Word, NEW f \in BOOLEAN,
               insn.sys \in {"ECALL", "EBREAK", "INVALID"},
               /\ insn.sys = "ECALL" => c = CAUSE_ECALL
               /\ insn.sys = "EBREAK" => c = CAUSE_BREAK
               /\ insn.sys = "INVALID" => c = CAUSE_INVALID_INSTRUCTION
        PROVE  /\ Trap(c) \in Outputs /\ Table(x, Trap(c))
               /\ [Trap(c) EXCEPT !.finished = f] \in Outputs
               /\ Table(x, [Trap(c) EXCEPT !.finished = f])
    <3>1. Trap(c) \in Outputs
      BY <1>1, DefaultsType
    <3>2. [Trap(c) EXCEPT !.finished = f] \in Outputs
      BY <3>1 DEF Outputs
    <3>3. Table(x, Trap(c))
      BY <2>0, <2>2 DEF Table, NextTable, CsrTable, DriveTable, TrapRequested, Trap,
         Defaults, NoBus
    <3>4. Table(x, [Trap(c) EXCEPT !.finished = f])
      BY <2>0, <2>2 DEF Table, NextTable, CsrTable, DriveTable, TrapRequested, Trap,
         Defaults, NoBus
    <3> QED BY <3>1, <3>2, <3>3, <3>4
  <2>3. CASE insn.sys \in {"ECALL", "EBREAK", "INVALID"}
    <3>1. CASE insn.sys = "ECALL"
      <4>1. CpuClock(x, [Trap(CAUSE_ECALL) EXCEPT !.finished = insn.last])
        BY <1>18, <3>1 DEF StateSystem
      <4> QED BY <1>2, <2>1, <2>2, <3>1, <4>1
    <3>2. CASE insn.sys = "EBREAK"
      <4>1. CpuClock(x, Trap(CAUSE_BREAK))
        BY <1>18, <3>2 DEF StateSystem
      <4> QED BY <1>2, <2>1, <2>2, <3>2, <4>1
    <3>3. CASE insn.sys = "INVALID"
      <4>1. CpuClock(x, Trap(CAUSE_INVALID_INSTRUCTION))
        BY <1>18, <3>3 DEF StateSystem
      <4> QED BY <1>2, <2>1, <2>2, <3>3, <4>1
    <3> QED BY <2>3, <3>1, <3>2, <3>3
  <2>4. CASE insn.sys = "WFI"
    <3> DEFINE o == [Defaults EXCEPT !.next = "UPDATE_PC"]
    <3>1. o \in Outputs
      BY <1>4 DEF Defaults, Outputs, CpuStates
    <3>2. Table(x, o)
      BY <2>0, <2>4 DEF Table, NextTable, CsrTable, DriveTable, TrapRequested, Defaults, NoBus, Access
    <3> QED BY <1>18, <2>4, <3>1, <3>2 DEF StateSystem
  <2>5. CASE insn.sys = "MRET"
    <3> DEFINE o == [Defaults EXCEPT !.next = "MRET", !.mret = TRUE,
                                     !.csr = CsrRead("MSTATUS")]
    <3>1. CsrRead("MSTATUS") \in CsrReq
      BY <1>1, <1>3, DefaultsType
    <3>2. o \in Outputs
      BY <1>4, <3>1 DEF Defaults, Outputs, CpuStates
    <3>3. Table(x, o)
      BY <2>0, <2>5 DEF Table, NextTable, CsrTable, DriveTable, TrapRequested, Defaults, NoBus, Access
    <3> QED BY <1>18, <2>5, <3>2, <3>3 DEF StateSystem
  <2>6. CASE insn.sys \in {"CSRRW", "CSRRS", "CSRRC"}
    <3> DEFINE o == [Defaults EXCEPT !.next = "CSR1", !.csr = CsrRead(insn.csr)]
    <3>1. CsrRead(insn.csr) \in CsrReq
      BY <1>1, <1>2, DefaultsType
    <3>2. o \in Outputs
      BY <1>4, <3>1 DEF Defaults, Outputs, CpuStates
    <3>3. Table(x, o)
      BY <2>0, <2>6 DEF Table, NextTable, CsrTable, DriveTable, TrapRequested, Defaults, NoBus, Access
    <3> QED BY <1>18, <2>6, <3>2, <3>3 DEF StateSystem
  <2> QED BY <1>2, <2>3, <2>4, <2>5, <2>6
<1>19. CASE StateCsr1(x)
  <2> DEFINE o == [Defaults EXCEPT !.next = "CSR2"]
  <2>2. o \in Outputs
    BY <1>4 DEF Defaults, Outputs, CpuStates
  <2>3. Table(x, o)
    BY <1>19
       DEF StateCsr1, Table, NextTable, CsrTable, DriveTable, TrapRequested, Defaults, NoBus, Access
  <2> QED BY <1>19, <2>2, <2>3 DEF StateCsr1
<1>20. CASE StateCsr2(x)
  <2> DEFINE d == CASE insn.sys = "CSRRW" -> insn.operand
                    [] insn.sys = "CSRRS" -> csrData \cup insn.operand
                    [] insn.sys = "CSRRC" -> csrData \ insn.operand
             o == [Defaults EXCEPT !.next = "UPDATE_PC", !.csr = CsrWrite(insn.csr, d)]
  <2>1. d \in Word
    BY <1>1, <1>2, <1>20 DEF StateCsr2, CsrOpKnown, Word
  <2>2. CpuClock(x, o)
    BY <1>20 DEF StateCsr2
  <2>6. /\ insn.sys = "CSRRW" => d = insn.operand
        /\ insn.sys = "CSRRS" => d = csrData \cup insn.operand
        /\ insn.sys = "CSRRC" => d = csrData \ insn.operand
    OBVIOUS
  <2> HIDE DEF d
  <2>3. CsrWrite(insn.csr, d) \in CsrReq
    BY <1>1, <1>2, <2>1, DefaultsType
  <2>4. o \in Outputs
    BY <1>4, <2>3 DEF Defaults, Outputs, CpuStates
  <2>5. Table(x, o)
    BY <1>20, <2>1, <2>6
       DEF StateCsr2, Table, NextTable, CsrTable, DriveTable, TrapRequested, Defaults, NoBus, Access
  <2> QED BY <2>2, <2>4, <2>5
<1>21. CASE StateTrap(x)
  <2> DEFINE o == [Defaults EXCEPT !.next = "UPDATE_PC", !.fromCsr = TRUE]
  <2>2. o \in Outputs
    BY <1>4 DEF Defaults, Outputs, CpuStates
  <2>3. Table(x, o)
    BY <1>21
       DEF StateTrap, Table, NextTable, CsrTable, DriveTable, TrapRequested, Defaults, NoBus, Access
  <2> QED BY <1>21, <2>2, <2>3 DEF StateTrap
<1>22. CASE StateUpdatePc(x)
  <2> DEFINE nx == IF x.single \/ testFinished THEN "CPU_IDLE" ELSE "PRE_FETCH"
             o == [Defaults EXCEPT !.next = nx]
  <2>1. ~AddrMisaligned
    BY DEF AddrMisaligned, NextPc
  <2>2. CpuClock(x, o)
    BY <1>22, <2>1 DEF StateUpdatePc
  <2>3. nx \in {"CPU_IDLE", "PRE_FETCH"}
    OBVIOUS
  <2> HIDE DEF nx
  <2>4. o \in Outputs
    BY <1>4, <2>3 DEF Defaults, Outputs, CpuStates
  <2>5. Table(x, o)
    BY <1>22, <2>3
       DEF StateUpdatePc, Table, NextTable, CsrTable, DriveTable, TrapRequested, Defaults, NoBus, Access
  <2> QED BY <2>2, <2>4, <2>5
<1>23. CASE StateCpuIdle(x)
  <2> DEFINE nx == IF x.step THEN "PRE_FETCH" ELSE "CPU_IDLE"
             o == [Defaults EXCEPT !.next = nx]
  <2>1. CpuClock(x, o)
    BY <1>23 DEF StateCpuIdle
  <2>2. nx \in {"CPU_IDLE", "PRE_FETCH"}
    OBVIOUS
  <2> HIDE DEF nx
  <2>3. o \in Outputs
    BY <1>4, <2>2 DEF Defaults, Outputs, CpuStates
  <2>4. Table(x, o)
    BY <1>23, <2>2
       DEF StateCpuIdle, Table, NextTable, CsrTable, DriveTable, TrapRequested, Defaults, NoBus, Access
  <2> QED BY <2>1, <2>3, <2>4
<1> QED
  BY <1>5, <1>6, <1>7, <1>8, <1>9, <1>10, <1>11, <1>12, <1>13, <1>14, <1>15,
     <1>16, <1>17, <1>18, <1>19, <1>20, <1>21, <1>22, <1>23 DEF CpuTick

\* One edge of the CSR file.
LEMMA CsrStepType ==
  ASSUME CsrTypeOK, \/ CsrReset
                    \/ \E c \in CsrReq : CsrTick(c)
  PROVE  CsrTypeOK'
<1>1. CsrPort
  BY DEF CsrReset, CsrTick
<1>2. csrFile' \in [Csrs -> Word] /\ csrData' \in Word
  <2>1. Index(storedAddr) \in Csrs
    BY DEF Index, Csrs
  <2> QED BY <1>1, <2>1 DEF CsrPort, CsrTypeOK
<1>3. CASE CsrReset
  BY <1>2, <1>3 DEF CsrReset, CsrTypeOK
<1>4. ASSUME NEW c \in CsrReq, CsrTick(c) PROVE CsrTypeOK'
  <2>1. /\ c.en \in BOOLEAN /\ c.we \in BOOLEAN /\ c.addr \in CsrAddr /\ c.data \in Word
    BY DEF CsrReq
  <2>2. /\ csrBusy' \in BOOLEAN /\ csrWe' \in BOOLEAN
        /\ storedAddr' \in CsrAddr /\ storedData' \in Word
    BY <1>4, <2>1 DEF CsrTick, CsrRequest, CsrTypeOK
  <2>3. /\ irqEn' \in BOOLEAN /\ irqTimerEn' \in BOOLEAN /\ tagsEn' \in BOOLEAN
        /\ tagsIfEn' \in BOOLEAN /\ tagsSkipSp' \in BOOLEAN
        /\ tagsIrqClear' \in BOOLEAN
    <3>1. /\ irqEn' = IF c.we /\ c.addr = "MSTATUS" THEN MIE \in c.data ELSE irqEn
          /\ irqTimerEn' = IF c.we /\ c.addr = "MIE" THEN MTI \in c.data ELSE irqTimerEn
          /\ tagsEn' = IF c.we /\ c.addr = "MTAGS" THEN LSEN \in c.data ELSE tagsEn
          /\ tagsIfEn' = IF c.we /\ c.addr = "MTAGS" THEN ICEN \in c.data ELSE tagsIfEn
          /\ tagsSkipSp' = IF c.we /\ c.addr = "MTAGS" THEN SKIP_SP \in c.data
                           ELSE tagsSkipSp
          /\ tagsIrqClear' = (c.addr = "MTAGS" /\ IACK \in c.data)
      BY <1>4 DEF CsrTick, CsrShadows
    <3>2. \A b : (b \in c.data) \in BOOLEAN
      OBVIOUS
    <3>3. /\ irqEn \in BOOLEAN /\ irqTimerEn \in BOOLEAN /\ tagsEn \in BOOLEAN
          /\ tagsIfEn \in BOOLEAN /\ tagsSkipSp \in BOOLEAN
      BY DEF CsrTypeOK
    <3>4. (c.addr = "MTAGS" /\ IACK \in c.data) \in BOOLEAN
      OBVIOUS
    <3>5. irqEn' \in BOOLEAN
      BY <3>1, <3>2, <3>3, Zenon
    <3>6. irqTimerEn' \in BOOLEAN
      BY <3>1, <3>2, <3>3, Zenon
    <3>7. tagsEn' \in BOOLEAN /\ tagsIfEn' \in BOOLEAN
      BY <3>1, <3>2, <3>3, Zenon
    <3>8. tagsSkipSp' \in BOOLEAN /\ tagsIrqClear' \in BOOLEAN
      BY <3>1, <3>2, <3>3, <3>4, Zenon
    <3> QED BY <3>5, <3>6, <3>7, <3>8
  <2> QED BY <1>2, <2>2, <2>3 DEF CsrTypeOK
<1> QED BY <1>3, <1>4

\* Whoever drives the CSR port presents a request of its type.
LEMMA CsrMuxType ==
  ASSUME CpuTypeOK, NEW c \in CsrReq
  PROVE  CsrMux(c) \in CsrReq
<1>1. csrData \in Word /\ pc \in Word
  BY DEF CpuTypeOK, CsrTypeOK
<1>2. /\ (csrData \ {MIE, MPIE}) \cup {b \in {MPIE} : MIE \in csrData} \in Word
      /\ csrData \cup {MTI} \in Word
      /\ (csrData \ {MIE}) \cup {b \in {MIE} : MPIE \in csrData} \in Word
  <2>1. MIE \in 0..31 /\ MPIE \in 0..31 /\ MTI \in 0..31
    BY SMT DEF MIE, MPIE, MTI
  <2> QED BY <1>1, <2>1, Zenon DEF Word
<1>3. /\ "MSTATUS" \in CsrAddr /\ "MEPC" \in CsrAddr /\ "MTVAL" \in CsrAddr
      /\ "MIP" \in CsrAddr /\ "MTVEC" \in CsrAddr
  BY DEF CsrAddr, Csrs
<1>4. HandlingTrap => TrapCsr \in CsrReq
  <2>1. HandlingTrap => trapState \in {"LOAD_STATUS", "STORE_STATUS", "STORE_EPC",
                              "STORE_TVAL", "LOAD_MIP", "STORE_MIP", "LOAD_TVEC"}
    BY DEF HandlingTrap, CpuTypeOK
  <2>2. /\ CsrRead("MSTATUS") \in CsrReq /\ CsrRead("MIP") \in CsrReq
        /\ CsrRead("MTVEC") \in CsrReq /\ CsrWrite("MEPC", pc) \in CsrReq
        /\ CsrWrite("MTVAL", pc) \in CsrReq
        /\ CsrWrite("MIP", csrData \cup {MTI}) \in CsrReq
        /\ CsrWrite("MSTATUS", (csrData \ {MIE, MPIE})
                                 \cup {b \in {MPIE} : MIE \in csrData}) \in CsrReq
    BY <1>1, <1>2, <1>3, DefaultsType
  <2> QED BY <2>1, <2>2 DEF TrapCsr
<1>5. HandlingMret => MretCsr \in CsrReq
  <2>1. HandlingMret => mretState \in {"STORE_STATUS", "LOAD_EPC"}
    BY DEF HandlingMret, CpuTypeOK
  <2>2. /\ CsrRead("MEPC") \in CsrReq
        /\ CsrWrite("MSTATUS", (csrData \ {MIE})
                                 \cup {b \in {MIE} : MPIE \in csrData}) \in CsrReq
    BY <1>1, <1>2, <1>3, DefaultsType
  <2> QED BY <2>1, <2>2 DEF MretCsr
<1> QED BY <1>4, <1>5 DEF CsrMux

\* One edge of the CPU.
LEMMA CpuStepType ==
  ASSUME CpuTypeOK, NEW x \in Pins, x.ack = ack, ack \in BOOLEAN,
         NEW o \in Outputs, CpuClock(x, o)
  PROVE  CpuTypeOK'
<1>1. /\ o.next \in CpuStates /\ o.csr \in CsrReq /\ o.bus.en \in BOOLEAN
      /\ o.bus.op \in BusOp /\ o.bus.addr \in Word /\ o.check \in BOOLEAN
      /\ o.aluEn \in BOOLEAN /\ o.alu \in Word /\ o.branch \in BOOLEAN
      /\ o.fromCsr \in BOOLEAN /\ o.fromBus \in BOOLEAN /\ o.done \in BOOLEAN
      /\ o.insn \in Insn /\ o.finished \in BOOLEAN
  BY DEF Outputs
<1>2. x.dat \in Word /\ x.rst \in BOOLEAN
  BY DEF Pins
<1>3. CsrTypeOK'
  <2>1. CsrReset \/ CsrTick(CsrMux(o.csr))
    BY DEF CpuClock
  <2> QED BY <1>1, <2>1, CsrMuxType, CsrStepType DEF CpuTypeOK
<1>4. BusTypeOK'
  <2>1. insn.data \in Word
    BY DEF CpuTypeOK, Insn
  <2>2. BusTick(o.bus.en, o.bus.op, o.bus.addr, insn.data, ack, x.dat)
    BY DEF CpuClock
  <2> QED BY <1>1, <1>2, <2>1, <2>2, BusTickType DEF CpuTypeOK
<1>5. NextPc \in Word
  BY DEF NextPc, CpuTypeOK, CsrTypeOK, Word
<1>6. /\ state' \in CpuStates /\ pc' \in Word /\ pcnext' \in Word /\ insn' \in Insn
      /\ wbFromBus' \in BOOLEAN /\ branchFromAlu' \in BOOLEAN
      /\ nextFromCsr' \in BOOLEAN /\ check' \in BOOLEAN /\ execDone' \in BOOLEAN
      /\ testFinished' \in BOOLEAN
  <2>1. MainRegisters(x, o)
    BY DEF CpuClock
  <2>2. "RESET" \in CpuStates /\ {} \in Word
    BY DEF CpuStates, Word
  <2>3. CASE x.rst
    BY <2>1, <2>2, <2>3, CpuAssumption DEF MainRegisters, CpuTypeOK
  <2>4. CASE ~x.rst
    BY <1>1, <1>5, <2>1, <2>4 DEF MainRegisters, CpuTypeOK
  <2> QED BY <2>3, <2>4
<1>7. /\ trapState' \in {"RESET", "IDLE", "LOAD_STATUS", "STORE_STATUS", "STORE_EPC",
                         "STORE_TVAL", "LOAD_MIP", "STORE_MIP", "LOAD_TVEC"}
      /\ mretState' \in {"RESET", "IDLE", "STORE_STATUS", "LOAD_EPC"}
  BY DEF CpuClock, Sequencers, NextTrapState, NextMretState, CpuTypeOK
<1>8. aluOut' \in Word /\ aluBusy' \in BOOLEAN /\ aluFlags' \in BOOLEAN
  <2>1. Alu(x, o) /\ insn.taken \in BOOLEAN
    BY DEF CpuClock, CpuTypeOK, Insn
  <2> QED BY <1>1, <2>1 DEF Alu, CpuTypeOK
<1> QED BY <1>3, <1>4, <1>6, <1>7, <1>8 DEF CpuTypeOK

-----------------------------------------------------------------------------
(* One clock edge of CPU and RAM. *)

\* The main machine drives o, and the CPU's pins x carry what the RAM answers.
Edge(x, o) ==
  /\ x \in Pins /\ o \in Outputs
  /\ x.tags = irq /\ x.ack = ack /\ x.dat = RamDataOut(RamPins)
  /\ CpuClock(x, o) /\ Table(x, o)
  /\ RamTick(RamPins)

\* The bus master's part of an edge is the clock of BusRam.
LEMMA EdgeBus ==
  ASSUME NEW x, NEW o, Edge(x, o)
  PROVE  BusRamTick(o.bus.en, o.bus.op, o.bus.addr, insn.data, check, tagsIrqClear)
BY DEF Edge, CpuClock, BusRamTick, RamPins

\* Every tick is such an edge, under the pins some host drives.
LEMMA TickEdge ==
  ASSUME TypeOK, CsrOpKnown, Tick
  PROVE  \E host \in HostPins : \E x, o :
           Edge(x, o) /\ x.halt = host.halt /\ x.rst = host.rst
<1>1. PICK timer \in TimerLevels, host \in HostPins :
        CpuTick(CpuPins(timer, host)) /\ RamTick(RamPins)
  BY DEF Tick
<1> DEFINE x == CpuPins(timer, host)
<1>2. x \in Pins
  <2>1. RamDataOut(RamPins) \in Word
    BY RamDataOutType DEF RamPins, TypeOK, CpuTypeOK, CsrTypeOK
  <2>2. irq \in BOOLEAN /\ ack \in BOOLEAN
    BY DEF TypeOK, RamTypeOK
  <2>3. TimerCmpAccessed \in BOOLEAN
    BY DEF TimerCmpAccessed
  <2>4. timer \in BOOLEAN /\ host \in [halt : BOOLEAN, single : BOOLEAN, step : BOOLEAN,
                                       rst : BOOLEAN]
    BY CoreAssumption
  <2> QED BY <2>1, <2>2, <2>3, <2>4 DEF CpuPins, Pins
<1>3. /\ x.tags = irq /\ x.ack = ack /\ x.dat = RamDataOut(RamPins)
      /\ x.halt = host.halt /\ x.rst = host.rst
  BY DEF CpuPins
<1> HIDE DEF x
<1>4. PICK o \in Outputs : CpuClock(x, o) /\ Table(x, o)
  BY <1>1, <1>2, OutputsType DEF x
<1>5. Edge(x, o)
  BY <1>1, <1>2, <1>3, <1>4 DEF Edge
<1> QED BY <1>3, <1>5

\* An edge keeps the types.
LEMMA EdgeType ==
  ASSUME TypeOK, CsrOpKnown, NEW x, NEW o, Edge(x, o)
  PROVE  TypeOK' /\ CsrOpKnown'
<1>1. CpuTypeOK'
  BY CpuStepType DEF Edge, TypeOK, RamTypeOK
<1>2. RamTypeOK'
  <2>1. /\ o.bus.en \in BOOLEAN /\ o.bus.op \in BusOp /\ o.bus.addr \in Word
    BY DEF Edge, Outputs
  <2>2. insn.data \in Word /\ check \in BOOLEAN /\ tagsIrqClear \in BOOLEAN
    BY DEF TypeOK, CpuTypeOK, CsrTypeOK, Insn
  <2>3. RamTypeOK /\ BusTypeOK
    BY DEF TypeOK, CpuTypeOK
  <2> QED BY <2>1, <2>2, <2>3, EdgeBus, ClockType
<1>3. CsrOpKnown'
  <2>1. MainRegisters(x, o) /\ NextTable(x, o) /\ DriveTable(x, o)
    BY DEF Edge, CpuClock, Table
  <2>2. insn.sys \in {"ECALL", "EBREAK", "WFI", "MRET", "INVALID", "CSRRW", "CSRRS",
                      "CSRRC"}
        /\ insn.stage \in {"FETCH", "LOAD", "STORE", "BRANCH", "SYSTEM", "TRAP"}
        /\ state \in CpuStates
    BY DEF TypeOK, CpuTypeOK, Insn
  <2>3. CASE x.rst
    BY <2>1, <2>3 DEF MainRegisters, CsrOpKnown
  <2>4. CASE ~x.rst
    <3>1. state' = (IF Stalled(x) THEN state ELSE o.next)
          /\ insn' = (IF Stalled(x) THEN insn ELSE o.insn)
      BY <2>1, <2>4 DEF MainRegisters
    <3>2. o.next \in {"CSR1", "CSR2"} => /\ insn.sys \in {"CSRRW", "CSRRS", "CSRRC"}
                                         /\ o.insn = insn
      BY <2>1, <2>2 DEF NextTable, DriveTable, TrapRequested, CsrOpKnown, CpuStates
    <3> QED BY <3>1, <3>2 DEF CsrOpKnown
  <2> QED BY <2>3, <2>4
<1> QED BY <1>1, <1>2, <1>3 DEF TypeOK

\* The type invariant with the one fact about the decoder that it needs.
LEMMA TypesInit == Init => TypeOK /\ CsrOpKnown
<1> SUFFICES ASSUME Init PROVE TypeOK /\ CsrOpKnown
  OBVIOUS
<1>1. RamTypeOK
  BY DEF Init, RamTypeOK, Word, Tag
<1>2. {} \in Word /\ ResetPc \in Word
  BY CpuAssumption DEF Word
<1>3. CsrTypeOK
  BY <1>2 DEF Init, CpuInit, CsrInit, CsrTypeOK, CsrAddr
<1>4. BusTypeOK
  BY <1>2 DEF Init, CpuInit, BusTypeOK, BusOp, ReadOp
<1>5. Nop \in Insn
  BY <1>2 DEF Nop, Insn, BusOp, ReadOp, CsrAddr
<1>6. CpuTypeOK
  BY <1>2, <1>3, <1>4, <1>5 DEF Init, CpuInit, CpuTypeOK, CpuStates
<1> QED BY <1>1, <1>6 DEF TypeOK, CsrOpKnown, Init, CpuInit

LEMMA TypesStep ==
  ASSUME TypeOK, CsrOpKnown, [Tick]_vars
  PROVE  TypeOK' /\ CsrOpKnown'
<1>1. CASE Tick
  BY <1>1, TickEdge, EdgeType
<1>2. CASE UNCHANGED vars
  BY <1>2 DEF vars, coreVars, csrVars, busVars, ramVars, TypeOK, CpuTypeOK, CsrTypeOK,
     BusTypeOK, RamTypeOK, CsrOpKnown
<1> QED BY <1>1, <1>2

LEMMA CoreTypes == Spec => [](TypeOK /\ CsrOpKnown)
<1>1. TypeOK /\ CsrOpKnown /\ [Tick]_vars => TypeOK' /\ CsrOpKnown'
  BY TypesStep
<1> QED BY <1>1, TypesInit, PTL DEF Spec

\* The main machine and the sequencers stay within their states (no case of
\* cpu.v falls through to STATE_DEAD, no csr instruction is left without its
\* operation), and every register of CPU and RAM keeps its width, whatever
\* the program, the timer and the host do.
THEOREM CoreTypeCorrect == Spec => []TypeOK
BY CoreTypes, PTL

-----------------------------------------------------------------------------
(* The inductive invariants of CPU and RAM, and what follows from them.    *)
(* The host may single-step and reset the CPU at any tick but does not     *)
(* pull the halt pin: what a halt does to a branch is a finding.           *)

NeverHalted == \A host \in HostPins : ~host.halt
NeverReset == \A host \in HostPins : ~host.rst

\* What decoder.v keeps to, its rejected encodings included: the multi-cycle
\* operations and the write-back of the ALU's result or an immediate belong
\* to the instructions that go through POST_EXEC, and a branch does not use
\* exec_next_pc_from_alu.
DecoderKeeps == \A i \in Insns :
  /\ i.slow \/ i.writeback => i.stage \in {"FETCH", "TRAP"}
  /\ i.stage = "BRANCH" => ~i.pcFromAlu

\* The program holds no encoding that the decoder rejects with EXEC_TO_TRAP:
\* the CPU enters TRAP for those without a trap, and goes on at whatever the
\* CSR port last presented.
LegalInsns == \A i \in Insns : i.stage # "TRAP"

-----------------------------------------------------------------------------
(* Who may be busy in which state. *)

\* The sequencers run only while the main machine waits for them.
Waiting ==
  /\ HandlingTrap => state = "TRAP"
  /\ HandlingMret => state = "MRET"
  /\ state # "RESET" => trapState # "RESET" /\ mretState # "RESET"
  /\ aluBusy => state \in {"POST_EXEC", "TRAP"}
  /\ csrBusy => state \in {"TRAP", "MRET", "STORE2", "CSR1", "UPDATE_PC"}
  /\ csrWe => csrBusy
  /\ busy => state \in {"RESET", "FETCH", "FETCH_MORE", "LOAD2", "STORE2"}

\* States in which no access is under way in the RAM, and no comparison of
\* tags is.
AccessStates == {"RESET", "FETCH", "FETCH_MORE", "LOAD2", "STORE2"}
SettledStates == CpuStates \ (AccessStates \cup {"PRE_FETCH", "UPDATE_PC"})

\* The memory path is where the state of the CPU expects it.
Phases ==
  /\ Handshake
  /\ state \notin AccessStates => Quiet
  /\ state \in {"FETCH", "FETCH_MORE"} => IF busy THEN busOp = "READW" ELSE Quiet
  /\ state \in SettledStates => ~tagMismatch

\* The instruction the decoder shows fits the state.
Dispatched ==
  /\ insn \in Insns \cup {Nop}
  /\ state \in {"LOAD1", "LOAD2"} => insn.stage = "LOAD"
  /\ state \in {"STORE1", "STORE2"} => insn.stage = "STORE"
  /\ state = "BRANCH2" => insn.stage = "BRANCH"
  /\ state = "POST_EXEC" => insn.stage = "FETCH"
  /\ state \in {"SYSTEM", "CSR1", "CSR2", "MRET"} => insn.stage = "SYSTEM"
  /\ state = "TRAP" /\ execDone =>
       \/ insn.stage = "TRAP"
       \/ insn.stage = "SYSTEM" /\ insn.sys \in {"ECALL", "EBREAK", "INVALID"}

\* exec_done, writeback_from_bus and next_addr_from_csr by state.
Flags ==
  /\ state \in {"FETCH", "PREPAIR_UNALIGNED_FETCH", "FETCH_MORE", "DECODE", "EXEC"}
       => ~execDone
  /\ state \in {"POST_EXEC", "LOAD1", "LOAD2", "STORE1", "STORE2", "BRANCH2", "SYSTEM",
                "CSR1", "CSR2", "MRET"} => execDone
  /\ state # "UPDATE_PC" => ~nextFromCsr /\ ~wbFromBus
  /\ state = "UPDATE_PC" /\ nextFromCsr =>
       ~wbFromBus /\ (execDone => insn.stage \in {"SYSTEM", "TRAP"})

\* The acknowledge pulse is up only together with the write of tags that
\* causes it.
Acknowledging ==
  tagsIrqClear => /\ state = "UPDATE_PC" /\ ~tagMismatch
                  /\ csrWe /\ storedAddr = "MTAGS" /\ IACK \in storedData
                  /\ insn.stage = "SYSTEM" /\ insn.csr = "MTAGS"

\* The decision of a branch on its way to UPDATE_PC.
BranchPending ==
  /\ state = "BRANCH2" => aluFlags = insn.taken
  /\ state = "UPDATE_PC" /\ insn.stage = "BRANCH" /\ ~nextFromCsr =>
       /\ branchFromAlu = insn.taken /\ aluOut = insn.alu
       /\ ~csrBusy

\* With interrupts on, DECODE lets an instruction pass only if no violation
\* is pending.
Unpended == state = "EXEC" /\ irqEn => ~irq

ControlInv == /\ Waiting /\ Phases /\ Dispatched /\ Flags /\ Acknowledging
              /\ BranchPending /\ Unpended

-----------------------------------------------------------------------------
(* The CSR file. *)

\* What a register holds once the write that is under way has been done.
Settled(r) == IF csrWe /\ Index(storedAddr) = r THEN storedData ELSE csrFile[r]

SettingStatus == "STORE_STATUS" \in {trapState, mretState}

\* No shadow register is set without its bit: what also survives a reset in
\* the middle of a write.
ShadowsHold ==
  /\ irqEn => SettingStatus \/ MIE \in Settled("MSTATUS")
  /\ irqTimerEn => MTI \in Settled("MIE")
  /\ tagsEn => LSEN \in Settled("MTAGS")
  /\ tagsIfEn => ICEN \in Settled("MTAGS")
  /\ tagsSkipSp <=> SKIP_SP \in Settled("MTAGS")

\* The shadow registers say what the file will hold after the write.
ShadowsFollow ==
  /\ ~SettingStatus => (irqEn <=> MIE \in Settled("MSTATUS"))
  /\ irqTimerEn <=> MTI \in Settled("MIE")
  /\ tagsEn <=> LSEN \in Settled("MTAGS")
  /\ tagsIfEn <=> ICEN \in Settled("MTAGS")
  /\ tagsSkipSp <=> SKIP_SP \in Settled("MTAGS")

-----------------------------------------------------------------------------
(* One edge preserves the invariant. *)

\* The equations of the registers, out of reset and in it.
RegisterEqs(x, o) ==
  /\ x.rst \in BOOLEAN
  /\ x.rst => /\ state' = "RESET" /\ wbFromBus' = FALSE /\ nextFromCsr' = FALSE
              /\ execDone' = FALSE /\ insn' = insn /\ aluBusy' = FALSE
              /\ trapState' = "RESET" /\ mretState' = "RESET"
              /\ csrBusy' = FALSE /\ csrWe' = FALSE /\ tagsIrqClear' = FALSE
  /\ ~x.rst =>
       /\ state' = (IF Stalled(x) THEN state ELSE o.next)
       /\ insn' = (IF Stalled(x) THEN insn ELSE o.insn)
       /\ wbFromBus' = (IF Stalled(x) THEN wbFromBus ELSE o.fromBus)
       /\ nextFromCsr' = (IF Stalled(x) THEN nextFromCsr ELSE o.fromCsr)
       /\ execDone' = (IF state \notin {"PRE_FETCH", "EXEC"} THEN execDone ELSE o.done)
       /\ aluBusy' \in (IF insn.slow /\ (state = "EXEC" \/ aluBusy)
                        THEN BOOLEAN ELSE {FALSE})
       /\ trapState' = (IF csrBusy THEN trapState ELSE NextTrapState(x, o.trap))
       /\ mretState' = (IF csrBusy THEN mretState ELSE NextMretState(o.mret))
       /\ CsrTick(CsrMux(o.csr))

\* The registers of the main machine after an edge.
LEMMA EdgeRegisters ==
  ASSUME NEW x, NEW o, Edge(x, o)
  PROVE  RegisterEqs(x, o)
BY DEF RegisterEqs, Edge, Pins, CpuClock, MainRegisters, Sequencers, Alu, CsrReset

\* What the table says of the current edge, with the ranges it is read by.
TableFacts(x, o) ==
  /\ state \in CpuStates /\ NextTable(x, o) /\ CsrTable(x, o) /\ DriveTable(x, o)
  /\ insn.stage \in {"FETCH", "LOAD", "STORE", "BRANCH", "SYSTEM", "TRAP"}
  /\ insn.sys \in {"ECALL", "EBREAK", "WFI", "MRET", "INVALID", "CSRRW", "CSRRS", "CSRRC"}

\* What the truth tables say of the edge at hand.
LEMMA TableRead ==
  ASSUME TypeOK, NEW x, NEW o, Edge(x, o)
  PROVE  TableFacts(x, o)
BY DEF TypeOK, CpuTypeOK, Edge, Table, Insn, TableFacts

\* The port of the CSR file is requested only by a sequencer or by the five
\* states of the main machine that do so.
LEMMA PortUsed ==
  ASSUME TypeOK, NEW x, NEW o, Edge(x, o), CsrMux(o.csr).en,
         ~HandlingTrap, ~HandlingMret
  PROVE  /\ CsrMux(o.csr) = o.csr
         /\ \/ state \in {"STORE1", "STORE2", "CSR2"}
            \/ state \in {"DECODE", "SYSTEM"} /\ TrapRequested(x)
            \/ state = "SYSTEM" /\ insn.sys \in {"MRET", "CSRRW", "CSRRS", "CSRRC"}
<1>1. CsrMux(o.csr) = o.csr
  BY DEF CsrMux
<1>2. CsrTable(x, o) /\ state \in CpuStates
  BY DEF Edge, Table, TypeOK, CpuTypeOK
<1>3. ~NoCsr.en
  BY DEF NoCsr
<1>4. insn.sys \in {"ECALL", "EBREAK", "WFI", "MRET", "INVALID", "CSRRW", "CSRRS", "CSRRC"}
  BY DEF TypeOK, CpuTypeOK, Insn
<1> QED BY <1>1, <1>2, <1>3, <1>4 DEF CsrTable, CpuStates, TrapRequested

\* Nobody uses the port in this tick.
LEMMA PortIdle ==
  ASSUME TypeOK, CsrTick(NoCsr), csrWe => csrBusy
  PROVE  /\ csrBusy' = FALSE /\ csrWe' = FALSE /\ tagsIrqClear' = FALSE
         /\ storedAddr' = storedAddr /\ storedData' = storedData
         /\ irqEn' = irqEn /\ irqTimerEn' = irqTimerEn /\ tagsEn' = tagsEn
         /\ tagsIfEn' = tagsIfEn /\ tagsSkipSp' = tagsSkipSp
<1>1. /\ NoCsr.en = FALSE /\ NoCsr.we = FALSE /\ NoCsr.addr = "NONE" /\ NoCsr.data = {}
  BY DEF NoCsr
<1>2. csrWe \in BOOLEAN /\ csrBusy \in BOOLEAN
  BY DEF TypeOK, CpuTypeOK, CsrTypeOK
<1> QED BY <1>1, <1>2 DEF CsrTick, CsrRequest, CsrShadows

\* The sequencers and the busy flags stay with the states that wait for them.
LEMMA WaitingStep ==
  ASSUME TypeOK, CsrOpKnown, DecoderKeeps, Waiting, Dispatched,
         NEW x, NEW o, Edge(x, o), ~x.halt
  PROVE  Waiting'
<1>1. CASE x.rst
  <2>1. busy' => state' = "RESET"
    BY <1>1, EdgeRegisters DEF RegisterEqs
  <2> QED BY <1>1, <2>1, EdgeRegisters DEF RegisterEqs, Waiting, HandlingTrap, HandlingMret
<1>2. CASE ~x.rst
  <2> USE <1>2, EdgeRegisters DEF RegisterEqs
  <2>1. state \in CpuStates /\ NextTable(x, o) /\ DriveTable(x, o)
    BY DEF TypeOK, CpuTypeOK, Edge, Table
  <2>2. insn.stage \in {"FETCH", "LOAD", "STORE", "BRANCH", "SYSTEM", "TRAP"}
    BY DEF TypeOK, CpuTypeOK, Insn
  <2>3. /\ HandlingTrap' => state' = "TRAP"
        /\ state' # "RESET" => trapState' # "RESET"
    BY <2>1, <2>2 DEF Waiting, HandlingTrap, HandlingMret, NextTrapState, Stalled,
       NextTable, DriveTable, TrapRequested, TypeOK, CpuTypeOK
  <2>4. /\ HandlingMret' => state' = "MRET"
        /\ state' # "RESET" => mretState' # "RESET"
    BY <2>1, <2>2 DEF Waiting, HandlingTrap, HandlingMret, NextMretState, Stalled,
       NextTable, DriveTable, TrapRequested, TypeOK, CpuTypeOK
  <2>5. aluBusy' => state' \in {"POST_EXEC", "TRAP"}
    <3>1. insn.slow => insn.stage \in {"FETCH", "TRAP"}
      BY DEF Dispatched, DecoderKeeps, Nop
    <3> QED BY <2>1, <2>2, <3>1 DEF Waiting, Stalled, NextTable, HandlingTrap, HandlingMret
  <2>6. csrBusy' => state' \in {"TRAP", "MRET", "STORE2", "CSR1", "UPDATE_PC"}
    <3>1. csrBusy' = (CsrMux(o.csr).en /\ ~csrBusy)
      BY DEF CsrTick, CsrRequest
    <3>2. CASE HandlingTrap \/ HandlingMret
      BY <3>2 DEF Waiting, Stalled
    <3>3. CASE ~HandlingTrap /\ ~HandlingMret
      BY <2>1, <3>1, <3>3, PortUsed DEF Waiting, Stalled, NextTable, TrapRequested
    <3> QED BY <3>2, <3>3
  <2>7. csrWe' => csrBusy'
    BY DEF Waiting, CsrTick, CsrRequest
  <2>8. busy' => state' \in {"RESET", "FETCH", "FETCH_MORE", "LOAD2", "STORE2"}
    <3>1. busy' = (~ack /\ (o.bus.en \/ busy))
      BY EdgeBus DEF BusRamTick, BusTick
    <3> QED BY <2>1, <3>1 DEF Waiting, Stalled, NextTable, DriveTable, HandlingTrap, HandlingMret
  <2> QED BY <2>3, <2>4, <2>5, <2>6, <2>7, <2>8 DEF Waiting
<1> QED BY <1>1, <1>2

\* The bus master and the RAM stay in step with the CPU.
LEMMA PhasesStep ==
  ASSUME TypeOK, CsrOpKnown, Waiting, Phases, NEW x, NEW o, Edge(x, o), ~x.halt
  PROVE  Phases'
<1>1. /\ state \in CpuStates /\ NextTable(x, o) /\ DriveTable(x, o)
      /\ insn.stage \in {"FETCH", "LOAD", "STORE", "BRANCH", "SYSTEM", "TRAP"}
      /\ insn.sys \in {"ECALL", "EBREAK", "WFI", "MRET", "INVALID", "CSRRW", "CSRRS", "CSRRC"}
  BY DEF TypeOK, CpuTypeOK, Edge, Table, Insn
<1>2. /\ o.bus.en \in BOOLEAN /\ o.bus.op \in BusOp /\ o.bus.addr \in Word
      /\ check \in BOOLEAN /\ tagsIrqClear \in BOOLEAN
  BY DEF Edge, Outputs, TypeOK, CpuTypeOK, CsrTypeOK
<1>3. o.bus.en => ~busy
  BY <1>1 DEF DriveTable, Waiting
<1>4. RamTypeOK /\ BusTypeOK /\ Handshake
  BY DEF TypeOK, CpuTypeOK, Phases
<1>5. BusRamTick(o.bus.en, o.bus.op, o.bus.addr, insn.data, check, tagsIrqClear)
  BY EdgeBus
<1>6. Handshake'
  BY <1>2, <1>3, <1>4, <1>5, ClockHandshake
<1> DEFINE i == RamInputs(check, tagsIrqClear)
<1>7. /\ i.cyc = cyc /\ i.we = we /\ i.sel = sel /\ i.check = check
      /\ RamIdle(i) \/ RamWriteWord \/ RamStop(i)
      /\ busOp' = (IF o.bus.en THEN o.bus.op ELSE busOp)
      /\ cyc' = (~ack /\ (o.bus.en \/ cyc))
  BY <1>5 DEF RamInputs, BusRamTick, RamTick, BusTick
<1> HIDE DEF i
<1>8. ramState = "IDLE" => ~tagMismatch'
  BY <1>7 DEF RamIdle, RamWriteWord, RamStop
<1>9. Quiet /\ ~o.bus.en => Quiet'
  BY <1>7 DEF RamIdle, RamWriteWord, RamStop, Quiet
<1>10. WritingBack /\ ~o.bus.en => Quiet'
  BY <1>7 DEF RamIdle, RamWriteWord, RamStop, Quiet, WritingBack
<1>11. Acknowledged /\ busOp = "READW" /\ ~o.bus.en => Quiet'
  <2>1. Acknowledged /\ busOp = "READW" => ramState = "STOP" /\ ack
    <3>1. Acknowledged /\ busOp = "READW" => ~we
      BY <1>4 DEF Handshake, Acknowledged, WriteOp, BusTypeOK
    <3> QED BY <3>1 DEF Acknowledged
  <2> QED BY <1>7, <2>1 DEF RamIdle, RamWriteWord, RamStop, Quiet
<1>12. ~busy => Quiet \/ WritingBack
  BY <1>4 DEF Handshake, Quiet, Requested, Acknowledged, WritingBack
<1>13. CASE x.rst
  <2>1. state' = "RESET"
    BY <1>13, EdgeRegisters DEF RegisterEqs
  <2> QED BY <1>6, <2>1 DEF Phases, AccessStates, SettledStates
<1>14. CASE ~x.rst
  <2>1. state' = (IF Stalled(x) THEN state ELSE o.next)
    BY <1>14, EdgeRegisters DEF RegisterEqs
  <2>2. Stalled(x) => \/ busy /\ state \in AccessStates
                      \/ state \in {"TRAP", "MRET", "STORE2", "CSR1", "UPDATE_PC", "POST_EXEC"}
    BY DEF Stalled, Waiting, AccessStates
  <2>3. state' \notin AccessStates => Quiet'
    BY <1>1, <1>9, <1>10, <1>12, <2>1, <2>2
       DEF Phases, AccessStates, NextTable, DriveTable, Waiting, Stalled, CpuStates, TrapRequested
  <2>4. state' \in {"FETCH", "FETCH_MORE"} => IF busy' THEN busOp' = "READW" ELSE Quiet'
    <3>1. CASE Stalled(x) /\ state \in {"FETCH", "FETCH_MORE"}
      <4>1. busy /\ busOp = "READW" /\ ~o.bus.en
        BY <1>1, <2>2, <3>1 DEF DriveTable, Phases
      <4>2. busOp' = "READW"
        BY <1>7, <4>1
      <4>3. ~busy' => Acknowledged
        BY <1>4, <1>5, <4>1 DEF BusRamTick, BusTick, Handshake, Quiet, Requested, WritingBack,
           Acknowledged
      <4> QED BY <1>11, <4>1, <4>2, <4>3
    <3>2. CASE ~Stalled(x)
      <4>1. o.next \in {"FETCH", "FETCH_MORE"} => state \in {"PRE_FETCH", "PREPAIR_UNALIGNED_FETCH"}
        BY <1>1 DEF NextTable, CpuStates, TrapRequested
      <4>2. state \in {"PRE_FETCH", "PREPAIR_UNALIGNED_FETCH"} =>
              o.bus.en /\ o.bus.op = "READW" /\ Quiet
        BY <1>1 DEF DriveTable, Access, Phases, AccessStates
      <4>3. o.bus.en /\ Quiet => busy'
        BY <1>5 DEF BusRamTick, BusTick, Quiet
      <4> QED BY <1>7, <2>1, <3>2, <4>1, <4>2, <4>3
    <3> QED BY <2>1, <3>1, <3>2
  <2>5. state' \in SettledStates => ~tagMismatch'
    <3>1. state' \in SettledStates => ramState = "IDLE"
      <4>1. Quiet => ramState = "IDLE"
        BY DEF Quiet
      <4>2. Stalled(x) /\ state \in SettledStates => Quiet
        BY DEF Phases, SettledStates
      <4>3. ~Stalled(x) /\ o.next \in SettledStates => Quiet
        BY <1>1 DEF NextTable, Phases, SettledStates, AccessStates, CpuStates, TrapRequested, Stalled
      <4> QED BY <2>1, <4>1, <4>2, <4>3
    <3> QED BY <1>8, <3>1
  <2> QED BY <1>6, <2>3, <2>4, <2>5 DEF Phases
<1> QED BY <1>13, <1>14

\* The instruction stays the one DECODE dispatched until it retires.
LEMMA DispatchedStep ==
  ASSUME TypeOK, CsrOpKnown, Waiting, Dispatched, Flags, NEW x, NEW o, Edge(x, o), ~x.halt
  PROVE  Dispatched'
<1>a. RegisterEqs(x, o)
  BY EdgeRegisters
<1>b. TableFacts(x, o)
  BY TableRead
<1>1. CASE x.rst
  BY <1>1, <1>a DEF RegisterEqs, Dispatched
<1>2. CASE ~x.rst
  <2> USE <1>2, <1>a, <1>b DEF RegisterEqs, TableFacts
  <2>1. (insn \in Insns \cup {Nop})'
    BY DEF DriveTable, Dispatched
  <2>2. CASE Stalled(x)
    <3>1. state \notin {"PRE_FETCH", "EXEC"}
      BY <2>2 DEF Waiting, Stalled
    <3> QED BY <2>1, <2>2, <3>1 DEF Dispatched
  <2>3. CASE ~Stalled(x)
    <3>1. state # "FETCH" => insn' = insn
      BY <2>3 DEF DriveTable
    <3>2. state = "FETCH" => state' \in {"PREPAIR_UNALIGNED_FETCH", "DECODE"}
      BY <2>3 DEF NextTable
    <3>3. /\ state' \in {"LOAD1", "LOAD2"} => insn'.stage = "LOAD"
          /\ state' \in {"STORE1", "STORE2"} => insn'.stage = "STORE"
          /\ state' = "BRANCH2" => insn'.stage = "BRANCH"
          /\ state' = "POST_EXEC" => insn'.stage = "FETCH"
      BY <2>3, <3>1, <3>2 DEF Dispatched, NextTable, CpuStates, TrapRequested
    <3>4. state' \in {"SYSTEM", "CSR1", "CSR2", "MRET"} => insn'.stage = "SYSTEM"
      BY <2>3, <3>1, <3>2 DEF Dispatched, NextTable, CpuStates, TrapRequested
    <3>5. state' = "TRAP" /\ execDone' =>
            \/ insn'.stage = "TRAP"
            \/ insn'.stage = "SYSTEM" /\ insn'.sys \in {"ECALL", "EBREAK", "INVALID"}
      <4>1. o.next = "TRAP" =>
              \/ state = "DECODE"
              \/ state = "EXEC" /\ insn.stage = "TRAP"
              \/ state = "SYSTEM" /\ insn.sys \in {"ECALL", "EBREAK", "INVALID"}
        BY <2>3 DEF NextTable, CpuStates, TrapRequested
      <4>2. state = "DECODE" => ~execDone'
        BY DEF Flags
      <4> QED BY <2>3, <3>1, <4>1, <4>2 DEF Dispatched
    <3> QED BY <2>1, <3>3, <3>4, <3>5 DEF Dispatched
  <2> QED BY <2>2, <2>3
<1> QED BY <1>1, <1>2, <1>a DEF RegisterEqs

\* The flags that say where UPDATE_PC takes its values from fit the state.
LEMMA FlagsStep ==
  ASSUME TypeOK, CsrOpKnown, Waiting, Dispatched, Flags, NEW x, NEW o, Edge(x, o), ~x.halt
  PROVE  Flags'
<1>a. RegisterEqs(x, o)
  BY EdgeRegisters
<1>b. TableFacts(x, o)
  BY TableRead
<1>1. CASE x.rst
  BY <1>1, <1>a DEF RegisterEqs, Flags
<1>2. CASE ~x.rst
  <2> USE <1>2, <1>a, <1>b DEF RegisterEqs, TableFacts
  <2>1. CASE Stalled(x)
    <3>1. state \notin {"PRE_FETCH", "EXEC"}
      BY <2>1 DEF Waiting, Stalled
    <3> QED BY <2>1, <3>1 DEF Flags
  <2>2. CASE ~Stalled(x)
    <3>1. /\ state' \in {"FETCH", "PREPAIR_UNALIGNED_FETCH", "FETCH_MORE", "DECODE", "EXEC"}
               => ~execDone'
          /\ state' \in {"POST_EXEC", "LOAD1", "LOAD2", "STORE1", "STORE2", "BRANCH2", "SYSTEM",
                         "CSR1", "CSR2", "MRET"} => execDone'
      BY <2>2 DEF Flags, NextTable, DriveTable, CpuStates, TrapRequested
    <3>2. state' # "UPDATE_PC" => ~nextFromCsr' /\ ~wbFromBus'
      BY <2>2 DEF NextTable, DriveTable, CpuStates, TrapRequested
    <3>3. state' = "UPDATE_PC" /\ nextFromCsr' => state \in {"TRAP", "MRET"}
      BY <2>2 DEF DriveTable
    <3>4. state \in {"TRAP", "MRET"} => /\ ~wbFromBus' /\ insn' = insn /\ execDone' = execDone
                                        /\ execDone => insn.stage \in {"SYSTEM", "TRAP"}
      BY <2>2 DEF DriveTable, Dispatched
    <3> QED BY <3>1, <3>2, <3>3, <3>4 DEF Flags
  <2> QED BY <2>1, <2>2
<1> QED BY <1>1, <1>2, <1>a DEF RegisterEqs

\* The data a sequencer or the main machine puts on the CSR port together
\* with the number of tags comes from a csr instruction.
LEMMA AcknowledgeOrigin ==
  ASSUME TypeOK, CsrOpKnown, NEW x, NEW o, Edge(x, o), tagsIrqClear'
  PROVE  /\ ~x.rst /\ ~HandlingTrap /\ ~HandlingMret
         /\ state = "CSR2" /\ insn.csr = "MTAGS"
         /\ CsrTick(o.csr) /\ o.csr.en /\ o.csr.we
         /\ o.csr.addr = "MTAGS" /\ IACK \in o.csr.data
<1>a. RegisterEqs(x, o)
  BY EdgeRegisters
<1>b. TableFacts(x, o)
  BY TableRead
<1> USE <1>a, <1>b DEF RegisterEqs, TableFacts
<1>1. ~x.rst
  OBVIOUS
<1> DEFINE c == CsrMux(o.csr)
<1>2. CsrTick(c) /\ c.addr = "MTAGS" /\ IACK \in c.data
  BY <1>1 DEF CsrTick, CsrShadows
<1>3. ~HandlingTrap
  BY <1>2 DEF CsrMux, TrapCsr, HandlingTrap, TypeOK, CpuTypeOK, CsrRead, CsrWrite
<1>4. ~HandlingMret
  BY <1>2, <1>3 DEF CsrMux, MretCsr, HandlingMret, TypeOK, CpuTypeOK, CsrRead, CsrWrite
<1>5. c = o.csr
  BY <1>3, <1>4 DEF CsrMux
<1>6. state = "CSR2" /\ insn.csr = "MTAGS" /\ c.en /\ c.we
  <2>1. o.csr.addr = "MTAGS" /\ IACK \in o.csr.data
    BY <1>2, <1>5
  <2>2. o.csr # NoCsr
    BY <2>1 DEF NoCsr
  <2>3. \A a : o.csr # CsrRead(a)
    BY <2>1 DEF CsrRead
  <2>4. \A a, d : o.csr = CsrWrite(a, d) => a = "MTAGS" /\ o.csr.en /\ o.csr.we
    BY <2>1 DEF CsrWrite
  <2> HIDE DEF RegisterEqs
  <2>5. state = "CSR2"
    BY <2>2, <2>3, <2>4 DEF CsrTable, CpuStates, TrapRequested
  <2> QED BY <1>5, <2>4, <2>5 DEF CsrTable
<1> QED BY <1>1, <1>2, <1>3, <1>4, <1>5, <1>6

\* The pulse comes with the write of tags.
LEMMA AcknowledgingStep ==
  ASSUME TypeOK, CsrOpKnown, Waiting, Phases, Dispatched, NEW x, NEW o, Edge(x, o), ~x.halt
  PROVE  Acknowledging'
<1> SUFFICES ASSUME tagsIrqClear'
             PROVE  /\ state' = "UPDATE_PC" /\ ~tagMismatch'
                    /\ csrWe' /\ storedAddr' = "MTAGS" /\ IACK \in storedData'
                    /\ insn'.stage = "SYSTEM" /\ insn'.csr = "MTAGS"
  BY DEF Acknowledging
<1>a. RegisterEqs(x, o)
  BY EdgeRegisters
<1>b. TableFacts(x, o)
  BY TableRead
<1> USE <1>a, <1>b DEF RegisterEqs, TableFacts
<1>1. /\ ~x.rst /\ ~HandlingTrap /\ ~HandlingMret
      /\ state = "CSR2" /\ insn.csr = "MTAGS"
      /\ CsrTick(o.csr) /\ o.csr.en /\ o.csr.we
      /\ o.csr.addr = "MTAGS" /\ IACK \in o.csr.data
  BY AcknowledgeOrigin
<1>7. ~csrBusy /\ ~Stalled(x)
  BY <1>1 DEF Waiting, Stalled
<1>8. csrWe' /\ storedAddr' = "MTAGS" /\ IACK \in storedData'
  BY <1>1, <1>7 DEF CsrTick, CsrRequest
<1>9. state' = "UPDATE_PC" /\ insn' = insn
  BY <1>1, <1>7 DEF NextTable, DriveTable
<1>10. ~tagMismatch'
  <2>1. ramState = "IDLE"
    BY <1>1 DEF Phases, Quiet, AccessStates
  <2> QED BY <2>1 DEF Edge, RamTick, RamIdle, RamWriteWord, RamStop
<1> QED BY <1>1, <1>8, <1>9, <1>10 DEF Dispatched

\* A branch that was decided is still to be taken until UPDATE_PC.
LEMMA BranchPendingStep ==
  ASSUME TypeOK, CsrOpKnown, Waiting, Dispatched, Flags, BranchPending,
         NEW x, NEW o, Edge(x, o), ~x.halt
  PROVE  BranchPending'
<1>a. RegisterEqs(x, o)
  BY EdgeRegisters
<1>b. TableFacts(x, o)
  BY TableRead
<1>1. CASE x.rst
  BY <1>1, <1>a DEF RegisterEqs, BranchPending
<1>2. CASE ~x.rst
  <2> USE <1>2, <1>a, <1>b DEF RegisterEqs, TableFacts
  <2>1. /\ aluOut' = (IF o.aluEn THEN o.alu ELSE aluOut)
        /\ branchFromAlu' = o.branch
        /\ o.aluEn /\ state = "EXEC" => aluFlags' = insn.taken
    BY DEF Edge, CpuClock, Alu, MainRegisters
  <2>2. state' = "BRANCH2" => aluFlags' = insn'.taken
    <3>1. state # "BRANCH2" \/ ~Stalled(x)
      BY DEF Waiting, Stalled
    <3>2. o.next = "BRANCH2" => state = "EXEC"
      BY DEF NextTable, CpuStates, TrapRequested
    <3>3. state' = "BRANCH2" => state = "EXEC" /\ ~Stalled(x)
      BY <3>1, <3>2 DEF NextTable
    <3> QED BY <2>1, <3>3 DEF DriveTable
  <2>3. ASSUME state' = "UPDATE_PC", insn'.stage = "BRANCH", ~nextFromCsr'
        PROVE  /\ branchFromAlu' = insn'.taken /\ aluOut' = insn'.alu
               /\ ~csrBusy'
    <3>1. state = "BRANCH2" /\ ~Stalled(x)
      <4>1. CASE Stalled(x)
        <5>1. state = "UPDATE_PC" /\ insn.stage = "BRANCH" /\ ~nextFromCsr /\ csrBusy
          BY <2>3, <4>1 DEF Waiting, Stalled
        <5> QED BY <5>1 DEF BranchPending
      <4>2. CASE ~Stalled(x)
        <5>1. state # "FETCH"
          BY <2>3, <4>2 DEF NextTable
        <5>2. insn.stage = "BRANCH"
          BY <2>3, <4>2, <5>1 DEF DriveTable
        <5>3. state \notin {"TRAP", "MRET"}
          BY <2>3, <4>2 DEF DriveTable
        <5>4. o.next = "UPDATE_PC"
          BY <2>3, <4>2
        <5> QED BY <4>2, <5>2, <5>3, <5>4 DEF NextTable, CpuStates, Dispatched, TrapRequested
      <4> QED BY <4>1, <4>2
    <3>2. insn' = insn
      BY <3>1 DEF DriveTable
    <3>3. aluOut' = insn.alu
      BY <2>1, <3>1 DEF DriveTable
    <3>4. branchFromAlu' = insn.taken
      <4>1. /\ o.branch \in BOOLEAN /\ aluFlags \in BOOLEAN
        BY DEF Edge, Outputs, TypeOK, CpuTypeOK
      <4>2. o.branch = aluFlags
        BY <3>1, <4>1 DEF DriveTable
      <4> QED BY <2>1, <3>1, <4>2 DEF BranchPending
    <3>5. ~csrBusy'
      <4>1. CsrMux(o.csr) = NoCsr
        BY <3>1 DEF CsrMux, CsrTable, Waiting, Stalled
      <4>2. CsrTick(NoCsr)
        BY <4>1
      <4> QED BY <4>2, PortIdle DEF Waiting
    <3> QED BY <3>2, <3>3, <3>4, <3>5
  <2> QED BY <2>2, <2>3 DEF BranchPending
<1> QED BY <1>1, <1>2, <1>a DEF RegisterEqs

\* No violation is pending where the program executes.
LEMMA UnpendedStep ==
  ASSUME TypeOK, CsrOpKnown, Waiting, Phases, Unpended, NEW x, NEW o, Edge(x, o), ~x.halt
  PROVE  Unpended'
<1> SUFFICES ASSUME state' = "EXEC", irqEn' PROVE ~irq'
  BY DEF Unpended
<1>a. RegisterEqs(x, o)
  BY EdgeRegisters
<1>b. TableFacts(x, o)
  BY TableRead
<1> USE <1>a, <1>b DEF RegisterEqs, TableFacts
<1>1. ~x.rst
  OBVIOUS
<1>2. state = "DECODE" /\ ~Stalled(x) /\ ~TrapRequested(x)
  BY <1>1 DEF NextTable, CpuStates, Waiting, Stalled, TrapRequested
<1>3. CsrMux(o.csr) = NoCsr
  BY <1>2 DEF CsrMux, CsrTable, Stalled
<1>4. irqEn
  <2>1. CsrTick(NoCsr)
    BY <1>1, <1>3
  <2> QED BY <2>1, PortIdle DEF Waiting
<1>5. ~irq
  BY <1>2, <1>4 DEF TrapRequested, InterruptOccured, Edge
<1>6. ~tagMismatch
  BY <1>2 DEF Phases, SettledStates, AccessStates, CpuStates
<1> QED BY <1>5, <1>6 DEF Edge, RamTick, MismatchLatch

\* The control invariant holds in every reachable state.
LEMMA ControlHolds ==
  ASSUME NeverHalted, DecoderKeeps
  PROVE  Spec => []ControlInv
<1>1. Init => ControlInv
  <2> SUFFICES ASSUME Init PROVE ControlInv
    OBVIOUS
  <2> USE DEF Init, CpuInit, CsrInit
  <2>1. Waiting
    BY DEF Waiting, HandlingTrap, HandlingMret
  <2>2. Phases
    BY DEF Phases, Handshake, Quiet, AccessStates, SettledStates
  <2>3. Dispatched /\ Flags /\ Acknowledging /\ BranchPending /\ Unpended
    BY DEF Dispatched, Flags, Acknowledging, BranchPending, Unpended
  <2> QED BY <2>1, <2>2, <2>3 DEF ControlInv
<1>2. TypeOK /\ CsrOpKnown /\ ControlInv /\ [Tick]_vars => ControlInv'
  <2> SUFFICES ASSUME TypeOK, CsrOpKnown, ControlInv, [Tick]_vars PROVE ControlInv'
    OBVIOUS
  <2>1. CASE Tick
    <3>1. PICK host \in HostPins : \E x, o : Edge(x, o) /\ x.halt = host.halt /\ x.rst = host.rst
      BY <2>1, TickEdge
    <3>2. PICK x, o : Edge(x, o) /\ x.halt = host.halt /\ x.rst = host.rst
      BY <3>1
    <3>3. ~x.halt
      BY <3>2 DEF NeverHalted
    <3> QED BY <3>2, <3>3, WaitingStep, PhasesStep, DispatchedStep, FlagsStep,
               AcknowledgingStep, BranchPendingStep, UnpendedStep DEF ControlInv
  <2>2. CASE UNCHANGED vars
    BY <2>2 DEF vars, coreVars, csrVars, busVars, ramVars, ControlInv, Waiting, HandlingTrap,
       HandlingMret, Phases, Handshake, Quiet, Requested, Acknowledged, WritingBack,
       Dispatched, Flags, Acknowledging, BranchPending, Unpended
  <2> QED BY <2>1, <2>2
<1> QED BY <1>1, <1>2, CoreTypes, PTL DEF Spec

-----------------------------------------------------------------------------
(* What the control invariant gives. *)

\* The CPU keeps to the protocol of bus and RAM, although its main machine
\* asserts bus_en without looking at the bus: CYC_O and busy agree, every
\* store writes once, the read ports show what the bus address selects.
THEOREM CoreHandshake ==
  ASSUME NeverHalted, DecoderKeeps
  PROVE  Spec => []Handshake
<1>1. ControlInv => Handshake
  BY DEF ControlInv, Phases
<1> QED BY <1>1, ControlHolds, PTL

\* The acknowledge pulse of csr.v never meets an access or a comparison of
\* tags in wb_ram.v, so it loses no violation.
THEOREM ClearNeverRaces ==
  ASSUME NeverHalted, DecoderKeeps
  PROVE  Spec => []ClearWhenQuiet
<1>1. TypeOK /\ ControlInv => ClearWhenQuiet
  <2> SUFFICES ASSUME TypeOK, ControlInv, tagsIrqClear
               PROVE  ~busy /\ ramState = "IDLE" /\ ~tagMismatch
    BY DEF ClearWhenQuiet
  <2>1. state = "UPDATE_PC" /\ ~tagMismatch
    BY DEF ControlInv, Acknowledging
  <2> QED BY <2>1 DEF ControlInv, Phases, AccessStates, Quiet, Handshake, Waiting
<1> QED BY <1>1, ControlHolds, CoreTypes, PTL

\* A CPU that has stopped in CPU_IDLE has nothing under way.
THEOREM IdleQuiet ==
  ASSUME NeverHalted, DecoderKeeps
  PROVE  Spec => []IdleIsQuiet
<1>1. TypeOK /\ ControlInv => IdleIsQuiet
  BY DEF TypeOK, CpuTypeOK, ControlInv, Waiting, IdleIsQuiet, SequencerDone, HandlingTrap,
     HandlingMret
<1> QED BY <1>1, ControlHolds, CoreTypes, PTL

\* With interrupts on, no instruction is executed while a tag violation is
\* pending or on its way through wb_ram.v.
THEOREM ViolationStops ==
  ASSUME NeverHalted, DecoderKeeps
  PROVE  Spec => []NoPendingAtExec
<1>1. ControlInv => NoPendingAtExec
  BY DEF ControlInv, Unpended, Phases, SettledStates, AccessStates, CpuStates, NoPendingAtExec
<1> QED BY <1>1, ControlHolds, PTL

\* UPDATE_PC writes no register on the way into a handler or out of one.
THEOREM TrapKeepsRegisters ==
  ASSUME NeverHalted, DecoderKeeps, LegalInsns
  PROVE  Spec => []TrapWritesNoRegister
<1>1. ControlInv => TrapWritesNoRegister
  <2> SUFFICES ASSUME ControlInv, state = "UPDATE_PC", nextFromCsr PROVE ~RegWe
    BY DEF TrapWritesNoRegister
  <2>1. ~wbFromBus /\ (execDone => insn.stage \in {"SYSTEM", "TRAP"})
    BY DEF ControlInv, Flags
  <2>2. insn.writeback => insn.stage = "FETCH"
    BY DEF ControlInv, Dispatched, DecoderKeeps, LegalInsns, Nop
  <2> QED BY <2>1, <2>2 DEF RegWe
<1> QED BY <1>1, ControlHolds, PTL

\* A branch continues where its condition says.
THEOREM BranchCorrect ==
  ASSUME NeverHalted, DecoderKeeps
  PROVE  Spec => BranchDecides
<1> DEFINE A == state = "UPDATE_PC" /\ state' # "UPDATE_PC" /\ state' # "RESET"
                /\ insn.stage = "BRANCH" /\ ~nextFromCsr
                  => pc' = (IF insn.taken THEN insn.alu ELSE pcnext) \ {0}
<1>1. TypeOK /\ CsrOpKnown /\ ControlInv /\ [Tick]_vars => [A]_vars
  <2> SUFFICES ASSUME TypeOK, CsrOpKnown, ControlInv, Tick,
                      state = "UPDATE_PC", state' # "UPDATE_PC", state' # "RESET",
                      insn.stage = "BRANCH", ~nextFromCsr
               PROVE  pc' = (IF insn.taken THEN insn.alu ELSE pcnext) \ {0}
    OBVIOUS
  <2>1. PICK host \in HostPins : \E x, o : Edge(x, o) /\ x.halt = host.halt /\ x.rst = host.rst
    BY TickEdge
  <2>2. PICK x, o : Edge(x, o)
    BY <2>1
  <2>3. RegisterEqs(x, o) /\ MainRegisters(x, o)
    BY <2>2, EdgeRegisters DEF Edge, CpuClock
  <2>4. ~x.rst /\ ~Stalled(x)
    BY <2>3 DEF RegisterEqs
  <2>5. pc' = NextPc
    BY <2>3, <2>4 DEF MainRegisters
  <2>6. branchFromAlu = insn.taken /\ aluOut = insn.alu
    BY DEF ControlInv, BranchPending
  <2>7. ~insn.pcFromAlu
    BY DEF ControlInv, Dispatched, DecoderKeeps, Nop
  <2>8. insn.taken \in BOOLEAN
    BY DEF TypeOK, CpuTypeOK, Insn
  <2> QED BY <2>5, <2>6, <2>7, <2>8 DEF NextPc
<1> QED BY <1>1, ControlHolds, CoreTypes, PTL DEF Spec, BranchDecides

\* When the trap sequencer ends, the main machine is there to go on with the
\* handler.
THEOREM HandlerEntered ==
  ASSUME NeverHalted, DecoderKeeps
  PROVE  Spec => TrapEntersHandler
<1> DEFINE A == trapState = "LOAD_TVEC" /\ trapState' = "IDLE" => state' = "TRAP"
<1>1. TypeOK /\ CsrOpKnown /\ ControlInv /\ [Tick]_vars => [A]_vars
  <2> SUFFICES ASSUME TypeOK, CsrOpKnown, ControlInv, Tick,
                      trapState = "LOAD_TVEC", trapState' = "IDLE"
               PROVE  state' = "TRAP"
    OBVIOUS
  <2>1. PICK host \in HostPins : \E x, o : Edge(x, o) /\ x.halt = host.halt /\ x.rst = host.rst
    BY TickEdge
  <2>2. PICK x, o : Edge(x, o)
    BY <2>1
  <2>3. RegisterEqs(x, o)
    BY <2>2, EdgeRegisters
  <2>4. state = "TRAP" /\ Stalled(x)
    BY DEF ControlInv, Waiting, HandlingTrap, Stalled
  <2> QED BY <2>3, <2>4 DEF RegisterEqs
<1> QED BY <1>1, ControlHolds, CoreTypes, PTL DEF Spec, TrapEntersHandler

\* The program does not read tags with csrrs or csrrc while the register
\* holds the IACK of an earlier acknowledgement: both write it back.
IackNotReadBack ==
  /\ state = "CSR2" /\ insn.csr = "MTAGS" /\ insn.sys \in {"CSRRS", "CSRRC"}
  /\ IACK \notin insn.operand
    => IACK \notin csrData

\* The pulse is the answer to the instruction that is under way.
LEMMA AcknowledgeAsked ==
  ASSUME TypeOK, CsrOpKnown, ControlInv, IackNotReadBack,
         NEW x, NEW o, Edge(x, o), ~x.halt, tagsIrqClear'
  PROVE  WritesIack'
<1>1. Acknowledging'
  BY AcknowledgingStep DEF ControlInv
<1>2. state' = "UPDATE_PC" /\ insn'.stage = "SYSTEM" /\ insn'.csr = "MTAGS"
  BY <1>1 DEF Acknowledging
<1>3. /\ ~x.rst /\ state = "CSR2" /\ insn.csr = "MTAGS" /\ IACK \in o.csr.data
  BY AcknowledgeOrigin
<1>4. RegisterEqs(x, o) /\ TableFacts(x, o)
  BY EdgeRegisters, TableRead
<1>5. PICK d \in Word : /\ o.csr = CsrWrite(insn.csr, d)
                        /\ insn.sys = "CSRRW" => d = insn.operand
                        /\ insn.sys = "CSRRS" => d = csrData \cup insn.operand
                        /\ insn.sys = "CSRRC" => d = csrData \ insn.operand
  BY <1>3, <1>4 DEF TableFacts, CsrTable
<1>6. IACK \in d
  BY <1>3, <1>5 DEF CsrWrite
<1>7. insn.sys \in {"CSRRW", "CSRRS", "CSRRC"}
  BY <1>3 DEF CsrOpKnown
<1>8. insn.sys # "CSRRC" /\ IACK \in insn.operand
  BY <1>3, <1>5, <1>6, <1>7 DEF IackNotReadBack
<1>9. insn' = insn
  BY <1>3, <1>4 DEF RegisterEqs, TableFacts, DriveTable
<1> QED BY <1>2, <1>8, <1>9 DEF WritesIack

\* Only an instruction that writes 1 to tags.IACK takes a violation back.
THEOREM AcknowledgedByTags ==
  ASSUME NeverHalted, DecoderKeeps
  PROVE  Spec /\ []IackNotReadBack => OnlyTagsAcknowledge
<1> DEFINE Asked == tagsIrqClear => WritesIack
           A == irq /\ ~irq' => WritesIack
<1>1. Init => Asked
  BY DEF Init, CpuInit, CsrInit
<1>2. TypeOK /\ CsrOpKnown /\ ControlInv /\ IackNotReadBack /\ Asked /\ [Tick]_vars => Asked'
  <2>1. CASE UNCHANGED vars
    BY <2>1 DEF vars, coreVars, csrVars, WritesIack
  <2>2. ASSUME TypeOK, CsrOpKnown, ControlInv, IackNotReadBack, Tick
        PROVE  Asked'
    <3>1. PICK host \in HostPins : \E x, o : Edge(x, o) /\ x.halt = host.halt /\ x.rst = host.rst
      BY <2>2, TickEdge
    <3>2. PICK x, o : Edge(x, o) /\ x.halt = host.halt
      BY <3>1
    <3>3. ~x.halt
      BY <3>2 DEF NeverHalted
    <3> QED BY <2>2, <3>2, <3>3, AcknowledgeAsked
  <2> QED BY <2>1, <2>2
<1>3. TypeOK /\ CsrOpKnown /\ Asked /\ [Tick]_vars => [A]_vars
  <2> SUFFICES ASSUME TypeOK, CsrOpKnown, Asked, Tick, irq, ~irq'
               PROVE  WritesIack
    OBVIOUS
  <2>1. PICK host \in HostPins : \E x, o : Edge(x, o) /\ x.halt = host.halt /\ x.rst = host.rst
    BY TickEdge
  <2>2. PICK x, o : Edge(x, o)
    BY <2>1
  <2>3. tagsIrqClear
    BY <2>2 DEF Edge, RamTick, MismatchLatch, RamPins, RamInputs
  <2> QED BY <2>3
<1> QED BY <1>1, <1>2, <1>3, ControlHolds, CoreTypes, PTL DEF Spec, OnlyTagsAcknowledge

-----------------------------------------------------------------------------
(* The CSR file and its shadows. *)

\* An accepted write changes what its register will hold; nothing else does.
LEMMA SettledStep ==
  ASSUME TypeOK, Waiting, NEW x, NEW o, Edge(x, o), NEW r \in Csrs
  PROVE  LET c == CsrMux(o.csr)
         IN  /\ csrFile'[r] = Settled(r)
             /\ x.rst => Settled(r)' = Settled(r)
             /\ ~x.rst => Settled(r)' = IF ~csrBusy /\ c.en /\ c.we /\ Index(c.addr) = r
                                        THEN c.data ELSE Settled(r)
<1> DEFINE c == CsrMux(o.csr)
<1>1. csrWe \in BOOLEAN /\ csrBusy \in BOOLEAN /\ csrFile \in [Csrs -> Word] /\ (csrWe => csrBusy)
  BY DEF TypeOK, CpuTypeOK, CsrTypeOK, Waiting
<1>2. Index(storedAddr) \in Csrs
  BY DEF Index, Csrs
<1>3. csrFile'[r] = Settled(r)
  <2>1. CsrPort
    BY DEF Edge, CpuClock, CsrReset, CsrTick
  <2> QED BY <1>1, <1>2, <2>1 DEF CsrPort, Settled
<1>4. x.rst => Settled(r)' = Settled(r)
  BY <1>3, EdgeRegisters DEF RegisterEqs, Settled
<1>5. ASSUME ~x.rst
      PROVE  Settled(r)' = IF ~csrBusy /\ c.en /\ c.we /\ Index(c.addr) = r
                           THEN c.data ELSE Settled(r)
  <2>1. CsrRequest(c)
    BY <1>5, EdgeRegisters DEF RegisterEqs, CsrTick
  <2>2. csrWe' = (~csrBusy /\ c.en /\ c.we)
    <3>1. c \in CsrReq
      BY CsrMuxType DEF Edge, Outputs, TypeOK
    <3>2. c.en \in BOOLEAN /\ c.we \in BOOLEAN
      BY <3>1 DEF CsrReq
    <3> HIDE DEF c
    <3> QED BY <1>1, <2>1, <3>2 DEF CsrRequest
  <2>3. csrWe' => storedAddr' = c.addr /\ storedData' = c.data
    BY <2>1, <2>2 DEF CsrRequest
  <2> HIDE DEF c
  <2> QED BY <1>3, <2>2, <2>3 DEF Settled
<1> QED BY <1>3, <1>4, <1>5

\* What the three users of the port do to the registers with shadows.
LEMMA PortRules ==
  ASSUME TypeOK, Waiting, NEW x, NEW o, Edge(x, o)
  PROVE  LET c == CsrMux(o.csr)
         IN  /\ c.we => c.en
             /\ c.we /\ c.addr = "MSTATUS" => ~csrBusy \/ SettingStatus
             /\ c.we /\ c.addr \in {"MIE", "MTAGS"} => ~csrBusy
             /\ SettingStatus => c.we /\ c.addr = "MSTATUS"
<1> DEFINE c == CsrMux(o.csr)
<1>0. TableFacts(x, o)
  BY TableRead
<1>1. /\ trapState \in {"RESET", "IDLE", "LOAD_STATUS", "STORE_STATUS", "STORE_EPC",
                        "STORE_TVAL", "LOAD_MIP", "STORE_MIP", "LOAD_TVEC"}
      /\ mretState \in {"RESET", "IDLE", "STORE_STATUS", "LOAD_EPC"}
  BY DEF TypeOK, CpuTypeOK
<1>2. CASE HandlingTrap
  <2>1. ~HandlingMret
    BY <1>2 DEF Waiting
  <2>2. c = TrapCsr
    BY <1>2 DEF CsrMux
  <2> QED BY <1>1, <1>2, <2>1, <2>2 DEF HandlingTrap, HandlingMret, TrapCsr, CsrRead, CsrWrite,
             SettingStatus
<1>3. CASE ~HandlingTrap /\ HandlingMret
  <2>1. c = MretCsr
    BY <1>3 DEF CsrMux
  <2> QED BY <1>1, <1>3, <2>1 DEF HandlingTrap, HandlingMret, MretCsr, CsrRead, CsrWrite,
             SettingStatus
<1>4. CASE ~HandlingTrap /\ ~HandlingMret
  <2>1. c = o.csr /\ ~SettingStatus
    BY <1>4 DEF CsrMux, HandlingTrap, HandlingMret, SettingStatus
  <2>2. \/ c = NoCsr
        \/ \E a : c = CsrRead(a)
        \/ state = "STORE2" /\ \E d : c = CsrWrite("MIP", d)
        \/ state \in {"DECODE", "SYSTEM", "CSR2"} /\ \E a, d : c = CsrWrite(a, d)
    BY <1>0, <2>1 DEF TableFacts, CsrTable, CpuStates, TrapRequested
  <2>3. state \in {"DECODE", "SYSTEM", "CSR2"} => ~csrBusy
    BY DEF Waiting
  <2>4. CASE c = NoCsr
    BY <2>1, <2>4 DEF NoCsr
  <2>5. CASE \E a : c = CsrRead(a)
    BY <2>1, <2>5 DEF CsrRead
  <2>6. CASE state = "STORE2" /\ \E d : c = CsrWrite("MIP", d)
    BY <2>1, <2>6 DEF CsrWrite
  <2>7. CASE state \in {"DECODE", "SYSTEM", "CSR2"} /\ \E a, d : c = CsrWrite(a, d)
    BY <2>1, <2>3, <2>7 DEF CsrWrite
  <2> QED BY <2>2, <2>4, <2>5, <2>6, <2>7
<1> QED BY <1>2, <1>3, <1>4

\* One shadow register over a tick without reset.
LEMMA ShadowStep ==
  ASSUME TypeOK, Waiting, NEW x, NEW o, Edge(x, o), ~x.rst
  PROVE  LET c == CsrMux(o.csr)
         IN  /\ irqEn' = IF c.we /\ c.addr = "MSTATUS" THEN MIE \in c.data ELSE irqEn
             /\ irqTimerEn' = IF c.we /\ c.addr = "MIE" THEN MTI \in c.data ELSE irqTimerEn
             /\ tagsEn' = IF c.we /\ c.addr = "MTAGS" THEN LSEN \in c.data ELSE tagsEn
             /\ tagsIfEn' = IF c.we /\ c.addr = "MTAGS" THEN ICEN \in c.data ELSE tagsIfEn
             /\ tagsSkipSp' = IF c.we /\ c.addr = "MTAGS" THEN SKIP_SP \in c.data
                              ELSE tagsSkipSp
BY EdgeRegisters DEF RegisterEqs, CsrTick, CsrShadows

\* Leaving STORE_STATUS happens together with an accepted write.
LEMMA SettingStep ==
  ASSUME TypeOK, Waiting, NEW x, NEW o, Edge(x, o), ~x.rst, csrBusy
  PROVE  SettingStatus' = SettingStatus
BY EdgeRegisters DEF RegisterEqs, SettingStatus

\* A shadow register is set only if software has set its bit.
LEMMA ShadowsHoldStep ==
  ASSUME TypeOK, Waiting, ShadowsHold, NEW x, NEW o, Edge(x, o)
  PROVE  ShadowsHold'
<1>0. /\ "MSTATUS" \in Csrs /\ "MIE" \in Csrs /\ "MTAGS" \in Csrs
      /\ \A a : \A r \in {"MSTATUS", "MIE", "MTAGS"} : Index(a) = r <=> a = r
  BY DEF Csrs, Index
<1>1. CASE x.rst
  <2>1. /\ ~irqEn' /\ ~irqTimerEn' /\ ~tagsEn' /\ ~tagsIfEn' /\ tagsSkipSp' = tagsSkipSp
    BY <1>1 DEF Edge, CpuClock, CsrReset
  <2>2. Settled("MTAGS")' = Settled("MTAGS")
    BY <1>0, <1>1, SettledStep
  <2> QED BY <2>1, <2>2 DEF ShadowsHold
<1>2. CASE ~x.rst
  <2> DEFINE c == CsrMux(o.csr)
  <2>1. /\ c.we => c.en
        /\ c.we /\ c.addr = "MSTATUS" => ~csrBusy \/ SettingStatus
        /\ c.we /\ c.addr \in {"MIE", "MTAGS"} => ~csrBusy
        /\ SettingStatus => c.we /\ c.addr = "MSTATUS"
    BY PortRules
  <2>2. /\ irqEn' = IF c.we /\ c.addr = "MSTATUS" THEN MIE \in c.data ELSE irqEn
        /\ irqTimerEn' = IF c.we /\ c.addr = "MIE" THEN MTI \in c.data ELSE irqTimerEn
        /\ tagsEn' = IF c.we /\ c.addr = "MTAGS" THEN LSEN \in c.data ELSE tagsEn
        /\ tagsIfEn' = IF c.we /\ c.addr = "MTAGS" THEN ICEN \in c.data ELSE tagsIfEn
        /\ tagsSkipSp' = IF c.we /\ c.addr = "MTAGS" THEN SKIP_SP \in c.data ELSE tagsSkipSp
    BY <1>2, ShadowStep
  <2>3. \A r \in {"MSTATUS", "MIE", "MTAGS"} :
          Settled(r)' = IF ~csrBusy /\ c.en /\ c.we /\ c.addr = r THEN c.data ELSE Settled(r)
    BY <1>0, <1>2, SettledStep
  <2>4. csrBusy => SettingStatus' = SettingStatus
    BY <1>2, SettingStep
  <2> HIDE DEF c
  <2>5. irqEn' => SettingStatus' \/ MIE \in Settled("MSTATUS")'
    BY <2>1, <2>2, <2>3, <2>4 DEF ShadowsHold
  <2>6. irqTimerEn' => MTI \in Settled("MIE")'
    BY <2>1, <2>2, <2>3 DEF ShadowsHold
  <2>7. /\ tagsEn' => LSEN \in Settled("MTAGS")'
        /\ tagsIfEn' => ICEN \in Settled("MTAGS")'
        /\ tagsSkipSp' <=> SKIP_SP \in Settled("MTAGS")'
    BY <2>1, <2>2, <2>3 DEF ShadowsHold
  <2> QED BY <2>5, <2>6, <2>7 DEF ShadowsHold
<1>3. x.rst \in BOOLEAN
  BY DEF Edge, Pins
<1> QED BY <1>1, <1>2, <1>3

\* A shadow register follows the write that is under way.
LEMMA ShadowsFollowStep ==
  ASSUME TypeOK, Waiting, ShadowsFollow, NEW x, NEW o, Edge(x, o), ~x.rst
  PROVE  ShadowsFollow'
<1>0. /\ "MSTATUS" \in Csrs /\ "MIE" \in Csrs /\ "MTAGS" \in Csrs
      /\ \A a : \A r \in {"MSTATUS", "MIE", "MTAGS"} : Index(a) = r <=> a = r
  BY DEF Csrs, Index
<1> DEFINE c == CsrMux(o.csr)
<1>1. /\ c.we => c.en
      /\ c.we /\ c.addr = "MSTATUS" => ~csrBusy \/ SettingStatus
      /\ c.we /\ c.addr \in {"MIE", "MTAGS"} => ~csrBusy
      /\ SettingStatus => c.we /\ c.addr = "MSTATUS"
  BY PortRules
<1>2. /\ irqEn' = IF c.we /\ c.addr = "MSTATUS" THEN MIE \in c.data ELSE irqEn
      /\ irqTimerEn' = IF c.we /\ c.addr = "MIE" THEN MTI \in c.data ELSE irqTimerEn
      /\ tagsEn' = IF c.we /\ c.addr = "MTAGS" THEN LSEN \in c.data ELSE tagsEn
      /\ tagsIfEn' = IF c.we /\ c.addr = "MTAGS" THEN ICEN \in c.data ELSE tagsIfEn
      /\ tagsSkipSp' = IF c.we /\ c.addr = "MTAGS" THEN SKIP_SP \in c.data ELSE tagsSkipSp
  BY ShadowStep
<1>3. \A r \in {"MSTATUS", "MIE", "MTAGS"} :
        Settled(r)' = IF ~csrBusy /\ c.en /\ c.we /\ c.addr = r THEN c.data ELSE Settled(r)
  BY <1>0, SettledStep
<1>4. csrBusy => SettingStatus' = SettingStatus
  BY SettingStep
<1> HIDE DEF c
<1>5. ~SettingStatus' => (irqEn' <=> MIE \in Settled("MSTATUS")')
  BY <1>1, <1>2, <1>3, <1>4 DEF ShadowsFollow
<1>6. irqTimerEn' <=> MTI \in Settled("MIE")'
  BY <1>1, <1>2, <1>3 DEF ShadowsFollow
<1>7. /\ tagsEn' <=> LSEN \in Settled("MTAGS")'
      /\ tagsIfEn' <=> ICEN \in Settled("MTAGS")'
      /\ tagsSkipSp' <=> SKIP_SP \in Settled("MTAGS")'
  BY <1>1, <1>2, <1>3 DEF ShadowsFollow
<1> QED BY <1>5, <1>6, <1>7 DEF ShadowsFollow

\* The weaker form, which a reset keeps.
LEMMA ShadowsHoldAlways ==
  ASSUME NeverHalted, DecoderKeeps
  PROVE  Spec => []ShadowsHold
<1>1. Init => ShadowsHold
  BY DEF Init, CpuInit, CsrInit, ShadowsHold, Settled, Csrs
<1>2. TypeOK /\ CsrOpKnown /\ ControlInv /\ ShadowsHold /\ [Tick]_vars => ShadowsHold'
  <2> SUFFICES ASSUME TypeOK, CsrOpKnown, ControlInv, ShadowsHold, [Tick]_vars
               PROVE  ShadowsHold'
    OBVIOUS
  <2>1. CASE Tick
    BY <2>1, TickEdge, ShadowsHoldStep DEF ControlInv
  <2>2. CASE UNCHANGED vars
    BY <2>2 DEF vars, coreVars, csrVars, ShadowsHold, Settled, SettingStatus
  <2> QED BY <2>1, <2>2
<1> QED BY <1>1, <1>2, ControlHolds, CoreTypes, PTL DEF Spec

\* Wherever the main machine looks at a shadow, no write of a CSR is under
\* way.
LEMMA SettledWhenUsed ==
  ASSUME TypeOK, ControlInv, state \in {"PRE_FETCH", "DECODE", "LOAD1", "STORE1"}
  PROVE  ~SettingStatus /\ \A r : Settled(r) = csrFile[r]
BY DEF ControlInv, Waiting, HandlingTrap, HandlingMret, SettingStatus, Settled

\* Neither an interrupt nor a check of tags is ever on that software did not
\* turn on, resets at any tick included.
THEOREM ShadowsAreSound ==
  ASSUME NeverHalted, DecoderKeeps
  PROVE  Spec => []ShadowsSound
<1>1. TypeOK /\ ControlInv /\ ShadowsHold => ShadowsSound
  <2> SUFFICES ASSUME TypeOK, ControlInv, ShadowsHold,
                      state \in {"PRE_FETCH", "DECODE", "LOAD1", "STORE1"}
               PROVE  /\ irqEn => MIE \in csrFile["MSTATUS"]
                      /\ irqTimerEn => MTI \in csrFile["MIE"]
                      /\ tagsEn => LSEN \in csrFile["MTAGS"]
                      /\ tagsIfEn => ICEN \in csrFile["MTAGS"]
                      /\ tagsSkipSp = (SKIP_SP \in csrFile["MTAGS"])
    BY DEF ShadowsSound
  <2>1. ~SettingStatus /\ \A r : Settled(r) = csrFile[r]
    BY SettledWhenUsed
  <2>2. tagsSkipSp \in BOOLEAN
    BY DEF TypeOK, CpuTypeOK, CsrTypeOK
  <2> QED BY <2>1, <2>2 DEF ShadowsHold
<1> QED BY <1>1, ShadowsHoldAlways, ControlHolds, CoreTypes, PTL

\* Without resets the shadow registers say exactly what software reads back,
\* although the sequencers put wrong data on the port for one tick.
THEOREM ShadowsAreCoherent ==
  ASSUME NeverHalted, NeverReset, DecoderKeeps
  PROVE  Spec => []ShadowsCoherent
<1>1. Init => ShadowsFollow
  BY DEF Init, CpuInit, CsrInit, ShadowsFollow, Settled, Csrs
<1>2. TypeOK /\ CsrOpKnown /\ ControlInv /\ ShadowsFollow /\ [Tick]_vars => ShadowsFollow'
  <2> SUFFICES ASSUME TypeOK, CsrOpKnown, ControlInv, ShadowsFollow, [Tick]_vars
               PROVE  ShadowsFollow'
    OBVIOUS
  <2>1. CASE Tick
    <3>1. PICK host \in HostPins : \E x, o : Edge(x, o) /\ x.halt = host.halt /\ x.rst = host.rst
      BY <2>1, TickEdge
    <3>2. PICK x, o : Edge(x, o) /\ x.rst = host.rst
      BY <3>1
    <3>3. ~x.rst
      BY <3>2 DEF NeverReset
    <3> QED BY <3>2, <3>3, ShadowsFollowStep DEF ControlInv
  <2>2. CASE UNCHANGED vars
    BY <2>2 DEF vars, coreVars, csrVars, ShadowsFollow, Settled, SettingStatus
  <2> QED BY <2>1, <2>2
<1>3. TypeOK /\ ControlInv /\ ShadowsFollow => ShadowsCoherent
  <2> SUFFICES ASSUME TypeOK, ControlInv, ShadowsFollow,
                      state \in {"PRE_FETCH", "DECODE", "LOAD1", "STORE1"}
               PROVE  /\ irqEn = (MIE \in csrFile["MSTATUS"])
                      /\ irqTimerEn = (MTI \in csrFile["MIE"])
                      /\ tagsEn = (LSEN \in csrFile["MTAGS"])
                      /\ tagsIfEn = (ICEN \in csrFile["MTAGS"])
                      /\ tagsSkipSp = (SKIP_SP \in csrFile["MTAGS"])
    BY DEF ShadowsCoherent
  <2>1. ~SettingStatus /\ \A r : Settled(r) = csrFile[r]
    BY SettledWhenUsed
  <2>2. /\ irqEn \in BOOLEAN /\ irqTimerEn \in BOOLEAN /\ tagsEn \in BOOLEAN
        /\ tagsIfEn \in BOOLEAN /\ tagsSkipSp \in BOOLEAN
    BY DEF TypeOK, CpuTypeOK, CsrTypeOK
  <2> QED BY <2>1, <2>2 DEF ShadowsFollow
<1> QED BY <1>1, <1>2, <1>3, ControlHolds, CoreTypes, PTL DEF Spec

-----------------------------------------------------------------------------
(* The CPU as a client of the memory path. *)

NoAccess == [op |-> "NONE", addr |-> {}, data |-> {}, check |-> FALSE]

\* The memory path with the CPU as its client, and what is proved of it.
MP == INSTANCE MemPath_proofs
        WITH Ops <- BusOp, Addresses <- Word, DataValues <- Word, NoRequest <- NoAccess

\* The program makes no half access at an odd address (wb_ram.v asserts it).
HalvesAligned == \A i \in Insns : i.op \in {"READH", "READHU", "WRITEH"} => 0 \notin i.alu

\* The address of a load or store waits in the ALU's result register.
AddressReady == state \in {"LOAD1", "STORE1"} => aluOut = insn.alu

\* EXEC computes the address that LOAD1 and STORE1 drive.
LEMMA AddressReadyStep ==
  ASSUME TypeOK, ControlInv, AddressReady, NEW x, NEW o, Edge(x, o), ~x.halt
  PROVE  AddressReady'
<1> SUFFICES ASSUME state' \in {"LOAD1", "STORE1"} PROVE aluOut' = insn'.alu
  BY DEF AddressReady
<1>1. RegisterEqs(x, o) /\ TableFacts(x, o)
  BY EdgeRegisters, TableRead
<1>2. ~x.rst
  BY <1>1 DEF RegisterEqs
<1>3. Stalled(x) => state \notin {"EXEC", "LOAD1", "STORE1"}
  BY DEF ControlInv, Waiting, Stalled
<1>4. state = "EXEC" /\ ~Stalled(x)
  BY <1>1, <1>2, <1>3 DEF RegisterEqs, TableFacts, NextTable, CpuStates, TrapRequested
<1>5. aluOut' = insn.alu
  BY <1>1, <1>2, <1>4 DEF TableFacts, DriveTable, Edge, CpuClock, Alu
<1> QED BY <1>1, <1>2, <1>4, <1>5 DEF RegisterEqs, TableFacts, DriveTable

\* MemPath's bus and RAM are the ones the CPU is wired to.
LEMMA SamePath ==
  ASSUME NEW en, NEW op, NEW addr, NEW data, NEW clear,
         BusRamTick(en, op, addr, data, check, clear)
  PROVE  MP!Clock(en, op, addr, data, clear)
<1> DEFINE i == RamInputs(check, clear)
<1>1. MP!RamInputs(check, clear) = i
  BY DEF MP!RamInputs, RamInputs
<1>2. MP!RamDataOut(i) = RamDataOut(i)
  BY DEF MP!RamDataOut, RamDataOut, MP!ByteOffset, ByteOffset, MP!Bits, Bits
<1>3. MP!DataToWrite(i) = DataToWrite(i)
  BY DEF MP!DataToWrite, DataToWrite, MP!ByteOffset, ByteOffset, MP!Merge, Merge, MP!Shl, Shl
<1>4. MP!RamTick(i)
  <2>1. MemoryPorts(i) /\ MismatchLatch(i) /\ (RamIdle(i) \/ RamWriteWord \/ RamStop(i))
    BY DEF BusRamTick, RamTick
  <2>2. MP!MemoryPorts(i)
    BY <1>3, <2>1 DEF MP!MemoryPorts, MemoryPorts, MP!IndexOf, IndexOf, MP!GranuleOf, GranuleOf,
       MP!Bits, Bits
  <2>3. MP!MismatchLatch(i)
    BY <2>1 DEF MP!MismatchLatch, MismatchLatch
  <2>4. RamIdle(i) => MP!RamIdle(i)
    BY DEF MP!RamIdle, RamIdle, MP!DataSel, DataSel
  <2>5. RamWriteWord => MP!RamWriteWord
    BY DEF MP!RamWriteWord, RamWriteWord
  <2>6. RamStop(i) => MP!RamStop(i)
    BY DEF MP!RamStop, RamStop, MP!TagOf, TagOf, MP!Bits, Bits
  <2> QED BY <2>1, <2>2, <2>3, <2>4, <2>5, <2>6 DEF MP!RamTick
<1>5. ASSUME NEW d PROVE MP!DataFromBus(d) = DataFromBus(d)
  BY DEF MP!DataFromBus, DataFromBus, MP!SignExt, SignExt, MP!NoSelectData, NoSelectData
<1>6. MP!MemSel(op) = MemSel(op) /\ MP!WriteOp = WriteOp
  BY DEF MP!MemSel, MemSel, MP!WriteOp, WriteOp
<1>7. BusTick(en, op, addr, data, ack, RamDataOut(i))
  BY DEF BusRamTick
<1>8. MP!BusTick(en, op, addr, data, ack, RamDataOut(i))
  BY <1>5, <1>6, <1>7 DEF MP!BusTick, BusTick
<1> QED BY <1>1, <1>2, <1>4, <1>8 DEF MP!Clock, MP!BusRamTick

\* Without a request the other inputs of the bus master do not matter.
LEMMA NoRequestTick ==
  ASSUME NEW op, NEW addr, NEW data, NEW op2, NEW addr2, NEW data2, NEW clear,
         BusRamTick(FALSE, op, addr, data, check, clear)
  PROVE  BusRamTick(FALSE, op2, addr2, data2, check, clear)
BY DEF BusRamTick, BusTick

\* Whatever the main machine does at an edge is one of the things the client
\* of MemPath does.
LEMMA ClientStep ==
  ASSUME TypeOK, ControlInv, ClearWhenQuiet, AddressReady, HalvesAligned,
         NEW x, NEW o, Edge(x, o), ~x.rst
  PROVE  MP!Next
<1>1. TableFacts(x, o)
  BY TableRead
<1>2. BusRamTick(o.bus.en, o.bus.op, o.bus.addr, insn.data, check, tagsIrqClear)
  BY EdgeBus
<1>3. check' = IF state \notin {"PRE_FETCH", "LOAD1", "STORE1"} THEN check ELSE o.check
  BY DEF Edge, CpuClock, MainRegisters
<1>4. /\ o.bus.op \in BusOp /\ o.bus.addr \in Word /\ insn.data \in Word
      /\ o.check \in BOOLEAN /\ check \in BOOLEAN /\ tagsIrqClear \in BOOLEAN
      /\ o.bus.en \in BOOLEAN
  BY DEF Edge, Outputs, TypeOK, CpuTypeOK, CsrTypeOK, Insn
<1>5. CASE o.bus.en
  <2>1. state \in {"PRE_FETCH", "PREPAIR_UNALIGNED_FETCH", "LOAD1", "STORE1"}
    BY <1>1, <1>5 DEF TableFacts, DriveTable
  <2>2. ~busy /\ ~tagsIrqClear
    BY <2>1 DEF ControlInv, Waiting, Acknowledging
  <2>3. o.bus.en = TRUE /\ tagsIrqClear = FALSE
    BY <1>4, <1>5, <2>2 DEF Edge, Outputs
  <2>4. MP!Clock(TRUE, o.bus.op, o.bus.addr, insn.data, FALSE)
    BY <1>2, <2>3, SamePath
  <2>5. MP!Aligned(o.bus.op, o.bus.addr)
    <3>1. CASE state \in {"PRE_FETCH", "PREPAIR_UNALIGNED_FETCH"}
      BY <1>1, <3>1 DEF TableFacts, DriveTable, Access, MP!Aligned
    <3>2. CASE state \in {"LOAD1", "STORE1"}
      <4>1. o.bus.op = insn.op /\ o.bus.addr = insn.alu
        BY <1>1, <3>2 DEF TableFacts, DriveTable, Access, AddressReady
      <4>2. insn.op \in {"READH", "READHU", "WRITEH"} => 0 \notin insn.alu
        BY DEF ControlInv, Dispatched, HalvesAligned, Nop
      <4> QED BY <4>1, <4>2 DEF MP!Aligned
    <3> QED BY <2>1, <3>1, <3>2
  <2>6. o.bus.op \in {"READT", "WRITET"} => ~check'
    <3>1. CASE state \in {"PRE_FETCH", "PREPAIR_UNALIGNED_FETCH"}
      BY <1>1, <3>1 DEF TableFacts, DriveTable, Access
    <3>2. CASE state \in {"LOAD1", "STORE1"}
      <4>1. o.bus.op = insn.op
        BY <1>1, <3>2 DEF TableFacts, DriveTable, Access
      <4>2. check' = DataCheck
        BY <1>1, <1>3, <3>2 DEF TableFacts, DriveTable
      <4>3. insn.op \in {"READT", "WRITET"} => ~DataCheck
        BY DEF DataCheck
      <4> QED BY <4>1, <4>2, <4>3
    <3> QED BY <2>1, <3>1, <3>2
  <2>7. MP!Issue(o.bus.op, o.bus.addr, insn.data, check') /\ check' \in BOOLEAN
    BY <1>3, <1>4, <2>2, <2>4, <2>5, <2>6 DEF MP!Issue
  <2> QED BY <1>4, <2>7 DEF MP!Next
<1>6. CASE ~o.bus.en
  <2>1. check' = check
    BY <1>1, <1>3, <1>6 DEF TableFacts, DriveTable
  <2>2. MP!Clock(FALSE, "READW", adr, dat, tagsIrqClear)
    <3>1. o.bus.en = FALSE
      BY <1>4, <1>6
    <3>2. BusRamTick(FALSE, "READW", adr, dat, check, tagsIrqClear)
      BY <1>2, <3>1, NoRequestTick
    <3> QED BY <3>2, SamePath
  <2>3. CASE tagsIrqClear
    <3>1. ~busy /\ ramState = "IDLE" /\ ~tagMismatch /\ tagsIrqClear = TRUE
      BY <1>4, <2>3 DEF ClearWhenQuiet
    <3> QED BY <2>1, <2>2, <3>1 DEF MP!ClearIrq, MP!Next
  <2>4. CASE ~tagsIrqClear
    <3>1. tagsIrqClear = FALSE
      BY <1>4, <2>4
    <3> QED BY <2>1, <2>2, <3>1 DEF MP!Wait, MP!Next
  <2> QED BY <2>3, <2>4
<1> QED BY <1>5, <1>6

\* The CPU drives bus and RAM the way MemPath's client does, so that what is
\* proved of the memory path (each access happens once and atomically, each
\* violation is reported before the next access) holds for every program.
THEOREM CoreUsesMemPath ==
  ASSUME NeverHalted, NeverReset, DecoderKeeps, HalvesAligned
  PROVE  Spec => MP!Spec
<1>1. Init => MP!Init /\ AddressReady
  BY DEF Init, CpuInit, MP!Init, MP!WordIndex, MP!Granule, WordIndex, Granule, AddressReady
<1>2. TypeOK /\ CsrOpKnown /\ ControlInv /\ AddressReady /\ [Tick]_vars => AddressReady'
  <2> SUFFICES ASSUME TypeOK, CsrOpKnown, ControlInv, AddressReady, [Tick]_vars
               PROVE  AddressReady'
    OBVIOUS
  <2>1. CASE Tick
    <3>1. PICK host \in HostPins : \E x, o : Edge(x, o) /\ x.halt = host.halt /\ x.rst = host.rst
      BY <2>1, TickEdge
    <3>2. PICK x, o : Edge(x, o) /\ x.halt = host.halt
      BY <3>1
    <3>3. ~x.halt
      BY <3>2 DEF NeverHalted
    <3> QED BY <3>2, <3>3, AddressReadyStep
  <2>2. CASE UNCHANGED vars
    BY <2>2 DEF vars, coreVars, AddressReady
  <2> QED BY <2>1, <2>2
<1>3. TypeOK /\ CsrOpKnown /\ ControlInv /\ ClearWhenQuiet /\ AddressReady /\ [Tick]_vars
        => [MP!Next]_(MP!vars)
  <2> SUFFICES ASSUME TypeOK, CsrOpKnown, ControlInv, ClearWhenQuiet, AddressReady, [Tick]_vars
               PROVE  [MP!Next]_(MP!vars)
    OBVIOUS
  <2>1. CASE Tick
    <3>1. PICK host \in HostPins : \E x, o : Edge(x, o) /\ x.halt = host.halt /\ x.rst = host.rst
      BY <2>1, TickEdge
    <3>2. PICK x, o : Edge(x, o) /\ x.rst = host.rst
      BY <3>1
    <3>3. ~x.rst
      BY <3>2 DEF NeverReset
    <3> QED BY <3>2, <3>3, ClientStep
  <2>2. CASE UNCHANGED vars
    BY <2>2 DEF vars, coreVars, busVars, ramVars, MP!vars, MP!ramVars, MP!busVars
  <2> QED BY <2>1, <2>2
<1> QED BY <1>1, <1>2, <1>3, ClearNeverRaces, ControlHolds, CoreTypes, PTL DEF Spec, MP!Spec

\* For every program, the CPU's loads, stores, lt, st and fetches are atomic
\* accesses of a byte memory with tags, and each violation raises irq before
\* the next access takes effect.
THEOREM CoreMemoryIsAtomic ==
  ASSUME NeverHalted, NeverReset, DecoderKeeps, HalvesAligned
  PROVE  Spec => MP!ImplementsTaggedMemory
<1>1. Spec => MP!Spec
  BY CoreUsesMemPath
<1>2. /\ RamTop \in Int /\ GranuleLow \in Int
      /\ 2 <= GranuleLow /\ GranuleLow <= RamTop /\ RamTop < 28
  BY RamAssumption
<1>3. /\ BusOp \subseteq MP!BusOp
      /\ Word \subseteq MP!Word
      /\ Word \subseteq MP!Word
  BY DEF MP!BusOp, MP!ReadOp, MP!WriteOp, MP!Word, BusOp, ReadOp, WriteOp, Word
<1>4. NoAccess \notin [op : MP!BusOp, addr : MP!Word, data : MP!Word, check : BOOLEAN]
  BY DEF NoAccess, MP!BusOp, MP!ReadOp, MP!WriteOp
<1>5. MP!Spec => MP!ImplementsTaggedMemory
  BY <1>2, <1>3, <1>4, MP!Refinement
<1> QED BY <1>1, <1>5

-----------------------------------------------------------------------------
(* Traps, mret and the check of fetches: what the sequencers have saved    *)
(* and where the program goes on.  First the two sequencers.              *)

\* CauseRecorded for the write that is under way; a violation taken while
\* tags.LSEN is off has no cause of its own.
CauseSettled ==
  IF execDone
  THEN Settled("MCAUSE") = CASE insn.sys = "ECALL" -> CAUSE_ECALL
                             [] insn.sys = "EBREAK" -> CAUSE_BREAK
                             [] OTHER -> CAUSE_INVALID_INSTRUCTION
  ELSE \/ irqTimerEn /\ Settled("MCAUSE") = CAUSE_TIMER_INTERRUPT
       \/ irq /\ tagsEn /\ Settled("MCAUSE") = CAUSE_TAG_MISMATCH
       \/ irq /\ ~tagsEn /\ Settled("MCAUSE") \in {{}, CAUSE_TIMER_INTERRUPT}

\* What the trap sequencer has saved so far.
TrapSaved ==
  state = "TRAP" =>
    /\ CauseSettled
    /\ trapState = "LOAD_STATUS" => csrBusy \/ storedAddr = "MSTATUS"
    /\ trapState = "STORE_STATUS" => /\ storedAddr = "MSTATUS" /\ ~csrWe
                                     /\ csrData = csrFile["MSTATUS"]
    /\ trapState \in {"LOAD_STATUS", "STORE_STATUS"} /\ ~execDone
         => MIE \in Settled("MSTATUS")
    /\ trapState \notin {"LOAD_STATUS", "STORE_STATUS"} =>
         ~irqEn /\ (~execDone => MPIE \in Settled("MSTATUS"))
    /\ trapState \notin {"LOAD_STATUS", "STORE_STATUS", "STORE_EPC"}
         => Settled("MEPC") = pc
    /\ trapState = "LOAD_TVEC" => csrBusy \/ storedAddr = "MTVEC"
    /\ trapState = "IDLE" => /\ storedAddr = "MTVEC" /\ ~csrWe
                             /\ csrData = csrFile["MTVEC"]

\* What the mret sequencer has read so far.
MretSaved ==
  state = "MRET" =>
    /\ mretState = "STORE_STATUS" =>
         /\ storedAddr = "MSTATUS" /\ ~csrWe
         /\ csrBusy \/ csrData = csrFile["MSTATUS"]
    /\ mretState # "STORE_STATUS" => (irqEn <=> MPIE \in Settled("MSTATUS"))
    /\ mretState = "LOAD_EPC" => csrBusy \/ storedAddr = "MEPC"
    /\ mretState = "IDLE" => /\ storedAddr = "MEPC" /\ ~csrWe
                             /\ csrData = csrFile["MEPC"]

-----------------------------------------------------------------------------
(* The check of a fetch. *)

\* The address of the second half of an instruction that straddles words.
SecondHalf == AddBit(pc, 1, PcTop)

\* The comparison of the tags of a fetch, one half after the other, on its
\* way from the RAM to irq.
FetchChecked ==
  /\ state = "FETCH" => /\ adr = pc /\ check = tagsIfEn
                        /\ ~busy /\ tagsIfEn /\ ~TagMatches(pc) => tagMismatch
  /\ state \in {"PREPAIR_UNALIGNED_FETCH", "FETCH_MORE"} =>
       /\ check = tagsIfEn
       /\ tagsIfEn /\ ~TagMatches(pc) => irq
  /\ state = "PREPAIR_UNALIGNED_FETCH" => aluOut = SecondHalf
  /\ state = "FETCH_MORE" =>
       /\ adr = SecondHalf
       /\ ~busy /\ tagsIfEn /\ ~TagMatches(SecondHalf) => tagMismatch
  /\ state = "DECODE" /\ tagsIfEn =>
       \/ irq
       \/ /\ TagMatches(pc)
          /\ insn.long /\ 1 \in pc => TagMatches(SecondHalf)
  /\ NoMistaggedExec

-----------------------------------------------------------------------------
(* The trap sequencer. *)

\* EdgeRegisters that neither sequencer disturbs while the main machine waits in
\* TRAP or MRET.
LEMMA HeldInTrap ==
  ASSUME TypeOK, ControlInv, NEW x, NEW o, Edge(x, o), ~x.rst,
         state \in {"TRAP", "MRET", "DECODE", "SYSTEM"}
  PROVE  /\ pc' = pc /\ insn' = insn /\ execDone' = execDone
         /\ irq => irq'
<1>1. RegisterEqs(x, o) /\ TableFacts(x, o)
  BY EdgeRegisters, TableRead
<1>2. pc' = pc
  BY DEF Edge, CpuClock, MainRegisters
<1>3. insn' = insn /\ execDone' = execDone
  BY <1>1 DEF RegisterEqs, TableFacts, DriveTable
<1>4. ~tagsIrqClear
  BY DEF ControlInv, Acknowledging
<1>5. irq => irq'
  BY <1>4 DEF Edge, RamTick, MismatchLatch, RamPins, RamInputs
<1> QED BY <1>2, <1>3, <1>5

\* A trap starts: the main machine writes mcause while the sequencer leaves
\* its idle state.
LEMMA TrapStarts ==
  ASSUME TypeOK, ControlInv, ShadowsHold, LegalInsns, NEW x, NEW o, Edge(x, o), ~x.halt,
         ~x.rst, state # "TRAP", state' = "TRAP"
  PROVE  TrapSaved'
<1>1. RegisterEqs(x, o) /\ TableFacts(x, o)
  BY EdgeRegisters, TableRead
<1>2. insn.stage # "TRAP"
  BY DEF ControlInv, Dispatched, LegalInsns, Nop
<1>3. state \in {"DECODE", "SYSTEM"} /\ TrapRequested(x)
  BY <1>1, <1>2 DEF RegisterEqs, TableFacts, NextTable, CpuStates, TrapRequested
<1>4. ~csrBusy /\ ~HandlingTrap /\ ~HandlingMret /\ trapState = "IDLE"
  BY <1>3 DEF ControlInv, Waiting, HandlingTrap, TypeOK, CpuTypeOK
<1>5. trapState' = "LOAD_STATUS"
  BY <1>1, <1>3, <1>4 DEF RegisterEqs, NextTrapState, TableFacts, DriveTable
<1>6. CsrMux(o.csr) = o.csr
  BY <1>4 DEF CsrMux
<1>7. PICK cause \in Word :
        /\ o.csr = CsrWrite("MCAUSE", cause)
        /\ state = "DECODE" =>
             cause = IF x.tags /\ tagsEn THEN CAUSE_TAG_MISMATCH
                     ELSE IF x.timer THEN CAUSE_TIMER_INTERRUPT ELSE {}
        /\ state = "SYSTEM" /\ insn.sys = "ECALL" => cause = CAUSE_ECALL
        /\ state = "SYSTEM" /\ insn.sys = "EBREAK" => cause = CAUSE_BREAK
        /\ state = "SYSTEM" /\ insn.sys = "INVALID" => cause = CAUSE_INVALID_INSTRUCTION
  <2> DEFINE d == IF x.tags /\ tagsEn THEN CAUSE_TAG_MISMATCH
                  ELSE IF x.timer THEN CAUSE_TIMER_INTERRUPT ELSE {}
  <2>1. /\ CAUSE_ECALL \in Word /\ CAUSE_BREAK \in Word /\ d \in Word
        /\ CAUSE_INVALID_INSTRUCTION \in Word
    BY SMT DEF CAUSE_ECALL, CAUSE_BREAK, CAUSE_INVALID_INSTRUCTION, CAUSE_TAG_MISMATCH,
       CAUSE_TIMER_INTERRUPT, Word
  <2>2. state = "DECODE" => o.csr = CsrWrite("MCAUSE", d)
    BY <1>1, <1>3 DEF TableFacts, CsrTable
  <2> HIDE DEF d
  <2>3. CASE state = "DECODE"
    BY <2>1, <2>2, <2>3 DEF d
  <2>4. CASE state = "SYSTEM"
    <3>1. insn.sys \in {"ECALL", "EBREAK", "INVALID"}
      BY <1>3, <2>4 DEF TrapRequested
    <3> QED BY <1>1, <2>1, <2>4, <3>1 DEF TableFacts, CsrTable
  <2> QED BY <1>3, <2>3, <2>4
<1>8. /\ CsrMux(o.csr).en /\ CsrMux(o.csr).we /\ CsrMux(o.csr).addr = "MCAUSE"
      /\ CsrMux(o.csr).data = cause
  BY <1>6, <1>7 DEF CsrWrite
<1>9. /\ Settled("MCAUSE")' = cause
      /\ Settled("MSTATUS")' = Settled("MSTATUS")
  <2>1. "MCAUSE" \in Csrs /\ "MSTATUS" \in Csrs
    BY DEF Csrs
  <2> QED BY <1>4, <1>8, <2>1, SettledStep DEF ControlInv, Index
<1>10. /\ irqTimerEn' = irqTimerEn /\ tagsEn' = tagsEn /\ csrBusy'
  <2>1. csrBusy'
    BY <1>1, <1>4, <1>8 DEF RegisterEqs, CsrTick, CsrRequest
  <2> QED BY <1>8, <2>1, ShadowStep DEF ControlInv
<1>11. /\ pc' = pc /\ insn' = insn /\ execDone' = execDone /\ (irq => irq')
  BY <1>3, HeldInTrap
<1>12. execDone <=> state = "SYSTEM"
  BY <1>3 DEF ControlInv, Flags
<1>13. CauseSettled'
  <2>1. CASE state = "SYSTEM"
    <3>1. insn.sys \in {"ECALL", "EBREAK", "INVALID"}
      BY <1>3, <2>1 DEF TrapRequested
    <3> QED BY <1>7, <1>9, <1>11, <1>12, <2>1, <3>1 DEF CauseSettled
  <2>2. CASE state = "DECODE"
    <3>1. (x.timer /\ irqTimerEn) \/ irq
      BY <1>3, <2>2 DEF TrapRequested, InterruptOccured, Edge
    <3>2. x.tags = irq
      BY DEF Edge
    <3> QED BY <1>7, <1>9, <1>10, <1>11, <1>12, <2>2, <3>1, <3>2 DEF CauseSettled
  <2> QED BY <1>3, <2>1, <2>2
<1>14. ~execDone' => MIE \in Settled("MSTATUS")'
  <2>1. ~execDone => irqEn
    BY <1>3, <1>12 DEF TrapRequested
  <2>2. ~SettingStatus
    BY <1>4 DEF SettingStatus, HandlingTrap, HandlingMret
  <2> QED BY <1>9, <1>11, <2>1, <2>2 DEF ShadowsHold
<1> QED BY <1>5, <1>10, <1>13, <1>14 DEF TrapSaved

\* The port while the trap sequencer, or nobody, drives it.
LEMMA TrapPort ==
  ASSUME TypeOK, ControlInv, NEW x, NEW o, Edge(x, o), ~x.rst, state = "TRAP"
  PROVE  LET c == CsrMux(o.csr)
         IN  /\ trapState = "LOAD_STATUS" => c = CsrRead("MSTATUS")
             /\ trapState = "STORE_STATUS" =>
                  c = CsrWrite("MSTATUS", (csrData \ {MIE, MPIE})
                                            \cup {b \in {MPIE} : MIE \in csrData})
             /\ trapState = "STORE_EPC" => c = CsrWrite("MEPC", pc)
             /\ trapState = "STORE_TVAL" => c = CsrWrite("MTVAL", pc)
             /\ trapState = "LOAD_MIP" => c = CsrRead("MIP")
             /\ trapState = "STORE_MIP" => c = CsrWrite("MIP", csrData \cup {MTI})
             /\ trapState = "LOAD_TVEC" => c = CsrRead("MTVEC")
             /\ trapState = "IDLE" => c = NoCsr
             /\ trapState # "RESET"
<1>1. ~HandlingMret /\ trapState # "RESET"
  BY DEF ControlInv, Waiting
<1>2. o.csr = NoCsr
  BY TableRead DEF TableFacts, CsrTable
<1>3. trapState = "IDLE" => CsrMux(o.csr) = NoCsr
  BY <1>1, <1>2 DEF CsrMux, HandlingTrap
<1>4. trapState # "IDLE" => CsrMux(o.csr) = TrapCsr
  BY <1>1 DEF CsrMux, HandlingTrap
<1> QED BY <1>1, <1>3, <1>4 DEF TrapCsr

\* The memory behind the port.
LEMMA PortStep ==
  ASSUME TypeOK, ControlInv, NEW x, NEW o, Edge(x, o), ~x.rst
  PROVE  LET c == CsrMux(o.csr)
         IN  /\ c.en \in BOOLEAN /\ c.we \in BOOLEAN
             /\ csrBusy' = (c.en /\ ~csrBusy)
             /\ storedAddr' = IF c.en THEN c.addr ELSE storedAddr
             /\ csrBusy => ~csrWe'
             /\ csrWe' => c.we
             /\ \A r \in Csrs : storedAddr = r => csrData' = csrFile[r]
             /\ \A r \in Csrs : csrFile'[r] = Settled(r)
             /\ \A r \in Csrs :
                  Settled(r)' = IF ~csrBusy /\ c.en /\ c.we /\ Index(c.addr) = r
                                THEN c.data ELSE Settled(r)
<1> DEFINE c == CsrMux(o.csr)
<1>1. CsrTick(c)
  BY EdgeRegisters DEF RegisterEqs
<1>2. c.en \in BOOLEAN /\ c.we \in BOOLEAN
  <2>1. c \in CsrReq
    BY CsrMuxType DEF Edge, Outputs, TypeOK
  <2> QED BY <2>1 DEF CsrReq
<1>3. csrWe \in BOOLEAN /\ csrBusy \in BOOLEAN /\ (csrWe => csrBusy)
  BY DEF TypeOK, CpuTypeOK, CsrTypeOK, ControlInv, Waiting
<1>4. \A r \in Csrs : storedAddr = r => csrData' = csrFile[r]
  BY <1>1 DEF CsrTick, CsrPort, Index
<1>5. /\ \A r \in Csrs : csrFile'[r] = Settled(r)
      /\ \A r \in Csrs :
           Settled(r)' = IF ~csrBusy /\ c.en /\ c.we /\ Index(c.addr) = r
                         THEN c.data ELSE Settled(r)
  BY SettledStep DEF ControlInv
<1> HIDE DEF c
<1>6. /\ csrBusy' = (c.en /\ ~csrBusy)
      /\ storedAddr' = IF c.en THEN c.addr ELSE storedAddr
      /\ csrBusy => ~csrWe'
      /\ csrWe' => c.we
  BY <1>1, <1>2, <1>3 DEF CsrTick, CsrRequest
<1> QED BY <1>2, <1>4, <1>5, <1>6 DEF c

\* The sequencer goes on: it saves mstatus, mepc and mtval and ends with the
\* handler's address on the port.
LEMMA TrapGoesOn ==
  ASSUME TypeOK, ControlInv, TrapSaved, NEW x, NEW o, Edge(x, o), ~x.halt, ~x.rst,
         state = "TRAP", state' = "TRAP"
  PROVE  TrapSaved'
<1> DEFINE c == CsrMux(o.csr)
<1>1. /\ trapState = "LOAD_STATUS" => c = CsrRead("MSTATUS")
      /\ trapState = "STORE_STATUS" =>
           c = CsrWrite("MSTATUS", (csrData \ {MIE, MPIE})
                                     \cup {b \in {MPIE} : MIE \in csrData})
      /\ trapState = "STORE_EPC" => c = CsrWrite("MEPC", pc)
      /\ trapState = "STORE_TVAL" => c = CsrWrite("MTVAL", pc)
      /\ trapState = "LOAD_MIP" => c = CsrRead("MIP")
      /\ trapState = "STORE_MIP" => c = CsrWrite("MIP", csrData \cup {MTI})
      /\ trapState = "LOAD_TVEC" => c = CsrRead("MTVEC")
      /\ trapState = "IDLE" => c = NoCsr
      /\ trapState # "RESET"
  BY TrapPort
<1>2. trapState \in {"RESET", "IDLE", "LOAD_STATUS", "STORE_STATUS", "STORE_EPC",
                     "STORE_TVAL", "LOAD_MIP", "STORE_MIP", "LOAD_TVEC"}
  BY DEF TypeOK, CpuTypeOK
<1>3. /\ c.en \in BOOLEAN /\ c.we \in BOOLEAN
      /\ csrBusy' = (c.en /\ ~csrBusy)
      /\ storedAddr' = IF c.en THEN c.addr ELSE storedAddr
      /\ csrBusy => ~csrWe'
      /\ csrWe' => c.we
      /\ \A r \in Csrs : storedAddr = r => csrData' = csrFile[r]
      /\ \A r \in Csrs : csrFile'[r] = Settled(r)
      /\ \A r \in Csrs :
           Settled(r)' = IF ~csrBusy /\ c.en /\ c.we /\ Index(c.addr) = r
                         THEN c.data ELSE Settled(r)
  BY PortStep
<1>4. /\ irqEn' = IF c.we /\ c.addr = "MSTATUS" THEN MIE \in c.data ELSE irqEn
      /\ irqTimerEn' = IF c.we /\ c.addr = "MIE" THEN MTI \in c.data ELSE irqTimerEn
      /\ tagsEn' = IF c.we /\ c.addr = "MTAGS" THEN LSEN \in c.data ELSE tagsEn
  BY ShadowStep DEF ControlInv
<1>5. /\ pc' = pc /\ insn' = insn /\ execDone' = execDone /\ (irq => irq')
  BY HeldInTrap
<1>6. trapState' = (IF csrBusy THEN trapState ELSE NextTrapState(x, o.trap)) /\ ~o.trap
  BY EdgeRegisters, TableRead DEF RegisterEqs, TableFacts, DriveTable, TrapRequested
<1>7. "MSTATUS" \in Csrs /\ "MEPC" \in Csrs /\ "MTVEC" \in Csrs /\ "MCAUSE" \in Csrs
      /\ \A r \in Csrs : Index(r) = r
  BY DEF Csrs, Index
<1> HIDE DEF c
<1>8. /\ trapState = "LOAD_STATUS" => c.en /\ ~c.we /\ c.addr = "MSTATUS"
      /\ trapState = "STORE_STATUS" => c.en /\ c.we /\ c.addr = "MSTATUS"
      /\ trapState = "STORE_EPC" => c.en /\ c.we /\ c.addr = "MEPC" /\ c.data = pc
      /\ trapState = "STORE_TVAL" => c.en /\ c.we /\ c.addr = "MTVAL"
      /\ trapState = "LOAD_MIP" => c.en /\ ~c.we /\ c.addr = "MIP"
      /\ trapState = "STORE_MIP" => c.en /\ c.we /\ c.addr = "MIP"
      /\ trapState = "LOAD_TVEC" => c.en /\ ~c.we /\ c.addr = "MTVEC"
      /\ trapState = "IDLE" => ~c.en /\ ~c.we
  BY <1>1 DEF CsrRead, CsrWrite, NoCsr
<1>9. trapState = "STORE_STATUS" => /\ MIE \notin c.data
                                    /\ MIE \in csrData => MPIE \in c.data
  <2>1. MIE # MPIE
    BY DEF MIE, MPIE
  <2> HIDE DEF MIE, MPIE
  <2> QED BY <1>1, <2>1 DEF CsrWrite
<1>10. /\ csrBusy => trapState' = trapState
       /\ ~csrBusy =>
            /\ trapState = "LOAD_STATUS" => trapState' = "STORE_STATUS"
            /\ trapState = "STORE_STATUS" => trapState' = "STORE_EPC"
            /\ trapState = "STORE_EPC" => trapState' = "STORE_TVAL"
            /\ trapState = "STORE_TVAL" => trapState' \in {"LOAD_MIP", "LOAD_TVEC"}
            /\ trapState = "LOAD_MIP" => trapState' = "STORE_MIP"
            /\ trapState = "STORE_MIP" => trapState' = "LOAD_TVEC"
            /\ trapState = "LOAD_TVEC" => trapState' = "IDLE"
            /\ trapState = "IDLE" => trapState' = "IDLE"
  BY <1>6 DEF NextTrapState
<1>11. csrBusy \in BOOLEAN /\ csrWe \in BOOLEAN /\ (csrWe => csrBusy)
  BY DEF TypeOK, CpuTypeOK, CsrTypeOK, ControlInv, Waiting
<1>12. CauseSettled'
  <2>1. irqTimerEn' = irqTimerEn /\ tagsEn' = tagsEn
    BY <1>1, <1>2, <1>4, <1>8
  <2>2. Settled("MCAUSE")' = Settled("MCAUSE")
    BY <1>1, <1>2, <1>3, <1>7, <1>8 DEF Index, Csrs
  <2>3. CauseSettled
    BY DEF TrapSaved
  <2> QED BY <1>5, <2>1, <2>2, <2>3 DEF CauseSettled
<1>13. trapState' = "LOAD_STATUS" => csrBusy' \/ storedAddr' = "MSTATUS"
  BY <1>1, <1>2, <1>3, <1>8, <1>10
<1>14. trapState' = "STORE_STATUS" => /\ storedAddr' = "MSTATUS" /\ ~csrWe'
                                      /\ csrData' = csrFile'["MSTATUS"]
  <2> SUFFICES ASSUME trapState' = "STORE_STATUS"
               PROVE  /\ storedAddr' = "MSTATUS" /\ ~csrWe'
                      /\ csrData' = csrFile'["MSTATUS"]
    OBVIOUS
  <2>1. \/ trapState = "LOAD_STATUS" /\ ~csrBusy
        \/ trapState = "STORE_STATUS" /\ csrBusy
    BY <1>1, <1>2, <1>10
  <2>2. storedAddr = "MSTATUS" /\ ~csrWe
    BY <1>11, <2>1 DEF TrapSaved
  <2>3. csrFile'["MSTATUS"] = csrFile["MSTATUS"] /\ csrData' = csrFile["MSTATUS"]
    BY <1>3, <1>7, <2>2 DEF Settled
  <2> QED BY <1>3, <1>8, <2>1, <2>3
<1>15. trapState' \in {"LOAD_STATUS", "STORE_STATUS"} /\ ~execDone' => MIE \in Settled("MSTATUS")'
  <2>1. trapState' \in {"LOAD_STATUS", "STORE_STATUS"} =>
          /\ trapState \in {"LOAD_STATUS", "STORE_STATUS"}
          /\ csrBusy \/ trapState = "LOAD_STATUS"
    BY <1>1, <1>2, <1>10
  <2>2. trapState' \in {"LOAD_STATUS", "STORE_STATUS"} => Settled("MSTATUS")' = Settled("MSTATUS")
    BY <1>3, <1>7, <1>8, <2>1
  <2> QED BY <1>5, <2>1, <2>2 DEF TrapSaved
<1>16. trapState' \notin {"LOAD_STATUS", "STORE_STATUS"} =>
         ~irqEn' /\ (~execDone' => MPIE \in Settled("MSTATUS")')
  <2>1. CASE trapState \in {"LOAD_STATUS", "STORE_STATUS"}
    <3> SUFFICES ASSUME trapState' \notin {"LOAD_STATUS", "STORE_STATUS"}
                 PROVE  ~irqEn' /\ (~execDone' => MPIE \in Settled("MSTATUS")')
      OBVIOUS
    <3>1. trapState = "STORE_STATUS" /\ ~csrBusy
      BY <1>10, <2>1
    <3>2. Settled("MSTATUS")' = c.data
      BY <1>3, <1>7, <1>8, <3>1
    <3>3. ~execDone => MIE \in csrData
      <4>1. Settled("MSTATUS") = csrData
        BY <3>1 DEF TrapSaved, Settled
      <4> QED BY <3>1, <4>1 DEF TrapSaved
    <3>4. ~irqEn'
      BY <1>4, <1>8, <1>9, <3>1
    <3> QED BY <1>5, <1>9, <3>1, <3>2, <3>3, <3>4
  <2>2. CASE trapState \notin {"LOAD_STATUS", "STORE_STATUS"}
    <3>1. ~(c.we /\ c.addr = "MSTATUS")
      BY <1>1, <1>2, <1>8, <2>2
    <3>2. irqEn' = irqEn
      BY <1>4, <3>1
    <3>3. Settled("MSTATUS")' = Settled("MSTATUS")
      BY <1>3, <1>7, <3>1 DEF Index, Csrs
    <3> QED BY <1>5, <2>2, <3>2, <3>3 DEF TrapSaved
  <2> QED BY <2>1, <2>2
<1>17. trapState' \notin {"LOAD_STATUS", "STORE_STATUS", "STORE_EPC"} => Settled("MEPC")' = pc'
  <2> SUFFICES ASSUME trapState' \notin {"LOAD_STATUS", "STORE_STATUS", "STORE_EPC"}
               PROVE  Settled("MEPC")' = pc'
    OBVIOUS
  <2>1. CASE trapState = "STORE_EPC"
    BY <1>3, <1>5, <1>7, <1>8, <1>10, <2>1
  <2>2. CASE trapState # "STORE_EPC"
    <3>1. trapState \notin {"LOAD_STATUS", "STORE_STATUS", "STORE_EPC"}
      BY <1>10, <2>2
    <3>2. ~(c.we /\ c.addr = "MEPC") /\ (c.we => c.addr \in Csrs)
      BY <1>1, <1>2, <1>8, <3>1 DEF Csrs
    <3>3. Settled("MEPC")' = Settled("MEPC")
      BY <1>3, <1>7, <3>2
    <3> QED BY <1>5, <3>1, <3>3 DEF TrapSaved
  <2> QED BY <2>1, <2>2
<1>18. trapState' = "LOAD_TVEC" => csrBusy' \/ storedAddr' = "MTVEC"
  BY <1>1, <1>2, <1>3, <1>8, <1>10
<1>19. trapState' = "IDLE" => /\ storedAddr' = "MTVEC" /\ ~csrWe'
                              /\ csrData' = csrFile'["MTVEC"]
  <2> SUFFICES ASSUME trapState' = "IDLE"
               PROVE  /\ storedAddr' = "MTVEC" /\ ~csrWe'
                      /\ csrData' = csrFile'["MTVEC"]
    OBVIOUS
  <2>1. \/ trapState = "LOAD_TVEC" /\ ~csrBusy
        \/ trapState = "IDLE"
    BY <1>1, <1>2, <1>10
  <2>2. storedAddr = "MTVEC" /\ ~csrWe
    BY <1>11, <2>1 DEF TrapSaved
  <2>3. csrFile'["MTVEC"] = csrFile["MTVEC"] /\ csrData' = csrFile["MTVEC"]
    BY <1>3, <1>7, <2>2 DEF Settled
  <2> QED BY <1>3, <1>8, <2>1, <2>2, <2>3
<1> QED BY <1>12, <1>13, <1>14, <1>15, <1>16, <1>17, <1>18, <1>19 DEF TrapSaved

\* The trap sequencer saves cause and status throughout the trap.
LEMMA TrapSavedAlways ==
  ASSUME NeverHalted, DecoderKeeps, LegalInsns
  PROVE  Spec => []TrapSaved
<1>1. Init => TrapSaved
  BY DEF Init, CpuInit, TrapSaved
<1>2. TypeOK /\ CsrOpKnown /\ ControlInv /\ ShadowsHold /\ TrapSaved /\ [Tick]_vars => TrapSaved'
  <2> SUFFICES ASSUME TypeOK, CsrOpKnown, ControlInv, ShadowsHold, TrapSaved, [Tick]_vars
               PROVE  TrapSaved'
    OBVIOUS
  <2>1. CASE Tick
    <3>1. PICK host \in HostPins : \E x, o : Edge(x, o) /\ x.halt = host.halt /\ x.rst = host.rst
      BY <2>1, TickEdge
    <3>2. PICK x, o : Edge(x, o) /\ x.halt = host.halt /\ x.rst = host.rst
      BY <3>1
    <3>3. ~x.halt
      BY <3>2 DEF NeverHalted
    <3>4. x.rst => state' = "RESET"
      BY <3>2, EdgeRegisters DEF RegisterEqs
    <3>5. CASE state' # "TRAP"
      BY <3>5 DEF TrapSaved
    <3>6. CASE state' = "TRAP"
      BY <3>2, <3>3, <3>4, <3>6, TrapStarts, TrapGoesOn
    <3> QED BY <3>5, <3>6
  <2>2. CASE UNCHANGED vars
    BY <2>2 DEF vars, coreVars, csrVars, ramVars, TrapSaved, CauseSettled, Settled
  <2> QED BY <2>1, <2>2
<1> QED BY <1>1, <1>2, ShadowsHoldAlways, ControlHolds, CoreTypes, PTL DEF Spec

\* The program takes a violation only with load and store checking on: it
\* turns on fetch checking together with it.
LsenWithViolation == state = "TRAP" /\ ~execDone /\ irq => tagsEn

\* Traps are precise: mepc is the address of the instruction that did not
\* execute, mcause says why, interrupts are off with the enable bit stacked,
\* and the CSR port presents the handler's address.
THEOREM TrapsArePrecise ==
  ASSUME NeverHalted, DecoderKeeps, LegalInsns
  PROVE  Spec /\ []LsenWithViolation => []PreciseTrap
<1>1. TypeOK /\ ControlInv /\ TrapSaved /\ LsenWithViolation => PreciseTrap
  <2> SUFFICES ASSUME TypeOK, ControlInv, TrapSaved, LsenWithViolation,
                      state = "TRAP", SequencerDone
               PROVE  /\ csrFile["MEPC"] = pc
                      /\ CauseRecorded
                      /\ csrData = csrFile["MTVEC"]
                      /\ ~irqEn
                      /\ 31 \in csrFile["MCAUSE"] => MPIE \in csrFile["MSTATUS"]
    BY DEF PreciseTrap
  <2>1. trapState = "IDLE" /\ ~csrWe
    BY DEF SequencerDone, ControlInv, Waiting
  <2>2. \A r : Settled(r) = csrFile[r]
    BY <2>1 DEF Settled
  <2>3. /\ csrFile["MEPC"] = pc /\ csrData = csrFile["MTVEC"] /\ ~irqEn
        /\ CauseSettled
        /\ ~execDone => MPIE \in csrFile["MSTATUS"]
    BY <2>1, <2>2 DEF TrapSaved
  <2>4. CauseRecorded
    BY <2>2, <2>3 DEF CauseRecorded, CauseSettled, LsenWithViolation
  <2>5. execDone => 31 \notin csrFile["MCAUSE"]
    <3>1. 31 \notin CAUSE_ECALL /\ 31 \notin CAUSE_BREAK /\ 31 \notin CAUSE_INVALID_INSTRUCTION
      BY SMT DEF CAUSE_ECALL, CAUSE_BREAK, CAUSE_INVALID_INSTRUCTION
    <3> QED BY <2>4, <3>1 DEF CauseRecorded
  <2> QED BY <2>3, <2>4, <2>5
<1> QED BY <1>1, TrapSavedAlways, ControlHolds, CoreTypes, PTL

-----------------------------------------------------------------------------
(* The mret sequencer. *)

\* The main machine reads mstatus while the sequencer leaves its idle state.
LEMMA MretStarts ==
  ASSUME TypeOK, ControlInv, NEW x, NEW o, Edge(x, o), ~x.halt, ~x.rst,
         state # "MRET", state' = "MRET"
  PROVE  MretSaved'
<1>1. RegisterEqs(x, o) /\ TableFacts(x, o)
  BY EdgeRegisters, TableRead
<1>2. state = "SYSTEM" /\ insn.sys = "MRET"
  BY <1>1 DEF RegisterEqs, TableFacts, NextTable, CpuStates, TrapRequested
<1>3. ~csrBusy /\ ~HandlingTrap /\ ~HandlingMret /\ mretState = "IDLE"
  BY <1>2 DEF ControlInv, Waiting, HandlingMret, TypeOK, CpuTypeOK
<1>4. mretState' = "STORE_STATUS"
  BY <1>1, <1>2, <1>3 DEF RegisterEqs, NextMretState, TableFacts, DriveTable
<1>5. CsrMux(o.csr) = CsrRead("MSTATUS")
  BY <1>1, <1>2, <1>3 DEF CsrMux, TableFacts, CsrTable
<1>6. /\ CsrMux(o.csr).en /\ ~CsrMux(o.csr).we /\ CsrMux(o.csr).addr = "MSTATUS"
  BY <1>5 DEF CsrRead
<1>7. storedAddr' = "MSTATUS" /\ ~csrWe' /\ csrBusy'
  BY <1>1, <1>3, <1>6, PortStep
<1> QED BY <1>4, <1>7 DEF MretSaved

\* The word of mstatus is on the port when it counts: the write of the first
\* tick, made from stale data, is dropped because the module is busy.
LEMMA MretGoesOn ==
  ASSUME TypeOK, ControlInv, MretSaved, NEW x, NEW o, Edge(x, o), ~x.halt, ~x.rst,
         state = "MRET", state' = "MRET"
  PROVE  MretSaved'
<1> DEFINE c == CsrMux(o.csr)
<1>1. mretState \in {"RESET", "IDLE", "STORE_STATUS", "LOAD_EPC"} /\ mretState # "RESET"
  BY DEF TypeOK, CpuTypeOK, ControlInv, Waiting
<1>2. /\ mretState = "STORE_STATUS" =>
           c = CsrWrite("MSTATUS", (csrData \ {MIE}) \cup {b \in {MIE} : MPIE \in csrData})
      /\ mretState = "LOAD_EPC" => c = CsrRead("MEPC")
      /\ mretState = "IDLE" => c = NoCsr
  <2>1. ~HandlingTrap
    BY DEF ControlInv, Waiting
  <2>2. o.csr = NoCsr
    BY TableRead DEF TableFacts, CsrTable
  <2> QED BY <2>1, <2>2 DEF CsrMux, HandlingMret, MretCsr
<1>3. /\ c.en \in BOOLEAN /\ c.we \in BOOLEAN
      /\ csrBusy' = (c.en /\ ~csrBusy)
      /\ storedAddr' = IF c.en THEN c.addr ELSE storedAddr
      /\ csrBusy => ~csrWe'
      /\ csrWe' => c.we
      /\ \A r \in Csrs : storedAddr = r => csrData' = csrFile[r]
      /\ \A r \in Csrs : csrFile'[r] = Settled(r)
      /\ \A r \in Csrs :
           Settled(r)' = IF ~csrBusy /\ c.en /\ c.we /\ Index(c.addr) = r
                         THEN c.data ELSE Settled(r)
  BY PortStep
<1>4. irqEn' = IF c.we /\ c.addr = "MSTATUS" THEN MIE \in c.data ELSE irqEn
  BY ShadowStep DEF ControlInv
<1>5. mretState' = (IF csrBusy THEN mretState ELSE NextMretState(o.mret)) /\ ~o.mret
  BY EdgeRegisters, TableRead DEF RegisterEqs, TableFacts, DriveTable
<1>6. "MSTATUS" \in Csrs /\ "MEPC" \in Csrs /\ \A r \in Csrs : Index(r) = r
  BY DEF Csrs, Index
<1>7. csrBusy \in BOOLEAN /\ csrWe \in BOOLEAN /\ (csrWe => csrBusy)
  BY DEF TypeOK, CpuTypeOK, CsrTypeOK, ControlInv, Waiting
<1> HIDE DEF c
<1>8. /\ mretState = "STORE_STATUS" => c.en /\ c.we /\ c.addr = "MSTATUS"
      /\ mretState = "LOAD_EPC" => c.en /\ ~c.we /\ c.addr = "MEPC"
      /\ mretState = "IDLE" => ~c.en /\ ~c.we
  BY <1>2 DEF CsrRead, CsrWrite, NoCsr
<1>9. mretState = "STORE_STATUS" => (MIE \in c.data <=> MPIE \in c.data)
  <2>1. MIE # MPIE
    BY DEF MIE, MPIE
  <2> HIDE DEF MIE, MPIE
  <2> QED BY <1>2, <2>1 DEF CsrWrite
<1>10. /\ csrBusy => mretState' = mretState
       /\ ~csrBusy => /\ mretState = "STORE_STATUS" => mretState' = "LOAD_EPC"
                      /\ mretState = "LOAD_EPC" => mretState' = "IDLE"
                      /\ mretState = "IDLE" => mretState' = "IDLE"
  BY <1>5 DEF NextMretState
<1>11. mretState' = "STORE_STATUS" =>
         /\ storedAddr' = "MSTATUS" /\ ~csrWe'
         /\ csrBusy' \/ csrData' = csrFile'["MSTATUS"]
  <2> SUFFICES ASSUME mretState' = "STORE_STATUS"
               PROVE  /\ storedAddr' = "MSTATUS" /\ ~csrWe' /\ csrData' = csrFile'["MSTATUS"]
    OBVIOUS
  <2>1. mretState = "STORE_STATUS" /\ csrBusy
    BY <1>1, <1>10
  <2>2. storedAddr = "MSTATUS" /\ ~csrWe
    BY <2>1 DEF MretSaved
  <2>3. csrFile'["MSTATUS"] = csrFile["MSTATUS"] /\ csrData' = csrFile["MSTATUS"]
    BY <1>3, <1>6, <2>2 DEF Settled
  <2> QED BY <1>3, <1>8, <2>1, <2>3
<1>12. mretState' # "STORE_STATUS" => (irqEn' <=> MPIE \in Settled("MSTATUS")')
  <2>1. CASE mretState = "STORE_STATUS" /\ ~csrBusy
    BY <1>3, <1>4, <1>6, <1>8, <1>9, <2>1
  <2>2. CASE mretState # "STORE_STATUS"
    <3>1. ~c.we
      BY <1>1, <1>8, <2>2
    <3> QED BY <1>3, <1>4, <1>6, <2>2, <3>1 DEF MretSaved
  <2> QED BY <1>10, <2>1, <2>2
<1>13. mretState' = "LOAD_EPC" => csrBusy' \/ storedAddr' = "MEPC"
  BY <1>1, <1>3, <1>8, <1>10
<1>14. mretState' = "IDLE" => /\ storedAddr' = "MEPC" /\ ~csrWe'
                              /\ csrData' = csrFile'["MEPC"]
  <2> SUFFICES ASSUME mretState' = "IDLE"
               PROVE  /\ storedAddr' = "MEPC" /\ ~csrWe' /\ csrData' = csrFile'["MEPC"]
    OBVIOUS
  <2>1. \/ mretState = "LOAD_EPC" /\ ~csrBusy
        \/ mretState = "IDLE"
    BY <1>1, <1>10
  <2>2. storedAddr = "MEPC" /\ ~csrWe
    BY <1>7, <2>1 DEF MretSaved
  <2>3. csrFile'["MEPC"] = csrFile["MEPC"] /\ csrData' = csrFile["MEPC"]
    BY <1>3, <1>6, <2>2 DEF Settled
  <2> QED BY <1>3, <1>8, <2>1, <2>2, <2>3
<1> QED BY <1>11, <1>12, <1>13, <1>14 DEF MretSaved

\* mret goes back to mepc with the enable bit that the trap stacked.
THEOREM MretReturns ==
  ASSUME NeverHalted, DecoderKeeps
  PROVE  Spec => []MretResumes
<1>1. Init => MretSaved
  BY DEF Init, CpuInit, MretSaved
<1>2. TypeOK /\ CsrOpKnown /\ ControlInv /\ MretSaved /\ [Tick]_vars => MretSaved'
  <2> SUFFICES ASSUME TypeOK, CsrOpKnown, ControlInv, MretSaved, [Tick]_vars
               PROVE  MretSaved'
    OBVIOUS
  <2>1. CASE Tick
    <3>1. PICK host \in HostPins : \E x, o : Edge(x, o) /\ x.halt = host.halt /\ x.rst = host.rst
      BY <2>1, TickEdge
    <3>2. PICK x, o : Edge(x, o) /\ x.halt = host.halt /\ x.rst = host.rst
      BY <3>1
    <3>3. ~x.halt
      BY <3>2 DEF NeverHalted
    <3>4. x.rst => state' = "RESET"
      BY <3>2, EdgeRegisters DEF RegisterEqs
    <3>5. CASE state' # "MRET"
      BY <3>5 DEF MretSaved
    <3>6. CASE state' = "MRET"
      BY <3>2, <3>3, <3>4, <3>6, MretStarts, MretGoesOn
    <3> QED BY <3>5, <3>6
  <2>2. CASE UNCHANGED vars
    BY <2>2 DEF vars, coreVars, csrVars, MretSaved, Settled
  <2> QED BY <2>1, <2>2
<1>3. TypeOK /\ ControlInv /\ MretSaved => MretResumes
  <2> SUFFICES ASSUME TypeOK, ControlInv, MretSaved, state = "MRET", SequencerDone
               PROVE  csrData = csrFile["MEPC"] /\ irqEn = (MPIE \in csrFile["MSTATUS"])
    BY DEF MretResumes
  <2>1. mretState = "IDLE" /\ ~csrWe /\ irqEn \in BOOLEAN
    BY DEF SequencerDone, ControlInv, Waiting, TypeOK, CpuTypeOK, CsrTypeOK
  <2>2. Settled("MSTATUS") = csrFile["MSTATUS"]
    BY <2>1 DEF Settled
  <2> QED BY <2>1, <2>2 DEF MretSaved
<1> QED BY <1>1, <1>2, <1>3, ControlHolds, CoreTypes, PTL DEF Spec

-----------------------------------------------------------------------------
(* Fetches. *)

\* The states from which an instruction is fetched and dispatched.
FetchStates == {"PRE_FETCH", "FETCH", "PREPAIR_UNALIGNED_FETCH", "FETCH_MORE", "DECODE"}

\* From PRE_FETCH to DECODE neither the tags nor the mode of checking change,
\* and a violation that has been found stays.
LEMMA FetchHolds ==
  ASSUME TypeOK, ControlInv, NEW x, NEW o, Edge(x, o), ~x.rst, state \in FetchStates,
         ~TrapRequested(x)
  PROVE  /\ tagsIfEn' = tagsIfEn /\ irqEn' = irqEn /\ pc' = pc /\ tagMem' = tagMem
         /\ irq \/ tagMismatch => irq'
         /\ state # "PRE_FETCH" => check' = check
         /\ adr' = IF o.bus.en THEN o.bus.addr ELSE adr
<1>1. TableFacts(x, o)
  BY TableRead
<1>2. tagsIfEn' = tagsIfEn /\ irqEn' = irqEn
  <2>1. ~HandlingTrap /\ ~HandlingMret
    BY DEF ControlInv, Waiting, FetchStates
  <2>2. CsrMux(o.csr) = NoCsr
    BY <1>1, <2>1 DEF CsrMux, TableFacts, CsrTable, FetchStates
  <2>3. CsrTick(NoCsr)
    BY <2>2, EdgeRegisters DEF RegisterEqs
  <2> QED BY <2>3, PortIdle DEF ControlInv, Waiting
<1>3. pc' = pc /\ (state # "PRE_FETCH" => check' = check)
  BY DEF Edge, CpuClock, MainRegisters, FetchStates
<1>4. ~tagWe
  <2>1. CASE ~busy
    <3>1. ~ack
      BY <2>1 DEF ControlInv, Phases, Handshake, Quiet, Requested, Acknowledged, WritingBack
    <3> QED BY <3>1 DEF ControlInv, Phases, Handshake
  <2>2. CASE busy
    <3>1. busOp = "READW" /\ cyc
      BY <2>2 DEF ControlInv, Phases, Waiting, Handshake, FetchStates
    <3>2. ~we
      BY <3>1 DEF ControlInv, Phases, Handshake, WriteOp
    <3> QED BY <3>2 DEF ControlInv, Phases, Handshake
  <2> QED BY <2>1, <2>2
<1>5. tagMem' = tagMem
  BY <1>4 DEF Edge, RamTick, MemoryPorts
<1>6. irq \/ tagMismatch => irq'
  <2>1. ~tagsIrqClear
    BY DEF ControlInv, Acknowledging, FetchStates
  <2> QED BY <2>1 DEF Edge, RamTick, MismatchLatch, RamPins, RamInputs
<1>7. adr' = IF o.bus.en THEN o.bus.addr ELSE adr
  BY EdgeBus DEF BusRamTick, BusTick
<1> QED BY <1>2, <1>3, <1>5, <1>6, <1>7

\* The end of a read: the RAM compares the tag of the address it has read.
LEMMA FetchCompares ==
  ASSUME TypeOK, ControlInv, NEW x, NEW o, Edge(x, o), state \in {"FETCH", "FETCH_MORE"},
         busy, ~busy'
  PROVE  check /\ ~TagMatches(adr) => tagMismatch'
<1>1. ack
  BY EdgeBus DEF BusRamTick, BusTick
<1>2. busOp = "READW"
  BY DEF ControlInv, Phases
<1>3. ramState = "STOP" /\ tagData = tagMem[GranuleOf(adr)]
  <2>1. Acknowledged /\ tagData = tagMem[GranuleOf(adr)]
    BY <1>1 DEF ControlInv, Phases, Handshake, Quiet, Requested, WritingBack, Acknowledged
  <2>2. ~we
    BY <1>2, <2>1 DEF ControlInv, Phases, Handshake, WriteOp, Acknowledged
  <2> QED BY <2>1, <2>2 DEF Acknowledged
<1>4. tagMismatch' = (check /\ TagOf(adr) # tagData)
  BY <1>3 DEF Edge, RamTick, RamIdle, RamWriteWord, RamStop, RamPins, RamInputs
<1> QED BY <1>3, <1>4 DEF TagMatches

\* A fetch whose tag does not match is reported before DECODE acts on it.
LEMMA FetchCheckedStep ==
  ASSUME TypeOK, ControlInv, FetchChecked, NEW x, NEW o, Edge(x, o), ~x.halt
  PROVE  FetchChecked'
<1>1. RegisterEqs(x, o) /\ TableFacts(x, o)
  BY EdgeRegisters, TableRead
<1>2. CASE x.rst
  BY <1>1, <1>2 DEF RegisterEqs, FetchChecked, NoMistaggedExec
<1>3. CASE ~x.rst /\ (state \notin FetchStates \/ TrapRequested(x))
  <2>1. Stalled(x) => state \notin {"DECODE", "SYSTEM", "EXEC"}
    BY <1>3 DEF ControlInv, Waiting, Stalled
  <2>2. state' \notin {"FETCH", "PREPAIR_UNALIGNED_FETCH", "FETCH_MORE", "DECODE", "EXEC"}
    BY <1>1, <1>3, <2>1
       DEF RegisterEqs, TableFacts, NextTable, CpuStates, FetchStates, TrapRequested
  <2> QED BY <2>2 DEF FetchChecked, NoMistaggedExec
<1>4. CASE ~x.rst /\ state \in FetchStates /\ ~TrapRequested(x)
  <2>0. /\ state' = (IF Stalled(x) THEN state ELSE o.next)
        /\ insn' = (IF Stalled(x) THEN insn ELSE o.insn)
        /\ NextTable(x, o) /\ DriveTable(x, o)
        /\ Stalled(x) <=> busy
    BY <1>1, <1>4 DEF RegisterEqs, TableFacts, ControlInv, Waiting, Stalled, FetchStates
  <2>1. /\ tagsIfEn' = tagsIfEn /\ irqEn' = irqEn /\ pc' = pc /\ tagMem' = tagMem
        /\ irq \/ tagMismatch => irq'
        /\ state # "PRE_FETCH" => check' = check
        /\ adr' = IF o.bus.en THEN o.bus.addr ELSE adr
    BY <1>4, FetchHolds
  <2>3. TagMatches(pc)' <=> TagMatches(pc)
    BY <2>1 DEF TagMatches
  <2>4. SecondHalf' = SecondHalf /\ (TagMatches(SecondHalf)' <=> TagMatches(SecondHalf))
    BY <2>1 DEF SecondHalf, TagMatches
  <2>5. CASE state = "PRE_FETCH"
    <3>1. state' = "FETCH" /\ adr' = pc /\ busy'
      <4>1. state' = "FETCH" /\ o.bus.en /\ o.bus.addr = pc
        BY <2>0, <2>5 DEF NextTable, DriveTable, Access, ControlInv, Waiting
      <4>2. ~ack
        BY <2>5 DEF ControlInv, Phases, AccessStates, Quiet
      <4> QED BY <2>1, <4>1, <4>2, EdgeBus DEF BusRamTick, BusTick
    <3>2. check' = tagsIfEn
      BY <1>4, <2>0, <2>5 DEF Edge, CpuClock, MainRegisters, DriveTable
    <3> QED BY <2>1, <3>1, <3>2 DEF FetchChecked, NoMistaggedExec
  <2>6. CASE state = "FETCH" /\ busy
    <3>1. state' = "FETCH" /\ adr' = adr
      BY <2>0, <2>1, <2>6 DEF DriveTable
    <3>2. ~busy' /\ tagsIfEn' /\ ~TagMatches(pc)' => tagMismatch'
      BY <2>1, <2>3, <2>6, FetchCompares DEF FetchChecked
    <3> QED BY <2>1, <2>6, <3>1, <3>2 DEF FetchChecked, NoMistaggedExec
  <2>7. CASE state = "FETCH" /\ ~busy
    <3>1. tagsIfEn /\ ~TagMatches(pc) => irq'
      BY <2>1, <2>7 DEF FetchChecked
    <3>2. CASE 1 \in pc /\ o.insn.long
      <4>1. state' = "PREPAIR_UNALIGNED_FETCH"
        BY <2>0, <2>7, <3>2 DEF NextTable
      <4>2. aluOut' = SecondHalf
        BY <1>4, <2>0, <2>7, <3>2 DEF Edge, CpuClock, Alu, DriveTable, SecondHalf
      <4> QED BY <2>1, <2>3, <2>4, <2>7, <3>1, <4>1, <4>2 DEF FetchChecked, NoMistaggedExec
    <3>3. CASE ~(1 \in pc /\ o.insn.long)
      <4>1. state' = "DECODE" /\ ~(insn'.long /\ 1 \in pc')
        BY <2>0, <2>1, <2>7, <3>3 DEF NextTable
      <4> QED BY <2>1, <2>3, <3>1, <4>1 DEF FetchChecked, NoMistaggedExec
    <3> QED BY <3>2, <3>3
  <2>8. CASE state = "PREPAIR_UNALIGNED_FETCH"
    <3>1. state' = "FETCH_MORE" /\ adr' = SecondHalf /\ busy'
      <4>1. state' = "FETCH_MORE" /\ o.bus.en /\ o.bus.addr = aluOut
        BY <2>0, <2>8 DEF NextTable, DriveTable, Access, ControlInv, Waiting
      <4>2. ~ack
        BY <2>8 DEF ControlInv, Phases, AccessStates, Quiet
      <4>3. busy'
        BY <4>1, <4>2, EdgeBus DEF BusRamTick, BusTick
      <4> QED BY <2>1, <2>8, <4>1, <4>3 DEF FetchChecked
    <3> QED BY <2>1, <2>3, <2>4, <2>8, <3>1 DEF FetchChecked, NoMistaggedExec
  <2>9. CASE state = "FETCH_MORE" /\ busy
    <3>1. state' = "FETCH_MORE" /\ adr' = adr
      BY <2>0, <2>1, <2>9 DEF DriveTable
    <3>2. ~busy' /\ tagsIfEn' /\ ~TagMatches(SecondHalf)' => tagMismatch'
      BY <2>1, <2>4, <2>9, FetchCompares DEF FetchChecked
    <3> QED BY <2>1, <2>3, <2>4, <2>9, <3>1, <3>2 DEF FetchChecked, NoMistaggedExec
  <2>10. CASE state = "FETCH_MORE" /\ ~busy
    <3>1. state' = "DECODE"
      BY <2>0, <2>10 DEF NextTable
    <3>2. tagsIfEn /\ ~(TagMatches(pc) /\ TagMatches(SecondHalf)) => irq'
      BY <2>1, <2>10 DEF FetchChecked
    <3> QED BY <2>1, <2>3, <2>4, <3>1, <3>2 DEF FetchChecked, NoMistaggedExec
  <2>11. CASE state = "DECODE"
    <3>1. state' = "EXEC" /\ insn' = insn
      BY <1>4, <2>0, <2>11 DEF NextTable, DriveTable, ControlInv, Waiting
    <3>2. irqEn => ~irq
      BY <1>4, <2>11 DEF TrapRequested, InterruptOccured, Edge
    <3> QED BY <2>1, <2>3, <2>4, <2>11, <3>1, <3>2 DEF FetchChecked, NoMistaggedExec, SecondHalf
  <2> QED BY <1>4, <2>5, <2>6, <2>7, <2>8, <2>9, <2>10, <2>11 DEF FetchStates
<1> QED BY <1>1, <1>2, <1>3, <1>4 DEF RegisterEqs

\* With fetch checking and interrupts on, no instruction is executed from a
\* granule that does not carry the tag of pc, second halves included.
THEOREM OnlyTaggedCodeRuns ==
  ASSUME NeverHalted, DecoderKeeps
  PROVE  Spec => []NoMistaggedExec
<1>1. Init => FetchChecked
  BY DEF Init, CpuInit, FetchChecked, NoMistaggedExec
<1>2. TypeOK /\ CsrOpKnown /\ ControlInv /\ FetchChecked /\ [Tick]_vars => FetchChecked'
  <2> SUFFICES ASSUME TypeOK, CsrOpKnown, ControlInv, FetchChecked, [Tick]_vars
               PROVE  FetchChecked'
    OBVIOUS
  <2>1. CASE Tick
    <3>1. PICK host \in HostPins : \E x, o : Edge(x, o) /\ x.halt = host.halt /\ x.rst = host.rst
      BY <2>1, TickEdge
    <3>2. PICK x, o : Edge(x, o) /\ x.halt = host.halt
      BY <3>1
    <3>3. ~x.halt
      BY <3>2 DEF NeverHalted
    <3> QED BY <3>2, <3>3, FetchCheckedStep
  <2>2. CASE UNCHANGED vars
    BY <2>2 DEF vars, coreVars, csrVars, busVars, ramVars, FetchChecked, NoMistaggedExec,
       SecondHalf, TagMatches
  <2> QED BY <2>1, <2>2
<1>3. FetchChecked => NoMistaggedExec
  BY DEF FetchChecked
<1> QED BY <1>1, <1>2, <1>3, ControlHolds, CoreTypes, PTL DEF Spec

=============================================================================
