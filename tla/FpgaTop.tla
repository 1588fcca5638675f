------------------------------ MODULE FpgaTop ------------------------------
(***************************************************************************)
(* The FPGA's register file for the host (fpga/fpga.v) around the SoC.  A  *)
(* host access takes effect at one clock edge, the one at which the        *)
(* synchronised chip select falls.  The control register is the set of     *)
(* its 1 bits, by name.                                                    *)
(***************************************************************************)
EXTENDS Soc

VARIABLES
  control,   \* regs_internal[REG_CONTROL]
  addrRegs,  \* regs_internal[REG_HIGH_ADDR], [REG_LOW_ADDR]
  dataRegs   \* regs_internal[REG_HIGH_DATA_IN], [REG_LOW_DATA_IN]

fpgaVars == <<socVars, control, addrRegs, dataRegs>>

ControlBit == {"CPU_RESET", "SOC_RESET", "BUS_MASTER", "START", "WE", "CLEAN",
               "SIZE_LOW", "SIZE_HIGH", "HALT", "SINGLESTEP", "DO_STEP"}

\* What soc0 sees of the registers.
SocPins ==
  [cpuRst |-> "CPU_RESET" \in control, rst |-> "SOC_RESET" \in control,
   external |-> "BUS_MASTER" \in control, timer |-> FALSE,
   halt |-> "HALT" \in control, single |-> "SINGLESTEP" \in control,
   step |-> "DO_STEP" \in control,
   addr |-> addrRegs, data |-> dataRegs,
   size |-> {b \in {0, 1} : <<"SIZE_LOW", "SIZE_HIGH">>[b + 1] \in control},
   write |-> "WE" \in control, start |-> "START" \in control,
   clear |-> "CLEAN" \in control]

\* A read of REG_CONTROL: bit 6 is tran_ready, not the register's.
ControlOut == control \cup {b \in {"READY"} : tranFinished}

\* No host access, or a read, which has no side effect.
NoWrite == [reg |-> "NONE", value |-> {}]

\* One half of a 32-bit register; halves are sets of bits 0..15.
SetLow(w, half) == (w \cap (16..31)) \cup half
SetHigh(w, half) == (w \cap (0..15)) \cup Shl(half, 16)
LowHalf(w) == w \cap (0..15)
HighHalf(w) == Bits(w, 31, 16)

\* Mutation: the step request stays until the next write.
SelfClearing_NoStep(write) ==
  (control \cap {"START"})
    \cup (IF write.reg = "NONE" THEN {} ELSE control \cap {"CLEAN", "DO_STEP"})

\* The bits cleared at this edge, whatever is written to them: START and
\* DO_STEP are pulses of one tick, CLEAN stays until the next write.
SelfClearing(write) ==
  (control \cap {"START", "DO_STEP"})
    \cup (IF write.reg = "NONE" THEN {} ELSE control \cap {"CLEAN"})

FpgaTick(write) ==
  /\ SocTick(SocPins)
  /\ control' = (IF write.reg = "CONTROL" THEN write.value \cap ControlBit
                 ELSE control) \ SelfClearing(write)
  /\ addrRegs' = CASE write.reg = "ADDR_LOW" -> SetLow(addrRegs, write.value)
                   [] write.reg = "ADDR_HIGH" -> SetHigh(addrRegs, write.value)
                   [] OTHER -> addrRegs
  /\ dataRegs' = CASE write.reg = "DATA_LOW" -> SetLow(dataRegs, write.value)
                   [] write.reg = "DATA_HIGH" -> SetHigh(dataRegs, write.value)
                   [] OTHER -> dataRegs

\* reset_i is low.
FpgaReset ==
  /\ SocTick(SocPins)
  /\ control' = {"CPU_RESET", "SOC_RESET", "HALT"}
  /\ addrRegs' = {} /\ dataRegs' = {}

FpgaInit ==
  /\ SocInit
  /\ control = {"CPU_RESET", "SOC_RESET", "HALT"}
  /\ addrRegs = {} /\ dataRegs = {}

FpgaTypeOK ==
  /\ SocTypeOK
  /\ control \subseteq ControlBit
  /\ addrRegs \in Word /\ dataRegs \in Word

=============================================================================
