-------------------------------- MODULE Soc --------------------------------
(***************************************************************************)
(* The SoC as rtl/soc.v wires it: CPU and host master on the multiplexer,  *)
(* tagged RAM and UART behind it.  SocTick is one positive clock edge; p   *)
(* holds the SoC's input pins: cpuRst, rst, external (the bus master       *)
(* selector), halt, single, step, and addr, data, size, write, start,      *)
(* clear for the host's master; timer is the timer's interrupt line.  The  *)
(* timer's registers are left out: no program here addresses them.         *)
(***************************************************************************)
EXTENDS Cpu, WbRam, WbMux, WbExt, WbUart

CONSTANT PowerUp   \* what a memory word holds before it is written

ASSUME SocAssumption == PowerUp \in Word

socVars == <<coreVars, csrVars, busVars, ramVars, muxAck, extVars, uartVars>>

CpuWires == [cyc |-> cyc, we |-> we, sel |-> sel, addr |-> adr, data |-> dat]
Master(p) == MasterWires(p.external, ExtWires(p), CpuWires)

\* check_tags and clear_tags_mismatch come from the CPU whoever is master.
SocRamPins(p) ==
  LET m == SlaveWires(Master(p), "RAM")
  IN  [cyc |-> m.cyc, we |-> m.we, sel |-> m.sel, addr |-> m.addr,
       data |-> m.data, check |-> check, clear |-> tagsIrqClear]
SocUartPins(p) == SlaveWires(Master(p), "UART")

SlaveAcks(p) == [RAM |-> ack, UART |-> UartAckOut(SocUartPins(p)), TIMER |-> FALSE]
SlaveDatas(p) == [RAM |-> RamDataOut(SocRamPins(p)), UART |-> uartData, TIMER |-> {}]

SocCpuPins(p) ==
  [timer |-> p.timer, tags |-> irq,
   clearMip |-> Master(p).addr \cap (2..4) = {2, 3},
   ack |-> CpuAck(Master(p), SlaveAcks(p)),
   dat |-> DataBack(Master(p), SlaveDatas(p)),
   halt |-> p.halt, single |-> p.single, step |-> p.step, rst |-> p.cpuRst]

SocTick(p) ==
  /\ CpuTick(SocCpuPins(p))
  /\ IF p.rst THEN RamReset(SocRamPins(p)) /\ ExtReset /\ UartReset
     ELSE /\ RamTick(SocRamPins(p))
          /\ ExtTick(p, ExtAck(Master(p), SlaveAcks(p)),
                     DataBack(Master(p), SlaveDatas(p)))
          /\ UartTick(SocUartPins(p))
  /\ MuxTick(p.rst, Master(p))

SocInit ==
  /\ CpuInit /\ ExtInit /\ UartInit({FALSE})
  /\ mem = [w \in WordIndex |-> PowerUp]
  /\ tagMem = [g \in Granule |-> {}]
  /\ ramData = {} /\ tagData = {}
  /\ ramState = "IDLE"
  /\ ack = FALSE /\ irq = FALSE /\ ramWe = FALSE /\ tagWe = FALSE
  /\ tagMismatch = FALSE /\ muxAck = FALSE

SocTypeOK == CpuTypeOK /\ RamTypeOK /\ ExtTypeOK /\ UartTypeOK /\ muxAck \in BOOLEAN

=============================================================================
