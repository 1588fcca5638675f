------------------------------- MODULE BusRam -------------------------------
(***************************************************************************)
(* The CPU's bus master and the tagged RAM, wired together as in soc.v.    *)
(* MemPath drives the pair with an arbitrary client, Core with the CPU.    *)
(***************************************************************************)
EXTENDS WbRam, WbCpuBus

\* What the RAM sees of the bus master's registers; chk is check_tags of
\* cpu.v, clear is clear_mismatch_i.
RamInputs(chk, clear) ==
  [cyc |-> cyc, we |-> we, sel |-> sel, addr |-> adr, data |-> dat,
   check |-> chk, clear |-> clear]

\* One clock edge: the master and the RAM read each other's old registers.
BusRamTick(en, op, addr, data, chk, clear) ==
  /\ RamTick(RamInputs(chk, clear))
  /\ BusTick(en, op, addr, data, ack, RamDataOut(RamInputs(chk, clear)))

-----------------------------------------------------------------------------
\* The four phases of a transaction, by the tick after bus_en: no
\* transaction; request on the bus; acknowledged; late tick of a byte or
\* half write.
Quiet == ~cyc /\ ~ack /\ ramState = "IDLE"
Requested == cyc /\ ~ack /\ ramState = "IDLE"
Acknowledged ==
  /\ cyc /\ ack
  /\ ramState = IF we /\ sel \in {"BYTE", "HALF"} THEN "WRITE_WORD" ELSE "STOP"
WritingBack == ~cyc /\ ~ack /\ ramState = "STOP"

\* The handshake of wb_cpu_bus.v and wb_ram.v: CYC_O and busy rise and fall
\* together; the RAM is in a known phase of the transaction; a write strobe
\* is up exactly in the tick of the acknowledgement and for the memory the
\* transaction selects, so that every store writes once; and the registered
\* read ports then hold the words the bus address selects.
Handshake ==
  /\ busy = cyc
  /\ Quiet \/ Requested \/ Acknowledged \/ WritingBack
  /\ cyc => /\ sel = MemSel(busOp)
            /\ we = (busOp \in WriteOp)
  /\ ramWe = (ack /\ we /\ sel \in DataSel)
  /\ tagWe = (ack /\ we /\ sel = "TAG")
  /\ ack => ramData = mem[IndexOf(adr)]
  /\ ack \/ ramState = "STOP" => tagData = tagMem[GranuleOf(adr)]
  /\ tagMismatch => ~ack /\ ramState = "IDLE"

=============================================================================
