------------------------------- MODULE WbMux -------------------------------
(***************************************************************************)
(* The bus multiplexer (rtl/bus/wb_mux.v): one of two masters drives all   *)
(* slaves, and whatever the addressed slave answers goes to both masters.  *)
(* A master's wires are a record cyc, we, sel, addr, data (stb = cyc).     *)
(***************************************************************************)
EXTENDS Words

VARIABLE muxAck   \* ack: answers the CPU's accesses to unmapped addresses

WB_WRONG_DATA == {0, 1, 2, 3, 5, 7, 9, 10, 11, 12, 13, 15,
                  16, 18, 19, 21, 23, 25, 26, 27, 28, 30, 31}

\* wb_periph_select
PeriphSelect(addr) ==
  LET s == Bits(addr, 27, 26)
  IN  CASE s = {} -> "RAM" [] s = {0} -> "TIMER" [] s = {1} -> "UART"
        [] s = {0, 1} -> "NONE"

\* wb_master_*
MasterWires(external, ext, cpu) == IF external THEN ext ELSE cpu

\* The wires to one slave.
SlaveWires(m, slave) ==
  [m EXCEPT !.cyc = m.cyc /\ PeriphSelect(m.addr) = slave]

\* wb_cpu_ack_o, wb_ext_ack_o, wb_*_data_o: acks and datas are the slaves'
\* answers.
CpuAck(m, acks) == IF PeriphSelect(m.addr) = "NONE" THEN muxAck
                   ELSE acks[PeriphSelect(m.addr)]
ExtAck(m, acks) == PeriphSelect(m.addr) # "NONE" /\ acks[PeriphSelect(m.addr)]
DataBack(m, datas) == IF PeriphSelect(m.addr) = "NONE" THEN WB_WRONG_DATA
                      ELSE datas[PeriphSelect(m.addr)]

MuxTick(rst, m) == muxAck' = (~rst /\ m.cyc /\ ~muxAck)

=============================================================================
