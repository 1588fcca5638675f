------------------------------- MODULE WbUart -------------------------------
(***************************************************************************)
(* The UART (rtl/uart/wb_uart.v): its bus registers and its transmitter,   *)
(* two processes of one clock that talk through tx_started and finished.   *)
(* UartTick is one positive clock edge; i holds the bus wires before it:   *)
(* cyc, we, addr, data.                                                    *)
(***************************************************************************)
EXTENDS Words, FiniteSetsExt, Sequences

CONSTANTS
  DataBits,   \* data bits of a frame; 8 in the code
  MaxDivider  \* bound on the divider the programs configure

ASSUME UartAssumption == DataBits \in 1..8 /\ MaxDivider \in Nat \ {0}

VARIABLES
  simulation,  \* the build: SIMULATION_RUN is defined
  uartAck,     \* ack
  uartData,    \* data_out
  cfgDivider,  \* cfg_divider
  txStarted,   \* tx_started
  pattern,     \* send_pattern, the set of its 1 bits
  bitcnt,      \* send_bitcnt
  divcnt,      \* send_divcnt, which counts no further than MaxDivider + 1
  inProg,      \* in_prog
  finished,    \* finished
  uartLog      \* what log_file_write has written (simulation only)

uartVars == <<simulation, uartAck, uartData, cfgDivider, txStarted, pattern,
              bitcnt, divcnt, inProg, finished, uartLog>>

FrameBits == DataBits + 2
Value(w) == MapThenSumSet(LAMBDA i : 2^i, w)
LowByte(w) == w \cap (0 .. DataBits - 1)
SANITY_VALUE == {4, 5, 7, 12, 13, 15, 17, 18, 19, 20, 21, 22, 24, 29, 31}

\* uart_reg_sel
RegSel(addr) ==
  CASE addr \cap {2, 3} = {} -> IF simulation THEN "DEFAULT" ELSE "DIVIDER"
    [] addr \cap {2, 3} = {2} -> "DATA"
    [] addr \cap {2, 3} = {3} -> "SANITY"
    [] addr \cap {2, 3} = {2, 3} -> "DEFAULT"

\* wb_ack_o
UartAckOut(i) == uartAck /\ i.cyc

\* An access to register reg.
RegAccess(i, reg) == i.cyc /\ RegSel(i.addr) = reg

\* The transmitter has reported the end of a frame to a write to DATA.
ByteDone(i) == RegAccess(i, "DATA") /\ i.we /\ finished

\* Mutation: the request to send is not withdrawn when the access ends.
TxRequest_Kept(i) == IF RegAccess(i, "DATA") /\ i.we THEN ~finished ELSE txStarted

\* The next value of tx_started.
TxRequest(i) == i.cyc /\ IF RegAccess(i, "DATA") /\ i.we THEN ~finished
                         ELSE txStarted

\* The bus side.  A write to DATA is held until the end of a frame; nothing
\* acknowledges a read of DATA or an access to SANITY.
Registers(i) ==
  /\ uartAck' = (i.cyc /\ (\/ uartAck \/ ByteDone(i)
                           \/ RegAccess(i, "DIVIDER") \/ RegAccess(i, "DEFAULT")))
  /\ cfgDivider' = IF RegAccess(i, "DIVIDER") /\ i.we THEN i.data ELSE cfgDivider
  /\ uartData' = CASE ~i.cyc -> {}
                   [] RegAccess(i, "DIVIDER") /\ ~i.we -> cfgDivider
                   [] RegAccess(i, "SANITY") /\ ~i.we -> SANITY_VALUE
                   [] OTHER -> uartData
  /\ txStarted' = TxRequest(i)
  /\ uartLog' = IF ByteDone(i) /\ simulation
                THEN Append(uartLog, LowByte(i.data)) ELSE uartLog

StartFrame == txStarted /\ bitcnt = 0

ShiftBit == divcnt > Value(cfgDivider) /\ bitcnt # 0

\* Mutation: the end of a frame is reported with its last data bit.
LastBit_Early == inProg /\ bitcnt = 2

LastBit == inProg /\ bitcnt = 1

\* The transmitter: a frame is a start bit 0, the data bits and a stop bit 1,
\* each on the line for cfg_divider + 2 ticks; finished is a pulse of one
\* tick at the start of the stop bit.
Transmitter(i) ==
  LET Fill(bits) == bits \cup {FrameBits - 1}
      shift == ~StartFrame /\ ShiftBit
  IN  /\ pattern' = IF StartFrame THEN Fill(Shl(LowByte(i.data), 1))
                    ELSE IF shift THEN Fill({b - 1 : b \in pattern \ {0}})
                    ELSE pattern
      /\ bitcnt' = IF StartFrame THEN FrameBits
                   ELSE IF shift THEN bitcnt - 1 ELSE bitcnt
      /\ divcnt' = IF StartFrame \/ shift THEN 0
                   ELSE IF divcnt > MaxDivider THEN divcnt ELSE divcnt + 1
      /\ inProg' = (~LastBit /\ (StartFrame \/ inProg))
      /\ finished' = LastBit

\* uart_tx_o: the line is high.
TxLine == 0 \in pattern

UartTick(i) ==
  /\ Registers(i)
  /\ Transmitter(i)
  /\ UNCHANGED simulation

\* rst_i
UartReset ==
  /\ uartAck' = FALSE /\ cfgDivider' = {0} /\ uartData' = {} /\ txStarted' = FALSE
  /\ pattern' = 0 .. FrameBits - 1 /\ bitcnt' = 0 /\ divcnt' = 0
  /\ inProg' = FALSE /\ finished' = FALSE
  /\ UNCHANGED <<simulation, uartLog>>

\* No access, no frame.
UartIdle ==
  /\ uartAck = FALSE /\ uartData = {} /\ txStarted = FALSE
  /\ pattern = 0 .. FrameBits - 1 /\ bitcnt = 0 /\ divcnt = 0
  /\ inProg = FALSE /\ finished = FALSE
  /\ uartLog = <<>>

UartInit(builds) == simulation \in builds /\ cfgDivider = {0} /\ UartIdle

UartTypeOK ==
  /\ simulation \in BOOLEAN
  /\ uartAck \in BOOLEAN /\ txStarted \in BOOLEAN
  /\ inProg \in BOOLEAN /\ finished \in BOOLEAN
  /\ uartData \in Word
  /\ cfgDivider \in Word /\ Value(cfgDivider) <= MaxDivider
  /\ pattern \subseteq 0 .. FrameBits - 1
  /\ bitcnt \in 0..FrameBits
  /\ divcnt \in 0 .. MaxDivider + 1
  /\ \A n \in 1..Len(uartLog) : uartLog[n] \subseteq 0 .. DataBits - 1

=============================================================================
