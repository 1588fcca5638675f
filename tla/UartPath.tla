------------------------------ MODULE UartPath ------------------------------
(***************************************************************************)
(* Software, the CPU's bus master, the UART and whatever listens to it.    *)
(* Software calls _putchar, or Zephyr's poll_out, at any time; so does     *)
(* boot.S, whose __soc_init prints before boot.S writes the divider, which *)
(* it does at every boot.  In the FPGA build the divider has that value    *)
(* already when the CPU starts: the host has written it (fpga.py,          *)
(* uart_set_baud_9600) and the CPU's reset is not the UART's.  A driver    *)
(* that has overwritten the divider since, by a transaction it gave up,    *)
(* is in FpgaHost and not here.  The listener is a UART receiver at that   *)
(* rate.  In the simulation build, whose UART has no divider register, it  *)
(* is the log file.                                                        *)
(***************************************************************************)
EXTENDS WbCpuBus, WbUart

CONSTANTS
  Builds,       \* values of simulation
  Bytes,        \* bytes software prints
  DividerWord,  \* what the host and boot.S write to the divider
  MaxBytes      \* bound on the number of bytes printed

Divider == Value(DividerWord)

ASSUME UartPathAssumption ==
  /\ Builds \subseteq BOOLEAN
  /\ Bytes \subseteq SUBSET (0 .. DataBits - 1)
  /\ MaxBytes \in Nat
  /\ DividerWord \in Word /\ Divider \in 2..MaxDivider

VARIABLES
  issued,      \* the bytes given to _putchar
  rx           \* the receiver: ticks since the start edge, bits, bytes

vars == <<busVars, uartVars, issued, rx>>

Pins == [cyc |-> cyc, we |-> we, addr |-> adr, data |-> dat]
UART_DIVIDER == {27}
UART_DATA == {2, 27}

\* The receiver samples every bit in its middle.  A frame whose stop bit is
\* not high is dropped.
Receiver ==
  LET period == Divider + 2
      Sampled(k) == rx.ticks = period * k + period \div 2
      Restart == [rx EXCEPT !.ticks = 0, !.bits = {}]
      Count == [rx EXCEPT !.ticks = @ + 1]
  IN  rx' = CASE simulation -> rx
              [] ~simulation /\ rx.ticks = 0 ->
                   IF TxLine THEN rx ELSE Count
              [] ~simulation /\ rx.ticks # 0 /\ Sampled(FrameBits - 1) ->
                   IF TxLine THEN [Restart EXCEPT !.bytes = Append(@, rx.bits)]
                   ELSE Restart
              [] ~simulation /\ rx.ticks # 0 /\ Sampled(0) /\ TxLine -> Restart
              [] OTHER ->
                   [Count EXCEPT !.bits =
                      @ \cup {k - 1 : k \in {j \in 1..DataBits : Sampled(j) /\ TxLine}}]

Clock(en, op, addr, data) ==
  /\ BusTick(en, op, addr, data, UartAckOut(Pins), uartData)
  /\ UartTick(Pins)
  /\ Receiver

Configure ==
  /\ ~busy
  /\ Clock(TRUE, "WRITEW", UART_DIVIDER, DividerWord)
  /\ UNCHANGED issued

SendByte(b) ==
  /\ ~busy
  /\ Len(issued) < MaxBytes
  /\ Clock(TRUE, "WRITEB", UART_DATA, b)
  /\ issued' = Append(issued, b)

\* A zero byte is not printed.
Putchar(b) == b # {} /\ SendByte(b)

\* Zephyr's driver prints every byte and sets no baud rate.
PollOut(b) == SendByte(b)

Tick == Clock(FALSE, "READW", {}, {}) /\ UNCHANGED issued

Init ==
  /\ simulation \in Builds /\ UartIdle
  /\ cfgDivider = IF simulation THEN {0} ELSE DividerWord
  /\ busOp = "READB" /\ buffer = {} /\ busy = FALSE /\ cyc = FALSE
  /\ we = FALSE /\ sel = "NONE" /\ adr = {} /\ dat = {}
  /\ issued = <<>>
  /\ rx = [ticks |-> 0, bits |-> {}, bytes |-> <<>>]

Next == Configure \/ Tick \/ \E b \in Bytes : Putchar(b) \/ PollOut(b)

\* The clock never stops.
Spec == Init /\ [][Next]_vars /\ WF_vars(Tick)

-----------------------------------------------------------------------------
TypeOK ==
  /\ BusTypeOK /\ UartTypeOK
  /\ issued \in Seq(Bytes)
  /\ rx.ticks \in 0 .. (Divider + 2) * FrameBits
  /\ rx.bits \subseteq 0 .. DataBits - 1

\* What comes out of the SoC.
Output == IF simulation THEN uartLog ELSE rx.bytes

Channel == INSTANCE ByteChannel WITH Byte <- Bytes, delivered <- Output

\* Every byte software prints comes out exactly once, in order, and does come
\* out: no frame is repeated although the request to send is raised again in
\* the tick in which the bus master sees the acknowledgement, and no
\* acknowledgement of one frame releases the write of the next.
PrintsEveryByte == Channel!Spec

\* _putchar returns only when its byte is out: the log has it, or all its
\* data bits have been on the line and the stop bit is.
ReturnsWhenSent ==
  ~busy =>
    \/ Len(Output) >= Len(issued)
    \/ /\ issued = Append(Output, rx.bits)
       /\ rx.ticks > (Divider + 2) * (FrameBits - 1)
       /\ TxLine

=============================================================================
