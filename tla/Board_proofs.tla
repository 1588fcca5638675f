---------------------------- MODULE Board_proofs ----------------------------
(***************************************************************************)
(* Proofs about what surrounds the CPU.  The path from _putchar to the     *)
(* serial line, for every frame length, divider, set of bytes and number   *)
(* of bytes printed; the FPGA's host, for every program, image and pace;   *)
(* the random-number generator, for every width, polynomial and seed: the  *)
(* 32 bits of the code are out of TLC's reach.                             *)
(***************************************************************************)
EXTENDS UartPath, FpgaHost, Lfsr, FiniteSetTheorems, SequenceTheorems, TLAPS

-----------------------------------------------------------------------------
(* The UART: the inductive invariant. *)

\* The write of a byte is on the bus.
Printing == cyc /\ adr = UART_DATA
Configuring == cyc /\ adr = UART_DIVIDER

\* Bus master and registers: what is on the bus is what software asked for,
\* and finished is a pulse.
BusSide ==
  /\ simulation \in BOOLEAN /\ cyc \in BOOLEAN /\ uartAck \in BOOLEAN
  /\ txStarted \in BOOLEAN /\ inProg \in BOOLEAN /\ finished \in BOOLEAN
  /\ busy = cyc /\ issued \in Seq(Bytes)
  /\ cyc => we /\ (Printing \/ Configuring)
  /\ Printing => issued # <<>> /\ dat = issued[Len(issued)]
  /\ Configuring => dat = DividerWord
  /\ finished => ~inProg
  /\ Printing /\ uartAck => ~finished

\* The log has every byte but the one whose write has not been acknowledged.
LogSide ==
  /\ uartLog \in Seq(Bytes)
  /\ Len(issued) = Len(uartLog) + (IF Printing /\ ~uartAck THEN 1 ELSE 0)
  /\ \A n \in 1..Len(uartLog) : uartLog[n] = issued[n]

\* Ticks of a bit, and from its start to its middle.
Period == Divider + 2
Half == Period \div 2

\* Bits of the frame that have been shifted out.
Gone == FrameBits - bitcnt

\* The receiver is within a frame; the frame's stop bit is sampled in its
\* middle.
Live == bitcnt >= 2 \/ (bitcnt = 1 /\ divcnt <= Half)

\* The write that waits on the bus is the one whose frame is sent.
Sending == bitcnt >= 2 \/ (bitcnt = 1 /\ divcnt <= 2)

\* The byte of the frame on the line.
Sent == issued[Len(rx.bytes) + 1]

\* The divider keeps its value, and the two processes of wb_uart.v are in step
\* with the bus: tx_started, raised once more after the end of a frame, is
\* gone before the stop bit is.
InStep ==
  /\ bitcnt \in 0..FrameBits /\ divcnt \in Nat
  /\ bitcnt > 0 => divcnt <= Divider + 1
  /\ Configuring => ~txStarted
  /\ cfgDivider = DividerWord
  /\ inProg <=> bitcnt >= 2 \/ (bitcnt = 1 /\ divcnt = 0)
  /\ finished <=> bitcnt = 1 /\ divcnt = 1
  /\ Sending => /\ Printing
                /\ uartAck <=> bitcnt = 1 /\ divcnt = 2
                /\ txStarted <=> ~uartAck
  /\ bitcnt = 1 /\ divcnt = 3 => ~cyc
  /\ bitcnt = 0 \/ (bitcnt = 1 /\ divcnt >= 4) =>
       /\ ~cyc => ~txStarted
       /\ Printing => ~uartAck

\* The shift register holds what is left of the frame.
LineSide ==
  /\ pattern \subseteq 0 .. FrameBits - 1
  /\ bitcnt <= 1 => pattern = 0 .. FrameBits - 1
  /\ bitcnt >= 2 => \A i \in 0 .. FrameBits - 1 :
       i \in pattern <=> i + Gone >= FrameBits - 1 \/ i + Gone - 1 \in Sent

\* The receiver is as far as the transmitter and has the bits sampled so far.
RxSide ==
  /\ rx \in [ticks : Nat, bits : SUBSET (0 .. DataBits - 1), bytes : Seq(Bytes)]
  /\ rx.ticks = IF Live THEN Period * Gone + divcnt ELSE 0
  /\ rx.bits = IF Live THEN {j \in Sent : j + 1 < Gone \/ (j + 1 = Gone /\ divcnt > Half)}
               ELSE {}
  /\ Len(issued) = Len(rx.bytes) + (IF Live THEN 1 ELSE 0)
                                 + (IF Printing /\ ~Sending THEN 1 ELSE 0)
  /\ \A n \in 1..Len(rx.bytes) : rx.bytes[n] = issued[n]

UartInv == /\ BusSide
           /\ simulation => LogSide
           /\ ~simulation => InStep /\ LineSide /\ RxSide

-----------------------------------------------------------------------------
(* A clock edge, seen from the bus. *)

\* The two addresses software writes to select two registers; in simulation
\* the divider is not there.
LEMMA Selected ==
  /\ RegSel(UART_DATA) = "DATA"
  /\ RegSel(UART_DIVIDER) = IF simulation THEN "DEFAULT" ELSE "DIVIDER"
  /\ UART_DATA # UART_DIVIDER
<1>1. UART_DATA \cap {2, 3} = {2} /\ UART_DIVIDER \cap {2, 3} = {}
  BY DEF UART_DATA, UART_DIVIDER
<1>2. 2 \in UART_DATA /\ 2 \notin UART_DIVIDER
  BY DEF UART_DATA, UART_DIVIDER
<1>3. {2} # {} /\ {2} # {3} /\ {2} # {2, 3} /\ {} # {3} /\ {} # {2, 3}
  <2>1. 2 \in {2} /\ 3 \notin {2} /\ 3 \in {3} /\ 3 \in {2, 3}
    OBVIOUS
  <2>. QED  BY <2>1, Zenon
<1>. QED  BY <1>1, <1>2, <1>3 DEF RegSel

\* What software and the bus master do at an edge: the divider is written, a
\* byte is, or nothing is asked for.
Configures ==
  /\ ~cyc
  /\ cyc' /\ we' /\ busy' = cyc' /\ adr' = UART_DIVIDER /\ dat' = DividerWord
  /\ issued' = issued

Prints(b) ==
  /\ ~cyc
  /\ cyc' /\ we' /\ busy' = cyc' /\ adr' = UART_DATA /\ dat' = b
  /\ issued' = Append(issued, b)

Waits ==
  /\ cyc' = (cyc /\ ~uartAck) /\ busy' = cyc' /\ (cyc' => we' = we)
  /\ adr' = adr /\ dat' = dat
  /\ issued' = issued

\* What the bus side of the UART does, given what can be on the bus.
Answers ==
  /\ uartAck' = (cyc /\ (uartAck \/ (Printing /\ finished) \/ Configuring))
  /\ cfgDivider' = IF Configuring /\ ~simulation THEN DividerWord ELSE cfgDivider
  /\ txStarted' = (cyc /\ IF Printing THEN ~finished ELSE txStarted)
  /\ uartLog' = IF Printing /\ finished /\ simulation
                THEN Append(uartLog, LowByte(dat)) ELSE uartLog
  /\ simulation' = simulation

\* Every step of the specification is of this shape.
LEMMA Edge ==
  ASSUME BusSide, Next
  PROVE  /\ Configures \/ (\E b \in Bytes : Prints(b)) \/ Waits
         /\ Answers /\ Transmitter(Pins) /\ Receiver
<1>1. PICK en, op, addr, data : Clock(en, op, addr, data)
  BY DEF Next, Configure, Putchar, PollOut, SendByte, Tick
<1>2. Transmitter(Pins) /\ Receiver /\ Registers(Pins) /\ simulation' = simulation
  BY <1>1 DEF Clock, UartTick
<1>3. /\ Pins.cyc = cyc /\ Pins.we = we /\ Pins.addr = adr /\ Pins.data = dat
  BY DEF Pins
<1>4. UartAckOut(Pins) = (uartAck /\ cyc)
  BY <1>3 DEF UartAckOut
<1>5. /\ RegAccess(Pins, "DATA") <=> Printing
      /\ RegAccess(Pins, "DIVIDER") <=> Configuring /\ ~simulation
      /\ RegAccess(Pins, "DEFAULT") <=> Configuring /\ simulation
  BY <1>3, Selected DEF RegAccess, BusSide, Printing, Configuring
<1>6. Answers
  <2>1. Printing \/ Configuring => we /\ cyc
    BY DEF BusSide, Printing, Configuring
  <2>2. ByteDone(Pins) <=> Printing /\ finished
    BY <1>3, <1>5, <2>1 DEF ByteDone
  <2>3. uartAck' = (cyc /\ (uartAck \/ (Printing /\ finished) \/ Configuring))
    BY <1>2, <1>3, <1>5, <2>2 DEF Registers, BusSide
  <2>4. cfgDivider' = IF Configuring /\ ~simulation THEN DividerWord ELSE cfgDivider
    BY <1>2, <1>3, <1>5, <2>1 DEF Registers, BusSide
  <2>5. txStarted' = (cyc /\ IF Printing THEN ~finished ELSE txStarted)
    BY <1>2, <1>3, <1>5, <2>1 DEF Registers, TxRequest
  <2>6. uartLog' = IF Printing /\ finished /\ simulation
                   THEN Append(uartLog, LowByte(dat)) ELSE uartLog
    BY <1>2, <1>3, <2>2 DEF Registers
  <2>. QED  BY <1>2, <2>3, <2>4, <2>5, <2>6 DEF Answers
<1>7. Configures \/ (\E b \in Bytes : Prints(b)) \/ Waits
  <2>1. CASE Configure
    BY <2>1, <1>4 DEF Configure, Clock, BusTick, BusSide, Configures, WriteOp
  <2>2. ASSUME NEW b \in Bytes, SendByte(b) PROVE Prints(b)
    BY <2>2, <1>4 DEF SendByte, Clock, BusTick, BusSide, Prints, WriteOp
  <2>3. CASE Tick
    BY <2>3, <1>4 DEF Tick, Clock, BusTick, BusSide, Waits
  <2>. QED  BY <2>1, <2>2, <2>3 DEF Next, Putchar, PollOut
<1>. QED  BY <1>2, <1>6, <1>7

\* A byte is the whole of what wb_uart.v takes of the data bus.
LEMMA WholeByte == ASSUME NEW b \in Bytes PROVE LowByte(b) = b
BY UartPathAssumption DEF LowByte

\* The last of a sequence of bytes is a byte.
LEMMA LastByte == ASSUME BusSide, Printing
                  PROVE  dat \in Bytes /\ Len(issued) \in Nat \ {0}
<1>1. issued \in Seq(Bytes) /\ issued # <<>> /\ dat = issued[Len(issued)]
  BY DEF BusSide
<1>2. Len(issued) \in Nat \ {0}
  BY <1>1
<1>. QED  BY <1>1, <1>2

\* Every step keeps the bus side.
LEMMA BusSideStep == ASSUME BusSide, Next PROVE BusSide'
<1>1. Answers /\ Transmitter(Pins)
  BY Edge
<1>2. /\ inProg' = (~LastBit /\ (StartFrame \/ inProg)) /\ finished' = LastBit
      /\ LastBit \in BOOLEAN /\ StartFrame \in BOOLEAN
  BY <1>1 DEF Transmitter, LastBit, StartFrame, BusSide
<1>3. finished' => ~inProg'
  BY <1>2
<1>4. /\ simulation' \in BOOLEAN /\ uartAck' \in BOOLEAN /\ txStarted' \in BOOLEAN
      /\ inProg' \in BOOLEAN /\ finished' \in BOOLEAN
  BY <1>1, <1>2 DEF Answers, BusSide
<1>5. CASE Configures
  BY <1>3, <1>4, <1>5, Selected DEF Configures, BusSide, Printing, Configuring
<1>6. ASSUME NEW b \in Bytes, Prints(b) PROVE BusSide'
  <2>1. ~uartAck'
    BY <1>1, <1>6 DEF Answers, Prints
  <2>2. /\ issued' \in Seq(Bytes) /\ issued' # <<>>
        /\ issued'[Len(issued')] = b
    BY <1>6 DEF Prints, BusSide
  <2>. QED  BY <1>3, <1>4, <1>6, <2>1, <2>2, Selected DEF Prints, BusSide, Printing, Configuring
<1>7. CASE Waits
  <2>1. Printing' => Printing /\ ~uartAck
    BY <1>7 DEF Waits, Printing, BusSide
  <2>2. Configuring' => Configuring
    BY <1>7 DEF Waits, Configuring, BusSide
  <2>3. Printing' /\ uartAck' => ~finished'
    <3>1. Printing => ~Configuring
      BY Selected DEF Printing, Configuring
    <3>2. Printing' /\ uartAck' => finished
      BY <1>1, <2>1, <3>1 DEF Answers
    <3>. QED  BY <3>2, <1>2 DEF BusSide, LastBit
  <2>4. cyc' => cyc
    BY <1>7 DEF Waits, BusSide
  <2>5. cyc' => we' /\ (Printing' \/ Configuring')
    BY <1>7, <2>4 DEF Waits, BusSide, Printing, Configuring
  <2>. QED  BY <1>3, <1>4, <1>7, <2>1, <2>2, <2>3, <2>5 DEF Waits, BusSide
<1>. QED  BY <1>5, <1>6, <1>7, Edge

\* In simulation, a step appends to the log the byte that is written, or
\* nothing, and keeps the log in step with the bus.
LEMMA LogSideStep ==
  ASSUME BusSide, LogSide, simulation, Next
  PROVE  /\ LogSide'
         /\ \/ uartLog' = uartLog
            \/ /\ Len(uartLog) < Len(issued)
               /\ uartLog' = Append(uartLog, issued[Len(uartLog) + 1])
<1>1. Answers
  BY Edge
<1>2. Printing => ~Configuring /\ cyc
  BY Selected DEF Printing, Configuring
<1>3. uartLog \in Seq(Bytes) /\ issued \in Seq(Bytes) /\ Len(uartLog) \in Nat /\ Len(issued) \in Nat
  BY DEF LogSide, BusSide
<1>4. CASE Printing /\ finished
  <2>1. ~uartAck
    BY <1>4 DEF BusSide
  <2>2. Waits
    BY <1>2, <1>4, Edge DEF Configures, Prints
  <2>3. issued' = issued /\ Printing' /\ uartAck'
    BY <1>1, <1>2, <1>4, <2>1, <2>2 DEF Waits, Answers, Printing
  <2>4. uartLog' = Append(uartLog, dat)
    BY <1>1, <1>4, LastByte, WholeByte DEF Answers
  <2>5. Len(issued) = Len(uartLog) + 1
    BY <1>4, <2>1 DEF LogSide
  <2>6. dat = issued[Len(uartLog) + 1] /\ dat \in Bytes
    BY <1>4, <2>5, LastByte DEF BusSide
  <2>7. /\ uartLog' \in Seq(Bytes) /\ Len(uartLog') = Len(uartLog) + 1
        /\ \A n \in 1..Len(uartLog') : uartLog'[n] = issued[n]
    BY <1>3, <2>4, <2>6 DEF LogSide
  <2>8. LogSide'
    BY <2>3, <2>5, <2>7 DEF LogSide
  <2>. QED  BY <1>3, <2>4, <2>5, <2>6, <2>8
<1>5. CASE ~(Printing /\ finished)
  <2>1. uartLog' = uartLog
    BY <1>1, <1>5 DEF Answers
  <2>2. CASE Configures
    <3>1. ~Printing /\ ~Printing' /\ issued' = issued
      BY <2>2, Selected DEF Configures, Printing
    <3>. QED  BY <2>1, <3>1 DEF LogSide
  <2>3. ASSUME NEW b \in Bytes, Prints(b) PROVE LogSide'
    <3>1. ~Printing /\ Printing' /\ ~uartAck'
      BY <1>1, <2>3 DEF Prints, Printing, Answers
    <3>2. /\ Len(issued') = Len(issued) + 1
          /\ \A n \in 1..Len(issued) : issued'[n] = issued[n]
      BY <1>3, <2>3 DEF Prints
    <3>3. Len(uartLog) = Len(issued)
      BY <1>3, <3>1 DEF LogSide
    <3>. QED  BY <1>3, <2>1, <3>1, <3>2, <3>3 DEF LogSide
  <2>4. CASE Waits
    <3>1. issued' = issued
      BY <2>4 DEF Waits
    <3>2. Printing' /\ ~uartAck' <=> Printing /\ ~uartAck
      BY <1>1, <1>2, <1>5, <2>4 DEF Waits, Answers, Printing, BusSide
    <3>. QED  BY <2>1, <3>1, <3>2 DEF LogSide
  <2>. QED  BY <2>1, <2>2, <2>3, <2>4, Edge
<1>. QED  BY <1>4, <1>5

-----------------------------------------------------------------------------
(* A clock edge, seen from the transmitter. *)

\* What the transmitter does: it begins a frame, has nothing to send, counts
\* the ticks of a bit or goes to the next one.
Begins == /\ bitcnt = 0 /\ txStarted
          /\ bitcnt' = FrameBits /\ divcnt' = 0
          /\ inProg' /\ ~finished'

Idles == /\ bitcnt = 0 /\ ~txStarted
         /\ bitcnt' = 0 /\ divcnt' \in Nat /\ pattern' = pattern
         /\ inProg' = inProg /\ ~finished'

Counts == /\ bitcnt > 0 /\ divcnt <= Divider
          /\ bitcnt' = bitcnt /\ divcnt' = divcnt + 1 /\ pattern' = pattern
          /\ inProg' = (inProg /\ bitcnt # 1)
          /\ finished' = (inProg /\ bitcnt = 1)

Shifts == /\ bitcnt > 0 /\ divcnt = Divider + 1
          /\ bitcnt' = bitcnt - 1 /\ divcnt' = 0
          /\ pattern' = {b - 1 : b \in pattern \ {0}} \cup {FrameBits - 1}
          /\ inProg' = (inProg /\ bitcnt # 1)
          /\ finished' = (inProg /\ bitcnt = 1)

\* What the assumptions on the constants say of a frame and its bits: with a
\* divider of at least 2 the middle of a bit lies well inside it.
LEMMA Parts == /\ DataBits \in Nat /\ DataBits > 0 /\ FrameBits = DataBits + 2
               /\ Divider \in Nat /\ Divider >= 2 /\ Divider <= MaxDivider /\ MaxDivider \in Nat
               /\ Period = Divider + 2 /\ Half \in Nat /\ 2 <= Half /\ Half < Period - 1
<1>1. /\ DataBits \in Nat /\ DataBits > 0 /\ FrameBits = DataBits + 2
      /\ Divider \in Nat /\ Divider >= 2 /\ Divider <= MaxDivider /\ MaxDivider \in Nat
  BY UartAssumption, UartPathAssumption DEF FrameBits
<1>2. \A d \in Nat : d >= 2 => /\ (d + 2) \div 2 \in Nat /\ 2 <= (d + 2) \div 2
                               /\ (d + 2) \div 2 < d + 1
  OBVIOUS
<1>. QED  BY <1>1, <1>2 DEF Period, Half

\* These are the steps of the transmitter.
LEMMA TransmitterStep ==
  ASSUME BusSide, InStep, Next
  PROVE  Begins \/ Idles \/ Counts \/ Shifts
<1>1. /\ bitcnt \in 0..FrameBits /\ bitcnt \in Nat /\ divcnt \in Nat
      /\ bitcnt > 0 => divcnt <= Divider + 1
      /\ txStarted \in BOOLEAN /\ inProg \in BOOLEAN
  BY Parts DEF InStep, BusSide
<1>2. Transmitter(Pins)
  BY Edge
<1>3. bitcnt > 0 => Value(cfgDivider) = Divider
  BY <1>1 DEF InStep, Divider
<1>4. StartFrame <=> txStarted /\ bitcnt = 0
  BY DEF StartFrame
<1>5. ShiftBit <=> bitcnt > 0 /\ divcnt = Divider + 1
  <2>1. CASE bitcnt > 0
    BY <1>1, <1>3, <2>1, Parts DEF ShiftBit
  <2>2. CASE ~(bitcnt > 0)
    BY <1>1, <2>2 DEF ShiftBit
  <2>. QED  BY <2>1, <2>2
<1>6. /\ inProg' = (~LastBit /\ (StartFrame \/ inProg)) /\ finished' = LastBit
      /\ LastBit = (inProg /\ bitcnt = 1)
  BY <1>2 DEF Transmitter, LastBit
<1>0. bitcnt = 0 => ~LastBit
  BY DEF LastBit
<1>7. CASE StartFrame
  <2>1. bitcnt' = FrameBits /\ divcnt' = 0
    BY <1>2, <1>7 DEF Transmitter
  <2>2. bitcnt = 0 /\ txStarted /\ inProg' /\ ~finished'
    BY <1>0, <1>4, <1>6, <1>7
  <2>. QED  BY <2>1, <2>2 DEF Begins
<1>8. CASE ~StartFrame /\ ShiftBit
  <2>1. /\ bitcnt' = bitcnt - 1 /\ divcnt' = 0
        /\ pattern' = {b - 1 : b \in pattern \ {0}} \cup {FrameBits - 1}
    BY <1>2, <1>8 DEF Transmitter
  <2>. QED  BY <1>1, <1>5, <1>6, <1>8, <2>1 DEF Shifts
<1>9. CASE ~StartFrame /\ ~ShiftBit
  <2>1. /\ bitcnt' = bitcnt /\ pattern' = pattern
        /\ divcnt' = IF divcnt > MaxDivider THEN divcnt ELSE divcnt + 1
    BY <1>2, <1>9 DEF Transmitter
  <2>2. CASE bitcnt = 0
    <3>1. divcnt' \in Nat
      BY <1>1, <2>1
    <3>2. inProg' = inProg /\ ~finished'
      BY <1>0, <1>1, <1>6, <1>9, <2>2
    <3>. QED  BY <1>4, <1>9, <2>1, <2>2, <3>1, <3>2 DEF Idles
  <2>3. CASE bitcnt > 0
    <3>1. divcnt <= Divider /\ divcnt' = divcnt + 1
      BY <1>1, <1>5, <1>9, <2>1, <2>3, Parts
    <3>. QED  BY <1>1, <1>6, <1>9, <2>1, <2>3, <3>1 DEF Counts
  <2>. QED  BY <1>1, <2>2, <2>3
<1>. QED  BY <1>7, <1>8, <1>9

\* A write of the divider meets no request to send, and changes nothing.
Settled ==
  /\ Configuring => ~txStarted
  /\ cfgDivider = DividerWord

\* Every step keeps it so.
LEMMA SettledStep == ASSUME BusSide, InStep, ~simulation, Next PROVE Settled'
<1>1. Answers
  BY Edge
<1>2. cfgDivider' = DividerWord
  BY <1>1 DEF Answers, InStep
<1>3. ASSUME Configuring' PROVE ~txStarted'
  <2>1. CASE ~cyc
    BY <1>1, <2>1 DEF Answers
  <2>2. CASE cyc
    <3>1. Waits
      BY <2>2, Edge DEF Configures, Prints
    <3>2. Configuring /\ ~Printing
      BY <1>3, <3>1, Selected DEF Waits, Configuring, Printing, BusSide
    <3>. QED  BY <1>1, <3>2 DEF Answers, InStep
  <2>. QED  BY <2>1, <2>2
<1>. QED  BY <1>2, <1>3 DEF Settled

\* While the last write waits for its frame, and until it is acknowledged,
\* software asks for nothing.
LEMMA BusHeld ==
  ASSUME BusSide, InStep, ~simulation, Next, cyc
  PROVE  Waits
BY Edge DEF Configures, Prints

\* A write stays on the bus until it is acknowledged.
LEMMA BusNext ==
  ASSUME BusSide, InStep, ~simulation, Next
  PROVE  /\ ~cyc => ~uartAck' /\ ~txStarted'
         /\ Printing /\ ~uartAck => Printing'
         /\ cyc /\ ~uartAck => cyc'
         /\ cyc /\ uartAck => ~cyc'
         /\ cyc /\ Printing' => Printing /\ ~uartAck
<1>1. ~cyc => ~uartAck' /\ ~txStarted'
  BY Edge DEF Answers
<1>2. cyc => Waits
  BY BusHeld
<1>. QED  BY <1>1, <1>2 DEF Waits, Printing, BusSide

\* What is left of InStep.
Handshake ==
  /\ bitcnt \in 0..FrameBits /\ divcnt \in Nat
  /\ bitcnt > 0 => divcnt <= Divider + 1
  /\ inProg <=> bitcnt >= 2 \/ (bitcnt = 1 /\ divcnt = 0)
  /\ finished <=> bitcnt = 1 /\ divcnt = 1
  /\ Sending => /\ Printing
                /\ uartAck <=> bitcnt = 1 /\ divcnt = 2
                /\ txStarted <=> ~uartAck
  /\ bitcnt = 1 /\ divcnt = 3 => ~cyc
  /\ bitcnt = 0 \/ (bitcnt = 1 /\ divcnt >= 4) =>
       /\ ~cyc => ~txStarted
       /\ Printing => ~uartAck

\* The two parts of InStep, which are preserved for different reasons.
LEMMA InStepParts == InStep <=> Handshake /\ Settled
BY DEF InStep, Handshake, Settled

\* Every step keeps bus, registers and transmitter in step: one case per
\* phase of the frame, the stop bit's first ticks one by one.
LEMMA HandshakeStep == ASSUME BusSide, InStep, ~simulation, Next PROVE Handshake'
<1>1. Answers /\ BusSide'
  BY Edge, BusSideStep
<1>2. /\ Handshake /\ bitcnt \in Nat /\ divcnt \in Nat
  BY InStepParts, Parts DEF Handshake
<1>3. Printing => cyc /\ ~Configuring
  BY Selected DEF Printing, Configuring
<1>4. CASE Begins
  <2>1. bitcnt = 0 /\ txStarted /\ ~finished
    BY <1>2, <1>4 DEF Begins, Handshake
  <2>2. Printing /\ ~uartAck
    BY <1>2, <2>1 DEF InStep, BusSide, Handshake
  <2>3. Printing'
    BY <1>3, <2>2, BusHeld DEF Waits, Printing
  <2>4. ~uartAck' /\ txStarted'
    BY <1>1, <1>3, <2>1, <2>2 DEF Answers
  <2>5. /\ bitcnt' \in 0..FrameBits /\ bitcnt' >= 2 /\ divcnt' = 0
    BY <1>4, Parts DEF Begins
  <2>. QED  BY <1>4, <2>3, <2>4, <2>5, Parts DEF Handshake, Begins
<1>5. CASE Idles
  <2>1. bitcnt = 0 /\ bitcnt' = 0 /\ divcnt' \in Nat /\ ~inProg' /\ ~finished /\ ~finished' /\ ~txStarted
    BY <1>2, <1>5 DEF Idles, Handshake
  <2>2. ~cyc' => ~txStarted'
    BY <1>1, <1>2, <1>3, <2>1, BusHeld DEF Waits, Answers, BusSide, Handshake
  <2>3. Printing' => ~uartAck'
    <3>1. CASE Waits
      <4>1. Printing' => Printing
        BY <3>1 DEF Waits, Printing, BusSide
      <4>. QED  BY <1>1, <1>2, <1>3, <2>1, <4>1 DEF Answers, Handshake
    <3>2. CASE ~cyc
      BY <1>1, <3>2 DEF Answers
    <3>. QED  BY <3>1, <3>2, BusHeld
  <2>4. ~Sending' /\ bitcnt' \in 0..FrameBits
    BY <2>1, Parts DEF Sending
  <2>. QED  BY <2>1, <2>2, <2>3, <2>4 DEF Handshake
<1>6. CASE (Counts \/ Shifts) /\ bitcnt >= 2
  <2>1. bitcnt # 0 /\ Sending /\ ~finished /\ inProg
    BY <1>2, <1>6 DEF Sending, Handshake
  <2>2. Printing /\ ~uartAck /\ txStarted
    BY <1>2, <1>6, <2>1 DEF Handshake
  <2>3. Printing'
    BY <1>3, <2>1, <2>2, BusNext
  <2>4. ~uartAck' /\ txStarted'
    BY <1>1, <1>3, <2>1, <2>2 DEF Answers
  <2>5. /\ bitcnt' \in 0..FrameBits /\ divcnt' \in Nat /\ divcnt' <= Divider + 1
        /\ bitcnt' >= 2 \/ (bitcnt' = 1 /\ divcnt' = 0)
    BY <1>2, <1>6, Parts DEF Counts, Shifts, Handshake
  <2>6. inProg' /\ ~finished'
    <3>1. bitcnt # 1
      BY <1>6
    <3>. QED  BY <1>6, <2>1, <3>1, Zenon DEF Counts, Shifts
  <2>. QED  BY <2>3, <2>4, <2>5, <2>6 DEF Handshake
<1>7. CASE Counts /\ bitcnt = 1 /\ divcnt <= 1
  <2>1. bitcnt # 0 /\ Sending
    BY <1>2, <1>7 DEF Sending
  <2>2. Printing /\ ~uartAck /\ txStarted
    BY <1>2, <1>7, <2>1 DEF Handshake
  <2>3. Printing'
    BY <1>3, <2>1, <2>2, BusNext
  <2>4. (finished <=> divcnt = 1) /\ (inProg <=> divcnt = 0)
    BY <1>2, <1>7 DEF Handshake
  <2>5. (uartAck' <=> divcnt = 1) /\ (txStarted' <=> ~uartAck')
    BY <1>1, <1>3, <2>2, <2>4 DEF Answers, BusSide
  <2>6. /\ bitcnt' = 1 /\ divcnt' = divcnt + 1 /\ ~inProg' /\ (finished' <=> divcnt = 0)
    BY <1>1, <1>7, <2>4 DEF Counts, BusSide
  <2>7. bitcnt' \in 0..FrameBits /\ divcnt' \in 1..2 /\ divcnt' <= Divider + 1
    BY <1>2, <1>7, <2>6, Parts
  <2>. QED  BY <1>2, <1>7, <2>3, <2>5, <2>6, <2>7 DEF Handshake
<1>8. CASE Counts /\ bitcnt = 1 /\ divcnt = 2
  <2>1. bitcnt # 0 /\ Sending
    BY <1>2, <1>8 DEF Sending
  <2>2. Printing /\ uartAck /\ ~finished /\ ~inProg
    BY <1>2, <1>8, <2>1 DEF Handshake
  <2>3. ~cyc'
    BY <1>3, <2>1, <2>2, BusNext
  <2>4. bitcnt' = 1 /\ divcnt' = 3 /\ ~inProg' /\ ~finished'
    <3>1. bitcnt' = 1 /\ divcnt' = 3
      BY <1>8 DEF Counts
    <3>. QED  BY <1>8, <2>2, <3>1, Zenon DEF Counts
  <2>5. ~Sending' /\ ~Printing' /\ bitcnt' \in 0..FrameBits /\ 3 <= Divider + 1
    BY <2>3, <2>4, Parts DEF Sending, Printing
  <2>. QED  BY <2>3, <2>4, <2>5 DEF Handshake
<1>9. CASE (Counts \/ Shifts) /\ bitcnt = 1 /\ divcnt >= 3
  <2>1. /\ ~finished /\ ~inProg
        /\ Printing => ~uartAck
        /\ cyc /\ ~Printing => ~txStarted
    BY <1>2, <1>3, <1>9 DEF Handshake, InStep, BusSide
  <2>2. /\ bitcnt' \in 0..1 /\ divcnt' \in Nat /\ divcnt' <= Divider + 1
        /\ bitcnt' = 0 \/ divcnt' >= 4
    BY <1>2, <1>9, Parts DEF Counts, Shifts
  <2>3. ~inProg' /\ ~finished'
    BY <1>9, <2>1 DEF Counts, Shifts
  <2>4. ~cyc' => ~txStarted'
    <3>1. cyc /\ ~cyc' => ~Printing
      BY <2>1, BusNext DEF BusSide
    <3>2. cyc /\ ~Printing => ~txStarted'
      BY <1>1, <2>1 DEF Answers
    <3>. QED  BY <3>1, <3>2, BusNext
  <2>5. Printing' => ~uartAck'
    <3>1. cyc /\ Printing' => Printing /\ ~uartAck
      BY BusNext
    <3>2. Printing /\ ~uartAck => ~uartAck'
      BY <1>1, <1>3, <2>1 DEF Answers
    <3>. QED  BY <3>1, <3>2, BusNext
  <2>6. ~Sending' /\ bitcnt' \in 0..FrameBits
    BY <2>2, Parts DEF Sending
  <2>. QED  BY <2>2, <2>3, <2>4, <2>5, <2>6 DEF Handshake
<1>10. Shifts /\ bitcnt = 1 => divcnt >= 3
  BY Parts DEF Shifts
<1>11. Counts \/ Shifts => bitcnt >= 2 \/ bitcnt = 1
  BY <1>2 DEF Counts, Shifts
<1>12. divcnt <= 1 \/ divcnt = 2 \/ divcnt >= 3
  BY <1>2
<1>. QED  BY <1>4, <1>5, <1>6, <1>7, <1>8, <1>9, <1>10, <1>11, <1>12, TransmitterStep

-----------------------------------------------------------------------------
(* A clock edge, seen from the receiver. *)

\* A tick of a frame belongs to one bit.
LEMMA OneBit ==
  ASSUME NEW p \in Nat, NEW k \in Nat, NEW j \in Nat,
         NEW d \in 0 .. p - 1, NEW h \in 0 .. p - 1
  PROVE  p * k + d = p * j + h <=> k = j /\ d = h
<1>1. ASSUME NEW a \in Nat, NEW b \in Nat, a < b PROVE p * a + p <= p * b
  <2>1. PICK c \in Nat : b = a + 1 + c
    <3>1. b - a - 1 \in Nat /\ b = a + 1 + (b - a - 1)
      BY <1>1
    <3>. QED  BY <3>1
  <2>2. p * (a + 1 + c) = p * a + p + p * c /\ p * c \in Nat
    OBVIOUS
  <2>. QED  BY <2>1, <2>2
<1>2. p * k \in Nat /\ p * j \in Nat
  OBVIOUS
<1>3. CASE k < j
  <2>1. p * k + p <= p * j
    BY <1>1, <1>3
  <2>. QED  BY <1>2, <1>3, <2>1
<1>4. CASE j < k
  <2>1. p * j + p <= p * k
    BY <1>1, <1>4
  <2>. QED  BY <1>2, <1>4, <2>1
<1>5. CASE j = k
  BY <1>2, <1>5
<1>. QED  BY <1>3, <1>4, <1>5

\* The frame on the line is that of a byte software has printed.
LEMMA SentByte ==
  ASSUME BusSide, InStep, RxSide, Live
  PROVE  /\ Len(rx.bytes) \in Nat /\ Len(rx.bytes) + 1 \in 1..Len(issued)
         /\ Sent \in Bytes /\ Sent \subseteq 0 .. DataBits - 1
<1>1. issued \in Seq(Bytes) /\ Len(rx.bytes) \in Nat /\ Len(issued) \in Nat
  BY DEF BusSide, RxSide
<1>2. Len(rx.bytes) + 1 <= Len(issued)
  BY <1>1 DEF RxSide
<1>3. Sent \in Bytes
  BY <1>1, <1>2 DEF Sent
<1>. QED  BY <1>1, <1>2, <1>3, UartPathAssumption

\* What the receiver samples.
LEMMA OnTheLine ==
  ASSUME BusSide, InStep, LineSide, RxSide
  PROVE  /\ bitcnt <= 1 => TxLine
         /\ bitcnt >= 2 => (TxLine <=> Gone - 1 \in Sent)
<1>1. 0 \in 0 .. FrameBits - 1
  BY Parts
<1>2. CASE bitcnt <= 1
  BY <1>1, <1>2 DEF LineSide, TxLine, InStep
<1>3. CASE bitcnt >= 2
  <2>1. 0 \in pattern <=> 0 + Gone >= FrameBits - 1 \/ 0 + Gone - 1 \in Sent
    BY <1>1, <1>3 DEF LineSide
  <2>2. Gone \in Nat /\ ~(0 + Gone >= FrameBits - 1) /\ 0 + Gone - 1 = Gone - 1
    BY <1>3, Parts DEF Gone, InStep
  <2>. QED  BY <1>3, <2>1, <2>2 DEF TxLine, InStep
<1>. QED  BY <1>2, <1>3

\* The receiver is at the middle of bit k exactly when the transmitter is.
LEMMA Middle ==
  ASSUME InStep, RxSide, Live, NEW k \in Nat
  PROVE  rx.ticks = (Divider + 2) * k + (Divider + 2) \div 2 <=> Gone = k /\ divcnt = Half
<1>1. Gone \in Nat /\ divcnt \in 0 .. Period - 1 /\ Half \in 0 .. Period - 1 /\ Period \in Nat
  BY Parts DEF InStep, Live, Gone
<1>2. rx.ticks = Period * Gone + divcnt
  BY DEF RxSide
<1>3. Period * Gone + divcnt = Period * k + Half <=> Gone = k /\ divcnt = Half
  BY <1>1, OneBit
<1>. QED  BY <1>2, <1>3 DEF Period, Half

\* Outside a frame the receiver waits; in the middle of the stop bit it has
\* its byte; at every other tick of a frame it counts, and in the middle of a
\* data bit it takes the bit.
LEMMA ReceiverStep ==
  ASSUME BusSide, InStep, LineSide, RxSide, ~simulation, Next
  PROVE  /\ ~Live => rx' = rx
         /\ Live /\ bitcnt = 1 /\ divcnt = Half =>
              rx' = [ticks |-> 0, bits |-> {}, bytes |-> Append(rx.bytes, Sent)]
         /\ Live /\ ~(bitcnt = 1 /\ divcnt = Half) =>
              rx' = [ticks |-> rx.ticks + 1,
                     bits |-> rx.bits \cup {j \in Sent : j + 1 = Gone /\ divcnt = Half},
                     bytes |-> rx.bytes]
<1>1. Receiver
  BY Edge
<1>2. /\ rx \in [ticks : Nat, bits : SUBSET (0 .. DataBits - 1), bytes : Seq(Bytes)]
      /\ bitcnt \in Nat /\ divcnt \in Nat /\ bitcnt <= FrameBits
  BY Parts DEF RxSide, InStep
<1>3. CASE ~Live
  <2>1. bitcnt <= 1 /\ rx.ticks = 0
    BY <1>2, <1>3 DEF Live, RxSide
  <2>2. TxLine
    BY <2>1, OnTheLine
  <2>. QED  BY <1>1, <1>3, <2>1, <2>2 DEF Receiver
<1>4. CASE Live
  <2>. DEFINE M(k) == rx.ticks = (Divider + 2) * k + (Divider + 2) \div 2
  <2>1. \A k \in Nat : M(k) <=> Gone = k /\ divcnt = Half
    BY <1>4, Middle
  <2>2. FrameBits - 1 \in Nat /\ 0 \in Nat /\ 1..DataBits \subseteq Nat
    BY Parts
  <2>3. M(FrameBits - 1) <=> bitcnt = 1 /\ divcnt = Half
    <3>1. M(FrameBits - 1) <=> Gone = FrameBits - 1 /\ divcnt = Half
      BY <2>1, <2>2, Zenon
    <3>2. Gone = FrameBits - 1 <=> bitcnt = 1
      BY <1>2, Parts DEF Gone
    <3>. QED  BY <3>1, <3>2, Zenon
  <2>4. M(0) => ~TxLine
    <3>1. M(0) => bitcnt >= 2 /\ Gone = 0
      BY <1>2, <2>1, Parts DEF Gone
    <3>2. Gone = 0 => Gone - 1 \notin Sent
      BY <1>4, SentByte
    <3>. QED  BY <3>1, <3>2, OnTheLine
  <2>5. rx.ticks = 0 => bitcnt >= 2 /\ Gone = 0 /\ divcnt = 0 /\ ~TxLine
    <3>0. Gone \in Nat /\ Period \in Nat /\ Period > 0
      BY <1>2, Parts DEF Gone
    <3>1. rx.ticks = 0 => Gone = 0 /\ divcnt = 0
      <4>1. rx.ticks = Period * Gone + divcnt
        BY <1>4 DEF RxSide
      <4>2. Period * Gone \in Nat /\ (Gone # 0 => Period * Gone > 0)
        BY <3>0
      <4>. QED  BY <1>2, <4>1, <4>2
    <3>2. Gone = 0 => bitcnt >= 2 /\ Gone - 1 \notin Sent
      BY <1>2, <1>4, SentByte, Parts DEF Gone
    <3>. QED  BY <3>1, <3>2, OnTheLine
  <2>6. {k - 1 : k \in {j \in 1..DataBits : M(j) /\ TxLine}}
          = {j \in Sent : j + 1 = Gone /\ divcnt = Half}
    <3>1. Sent \subseteq 0 .. DataBits - 1
      BY <1>4, SentByte
    <3>2. \A j \in 1..DataBits : M(j) /\ TxLine <=> j = Gone /\ divcnt = Half /\ j - 1 \in Sent
      <4>. TAKE j \in 1..DataBits
      <4>1. M(j) <=> Gone = j /\ divcnt = Half
        BY <2>1, <2>2
      <4>2. Gone = j => bitcnt >= 2
        BY <1>2, Parts DEF Gone
      <4>. QED  BY <4>1, <4>2, OnTheLine
    <3>. HIDE DEF M
    <3>3. {j \in 1..DataBits : M(j) /\ TxLine}
            = {j \in 1..DataBits : j = Gone /\ divcnt = Half /\ j - 1 \in Sent}
      BY <3>2
    <3>4. {k - 1 : k \in {j \in 1..DataBits : j = Gone /\ divcnt = Half /\ j - 1 \in Sent}}
            = {j \in Sent : j + 1 = Gone /\ divcnt = Half}
      <4>. DEFINE S == {j \in 1..DataBits : j = Gone /\ divcnt = Half /\ j - 1 \in Sent}
                  T == {j \in Sent : j + 1 = Gone /\ divcnt = Half}
      <4>1. ASSUME NEW k \in S PROVE k - 1 \in T
        BY <4>1, Parts
      <4>2. ASSUME NEW j \in T PROVE j + 1 \in S /\ j = (j + 1) - 1
        BY <4>2, <3>1, Parts
      <4>. QED  BY <4>1, <4>2
    <3>. QED  BY <3>3, <3>4
  <2>7. CASE bitcnt = 1 /\ divcnt = Half
    <3>1. M(FrameBits - 1) /\ TxLine /\ rx.ticks # 0
      BY <2>3, <2>5, <2>7, OnTheLine
    <3>2. rx.bits = Sent
      <4>1. \A j \in Sent : j + 1 < Gone
        BY <1>4, <2>7, SentByte, Parts DEF Gone
      <4>. QED  BY <1>4, <4>1 DEF RxSide
    <3>3. rx' = [[rx EXCEPT !.ticks = 0, !.bits = {}] EXCEPT !.bytes = Append(@, rx.bits)]
      BY <1>1, <2>4, <3>1 DEF Receiver
    <3>. QED  BY <1>2, <1>4, <2>7, <3>2, <3>3
  <2>8. CASE ~(bitcnt = 1 /\ divcnt = Half)
    <3>. DEFINE B == {j \in Sent : j + 1 = Gone /\ divcnt = Half}
    <3>1. CASE rx.ticks = 0
      <4>1. rx' = [rx EXCEPT !.ticks = @ + 1]
        BY <1>1, <2>5, <3>1 DEF Receiver
      <4>2. B = {}
        BY <2>5, <3>1, Parts
      <4>. QED  BY <1>2, <1>4, <2>8, <4>1, <4>2
    <3>2. CASE rx.ticks # 0
      <4>1. ~M(FrameBits - 1) /\ ~(M(0) /\ TxLine)
        BY <2>3, <2>4, <2>8
      <4>2. rx' = [[rx EXCEPT !.ticks = @ + 1] EXCEPT !.bits =
              @ \cup {k - 1 : k \in {j \in 1..DataBits : M(j) /\ TxLine}}]
        BY <1>1, <3>2, <4>1 DEF Receiver
      <4>3. rx' = [[rx EXCEPT !.ticks = @ + 1] EXCEPT !.bits = @ \cup B]
        BY <4>2, <2>6
      <4>. HIDE DEF B
      <4>4. rx' = [ticks |-> rx.ticks + 1, bits |-> rx.bits \cup B, bytes |-> rx.bytes]
        BY <1>2, <4>3
      <4>. QED  BY <1>4, <2>8, <4>4 DEF B
    <3>. QED  BY <3>1, <3>2
  <2>. QED  BY <1>4, <2>7, <2>8
<1>. QED  BY <1>3, <1>4

\* Software only adds to the bytes it has printed, one at a time.
LEMMA IssuedGrows ==
  ASSUME BusSide, Next
  PROVE  /\ issued \in Seq(Bytes) /\ issued' \in Seq(Bytes)
         /\ Len(issued) \in Nat /\ Len(issued') \in Nat
         /\ \A n \in 1..Len(issued) : issued'[n] = issued[n]
         /\ Len(issued') = Len(issued) + (IF ~cyc /\ Printing' THEN 1 ELSE 0)
<1>1. issued \in Seq(Bytes) /\ Len(issued) \in Nat
  BY DEF BusSide
<1>2. CASE Configures
  BY <1>1, <1>2, Selected DEF Configures, Printing
<1>3. ASSUME NEW b \in Bytes, Prints(b)
      PROVE  /\ issued' \in Seq(Bytes)
             /\ Len(issued') = Len(issued) + 1 /\ ~cyc /\ Printing'
             /\ \A n \in 1..Len(issued) : issued'[n] = issued[n]
  BY <1>1, <1>3 DEF Prints, Printing
<1>4. CASE Waits
  <2>1. ~(~cyc /\ Printing')
    BY <1>4 DEF Waits, Printing
  <2>. QED  BY <1>1, <1>4, <2>1 DEF Waits
<1>. QED  BY <1>1, <1>2, <1>3, <1>4, Edge

\* A frame that begins is that of the byte on the bus, the only one printed
\* that the receiver has not seen.
LEMMA FrameBegins ==
  ASSUME BusSide, InStep, LineSide, RxSide, ~simulation, Next, Begins
  PROVE  /\ ~Live /\ ~Sending /\ Printing /\ Printing' /\ issued' = issued /\ rx' = rx
         /\ dat \in Bytes /\ dat = issued[Len(rx.bytes) + 1]
         /\ Len(rx.bytes) \in Nat /\ Len(issued) = Len(rx.bytes) + 1
         /\ pattern' = {i + 1 : i \in dat} \cup {FrameBits - 1}
<1>1. bitcnt = 0 /\ txStarted
  BY DEF Begins
<1>2. ~Live /\ ~Sending
  BY <1>1 DEF Live, Sending
<1>3. cyc /\ Printing /\ ~uartAck
  BY <1>1 DEF InStep, BusSide, Printing
<1>4. Waits
  BY <1>3, BusHeld
<1>5. issued' = issued /\ Printing'
  BY <1>3, <1>4 DEF Waits, Printing
<1>6. rx' = rx
  BY <1>2, ReceiverStep
<1>7. dat \in Bytes /\ dat = issued[Len(issued)]
  BY <1>3, LastByte DEF BusSide
<1>8. Len(rx.bytes) \in Nat /\ Len(issued) = Len(rx.bytes) + 1
  BY <1>2, <1>3 DEF RxSide
<1>9. pattern' = {i + 1 : i \in dat} \cup {FrameBits - 1}
  <2>1. Transmitter(Pins) /\ Pins.data = dat /\ StartFrame
    BY <1>1, Edge DEF Pins, StartFrame
  <2>2. LowByte(Pins.data) = dat
    BY <1>7, <2>1, WholeByte
  <2>. QED  BY <2>1, <2>2 DEF Transmitter, Shl
<1>. QED  BY <1>2, <1>3, <1>5, <1>6, <1>7, <1>8, <1>9

\* Within a frame the byte does not change.
LEMMA SameByte ==
  ASSUME BusSide, InStep, LineSide, RxSide, ~simulation, Next,
         Live, ~(bitcnt = 1 /\ divcnt = Half)
  PROVE  issued'[Len(rx'.bytes) + 1] = issued[Len(rx.bytes) + 1]
<1>1. rx'.bytes = rx.bytes
  BY ReceiverStep
<1>2. Len(rx.bytes) + 1 \in 1..Len(issued)
  BY SentByte
<1>. QED  BY <1>1, <1>2, IssuedGrows

\* Every step keeps what is left of the frame in the shift register.
LEMMA LineSideStep ==
  ASSUME BusSide, InStep, LineSide, RxSide, ~simulation, Next PROVE LineSide'
<1>1. /\ bitcnt \in Nat /\ divcnt \in Nat /\ bitcnt <= FrameBits
      /\ pattern \subseteq 0 .. FrameBits - 1
  BY Parts DEF InStep, LineSide
<1>2. CASE Begins
  <2>1. bitcnt' = FrameBits /\ pattern' = {i + 1 : i \in dat} \cup {FrameBits - 1}
    BY <1>2, FrameBegins DEF Begins
  <2>2. dat \subseteq 0 .. DataBits - 1 /\ issued'[Len(rx'.bytes) + 1] = dat
    BY <1>2, FrameBegins, UartPathAssumption
  <2>3. pattern' \subseteq 0 .. FrameBits - 1
    BY <2>1, <2>2, Parts
  <2>4. ASSUME NEW i \in 0 .. FrameBits - 1
        PROVE  i \in pattern' <=> i + 0 >= FrameBits - 1 \/ i + 0 - 1 \in dat
    <3>1. i \in {j + 1 : j \in dat} <=> i - 1 \in dat
      BY <2>2, Parts
    <3>. QED  BY <2>1, <3>1, Parts
  <2>5. FrameBits - bitcnt' = 0 /\ ~(bitcnt' <= 1)
    BY <2>1, Parts
  <2>. QED  BY <2>2, <2>3, <2>4, <2>5 DEF LineSide, Gone, Sent
<1>3. CASE Idles
  BY <1>3 DEF Idles, LineSide
<1>4. CASE Counts
  <2>1. bitcnt' = bitcnt /\ pattern' = pattern
    BY <1>4 DEF Counts
  <2>2. bitcnt >= 2 => issued'[Len(rx'.bytes) + 1] = issued[Len(rx.bytes) + 1]
    BY <1>1, SameByte DEF Live
  <2>. QED  BY <2>1, <2>2 DEF LineSide, Gone, Sent
<1>5. CASE Shifts
  <2>1. /\ bitcnt' = bitcnt - 1 /\ bitcnt > 0
        /\ pattern' = {b - 1 : b \in pattern \ {0}} \cup {FrameBits - 1}
    BY <1>5 DEF Shifts
  <2>2. pattern' \subseteq 0 .. FrameBits - 1
    BY <1>1, <2>1, Parts
  <2>3. ASSUME NEW i \in 0 .. FrameBits - 1
        PROVE  i \in pattern' <=> i = FrameBits - 1 \/ i + 1 \in pattern
    <3>1. i \in {b - 1 : b \in pattern \ {0}} <=> i + 1 \in pattern
      BY <1>1, Parts
    <3>. QED  BY <2>1, <3>1
  <2>4. CASE bitcnt <= 2
    <3>1. ASSUME NEW i \in 0 .. FrameBits - 1 PROVE i \in pattern'
      <4>1. i = FrameBits - 1 \/ i + 1 \in 0 .. FrameBits - 1
        BY Parts
      <4>2. i + 1 \in 0 .. FrameBits - 1 => i + 1 \in pattern
        <5>1. CASE bitcnt <= 1
          BY <5>1 DEF LineSide
        <5>2. CASE bitcnt = 2
          BY <5>2, Parts DEF LineSide, Gone
        <5>. QED  BY <1>1, <2>4, <5>1, <5>2
      <4>. QED  BY <2>3, <4>1, <4>2
    <3>2. pattern' = 0 .. FrameBits - 1 /\ bitcnt' <= 1
      BY <1>1, <2>1, <2>2, <2>4, <3>1
    <3>. QED  BY <1>1, <2>1, <2>2, <2>4, <3>2 DEF LineSide
  <2>5. CASE bitcnt >= 3
    <3>1. issued'[Len(rx'.bytes) + 1] = Sent
      BY <1>1, <2>5, SameByte DEF Live, Sent
    <3>2. bitcnt' >= 2 /\ FrameBits - bitcnt' = Gone + 1 /\ Gone \in Nat
      BY <1>1, <2>1, <2>5, Parts DEF Gone
    <3>3. ASSUME NEW i \in 0 .. FrameBits - 1
          PROVE  i \in pattern' <=> i + (Gone + 1) >= FrameBits - 1 \/ i + (Gone + 1) - 1 \in Sent
      <4>1. CASE i = FrameBits - 1
        BY <2>3, <3>2, <4>1, Parts
      <4>2. CASE i # FrameBits - 1
        <5>1. i + 1 \in 0 .. FrameBits - 1
          BY <4>2, Parts
        <5>2. i + 1 \in pattern <=> (i + 1) + Gone >= FrameBits - 1 \/ (i + 1) + Gone - 1 \in Sent
          BY <1>1, <2>5, <5>1 DEF LineSide
        <5>3. (i + 1) + Gone - 1 = i + (Gone + 1) - 1 /\ (i + 1) + Gone = i + (Gone + 1)
          BY <3>2
        <5>. QED  BY <2>3, <4>2, <5>2, <5>3
      <4>. QED  BY <4>1, <4>2
    <3>4. \A i \in 0 .. FrameBits - 1 :
            i \in pattern' <=> \/ i + (FrameBits - bitcnt') >= FrameBits - 1
                               \/ i + (FrameBits - bitcnt') - 1 \in issued'[Len(rx'.bytes) + 1]
      BY <3>1, <3>2, <3>3
    <3>5. ~(bitcnt' <= 1)
      BY <1>1, <3>2, Parts, <2>1
    <3>. QED  BY <2>2, <3>4, <3>5 DEF LineSide, Gone, Sent
  <2>. QED  BY <1>1, <2>4, <2>5
<1>. QED  BY <1>2, <1>3, <1>4, <1>5, TransmitterStep

\* Within a frame the receiver keeps pace with the transmitter.
LEMMA RxPace ==
  ASSUME BusSide, InStep, LineSide, RxSide, ~simulation, Next,
         Live, ~(bitcnt = 1 /\ divcnt = Half), Counts \/ Shifts
  PROVE  /\ Live'
         /\ rx.ticks + 1 = Period * (FrameBits - bitcnt') + divcnt'
         /\ \A j \in Nat :
              \/ j + 1 < Gone \/ (j + 1 = Gone /\ divcnt > Half)
              \/ j + 1 = Gone /\ divcnt = Half
              <=> \/ j + 1 < FrameBits - bitcnt'
                  \/ j + 1 = FrameBits - bitcnt' /\ divcnt' > Half
<1>1. /\ bitcnt \in Nat /\ divcnt \in Nat /\ bitcnt <= FrameBits
      /\ Gone \in Nat /\ Period \in Nat /\ Gone = FrameBits - bitcnt
  BY Parts DEF InStep, Gone
<1>2. rx.ticks = Period * Gone + divcnt /\ Period * Gone \in Nat
  BY <1>1 DEF RxSide
<1>3. CASE Counts
  <2>1. bitcnt' = bitcnt /\ divcnt' = divcnt + 1
    BY <1>3 DEF Counts
  <2>2. Live'
    BY <1>1, <2>1, Parts DEF Live
  <2>. QED  BY <1>1, <1>2, <2>1, <2>2, Parts
<1>4. CASE Shifts
  <2>1. bitcnt > 0 /\ bitcnt' = bitcnt - 1 /\ divcnt' = 0 /\ divcnt = Divider + 1
    BY <1>4 DEF Shifts
  <2>2. bitcnt >= 2
    BY <1>1, <2>1, Parts DEF Live
  <2>3. Live'
    BY <1>1, <2>1, <2>2, Parts DEF Live
  <2>4. FrameBits - bitcnt' = Gone + 1
    BY <1>1, <2>1, Parts
  <2>5. Period * (Gone + 1) = Period * Gone + Period
    BY <1>1
  <2>6. rx.ticks + 1 = Period * (Gone + 1) + 0
    BY <1>1, <1>2, <2>1, <2>5, Parts
  <2>. QED  BY <1>1, <2>1, <2>3, <2>4, <2>6, Parts
<1>. QED  BY <1>3, <1>4

\* Every step keeps the receiver in step, and the receiver delivers nothing
\* but the next byte printed.
LEMMA RxSideStep ==
  ASSUME BusSide, InStep, LineSide, RxSide, ~simulation, Next
  PROVE  /\ RxSide'
         /\ \/ rx'.bytes = rx.bytes
            \/ /\ Len(rx.bytes) < Len(issued)
               /\ rx'.bytes = Append(rx.bytes, issued[Len(rx.bytes) + 1])
<1>1. /\ rx \in [ticks : Nat, bits : SUBSET (0 .. DataBits - 1), bytes : Seq(Bytes)]
      /\ bitcnt \in Nat /\ divcnt \in Nat /\ bitcnt <= FrameBits
      /\ rx.bytes \in Seq(Bytes) /\ Len(rx.bytes) \in Nat
      /\ \A n \in 1..Len(rx.bytes) : rx.bytes[n] = issued[n]
  <2>1. /\ rx \in [ticks : Nat, bits : SUBSET (0 .. DataBits - 1), bytes : Seq(Bytes)]
        /\ \A n \in 1..Len(rx.bytes) : rx.bytes[n] = issued[n]
    BY DEF RxSide
  <2>2. bitcnt \in Nat /\ divcnt \in Nat /\ bitcnt <= FrameBits
    BY Parts DEF InStep
  <2>3. rx.bytes \in Seq(Bytes)
    BY <2>1
  <2>. QED  BY <2>1, <2>2, <2>3
<1>2. BusSide' /\ Handshake' /\ Handshake
  BY BusSideStep, HandshakeStep, InStepParts
<1>3. Printing => cyc
  BY DEF Printing
<1>4. Len(issued) = Len(rx.bytes) + (IF Live THEN 1 ELSE 0) + (IF Printing /\ ~Sending THEN 1 ELSE 0)
  BY DEF RxSide
<1>5. CASE Begins
  <2>1. /\ rx' = rx /\ issued' = issued /\ Len(issued) = Len(rx.bytes) + 1
        /\ ~Live /\ issued'[Len(rx'.bytes) + 1] \in Bytes
    BY <1>5, FrameBegins
  <2>2. Live' /\ Sending' /\ bitcnt' = FrameBits /\ divcnt' = 0
    BY <1>5, Parts DEF Begins, Live, Sending
  <2>3. rx.ticks = 0 /\ rx.bits = {}
    BY <2>1 DEF RxSide
  <2>4. rx'.ticks = Period * (FrameBits - bitcnt') + divcnt'
    <3>1. Period * 0 = 0
      BY Parts
    <3>. QED  BY <2>1, <2>2, <2>3, <3>1, Parts
  <2>5. {j \in issued'[Len(rx'.bytes) + 1] :
           \/ j + 1 < FrameBits - bitcnt'
           \/ j + 1 = FrameBits - bitcnt' /\ divcnt' > Half} = {}
    <3>1. FrameBits - bitcnt' = 0
      BY <2>2, Parts
    <3>2. \A j \in issued'[Len(rx'.bytes) + 1] : j \in Nat
      <4>1. \A b \in Bytes : \A j \in b : j \in Nat
        BY UartPathAssumption, Parts
      <4>. QED  BY <2>1, <4>1, Zenon
    <3>. QED  BY <3>1, <3>2
  <2>6. RxSide'
    BY <1>1, <2>1, <2>2, <2>3, <2>4, <2>5 DEF RxSide, Gone, Sent
  <2>. QED  BY <2>1, <2>6
<1>6. CASE ~Begins /\ ~Live
  <2>1. rx' = rx /\ rx.ticks = 0 /\ rx.bits = {}
    BY <1>6, ReceiverStep DEF RxSide
  <2>2. /\ ~Live'
        /\ bitcnt = 0 \/ (bitcnt = 1 /\ divcnt >= 3)
        /\ bitcnt' = 0 \/ (bitcnt' = 1 /\ divcnt' >= 4)
    <3>1. CASE Idles
      BY <3>1 DEF Idles, Live
    <3>2. ASSUME Counts \/ Shifts PROVE bitcnt = 1 /\ divcnt > Half
      BY <1>1, <1>6, <3>2, Parts DEF Live, Counts, Shifts
    <3>3. CASE Counts
      BY <1>1, <3>2, <3>3, Parts DEF Counts, Live
    <3>4. CASE Shifts
      BY <1>1, <3>2, <3>4, Parts DEF Shifts, Live
    <3>. QED  BY <1>6, <3>1, <3>3, <3>4, TransmitterStep
  <2>3. ~Sending /\ ~Sending'
    <3>1. divcnt' \in Nat
      BY <1>2 DEF Handshake
    <3>. QED  BY <1>1, <2>2, <3>1 DEF Sending
  <2>4. Len(issued') = Len(rx'.bytes) + (IF Printing' THEN 1 ELSE 0)
    <3>1. Printing /\ ~uartAck => Printing'
      <4>1. Printing => Waits
        BY <1>3, BusHeld
      <4>. QED  BY <1>3, <4>1 DEF Waits, Printing
    <3>2. Printing => ~uartAck
      BY <1>2, <1>3, <2>2 DEF Handshake, InStep
    <3>3. cyc /\ ~Printing => ~Printing'
      BY BusHeld DEF Waits, Printing, BusSide
    <3>4. Len(issued) = Len(rx.bytes) + (IF Printing THEN 1 ELSE 0)
      BY <1>1, <1>4, <1>6, <2>3
    <3>5. /\ Len(issued') = Len(issued) + (IF ~cyc /\ Printing' THEN 1 ELSE 0)
          /\ rx'.bytes = rx.bytes
      BY <2>1, IssuedGrows
    <3>6. CASE Printing
      BY <1>1, <1>3, <3>1, <3>2, <3>4, <3>5, <3>6
    <3>7. CASE ~Printing
      BY <1>1, <3>3, <3>4, <3>5, <3>7
    <3>. QED  BY <3>6, <3>7
  <2>5. \A n \in 1..Len(rx'.bytes) : rx'.bytes[n] = issued'[n]
    <3>0. Len(issued) = Len(rx.bytes) \/ Len(issued) = Len(rx.bytes) + 1
      BY <1>1, <1>4, <1>6
    <3>1. 1..Len(rx.bytes) \subseteq 1..Len(issued) /\ rx'.bytes = rx.bytes
      BY <1>1, <3>0, <2>1
    <3>. QED  BY <1>1, <3>1, IssuedGrows
  <2>6. RxSide'
    BY <1>1, <2>1, <2>2, <2>3, <2>4, <2>5 DEF RxSide
  <2>. QED  BY <2>1, <2>6
<1>7. CASE Live /\ bitcnt = 1 /\ divcnt = Half
  <2>1. rx' = [ticks |-> 0, bits |-> {}, bytes |-> Append(rx.bytes, Sent)]
    BY <1>7, ReceiverStep
  <2>2. Sent \in Bytes /\ Len(rx.bytes) + 1 \in 1..Len(issued) /\ Sent = issued[Len(rx.bytes) + 1]
    BY <1>7, SentByte DEF Sent
  <2>3. bitcnt' = 1 /\ divcnt' = Half + 1 /\ ~Live' /\ ~Sending'
    <3>1. bitcnt' = 1 /\ divcnt' = Half + 1
      BY <1>7, Parts, TransmitterStep DEF Begins, Idles, Counts, Shifts
    <3>. QED  BY <3>1, Parts DEF Live, Sending
  <2>4. /\ rx'.bytes = Append(rx.bytes, Sent) /\ rx'.bytes \in Seq(Bytes)
        /\ Len(rx'.bytes) = Len(rx.bytes) + 1
        /\ \A n \in 1..Len(rx'.bytes) : rx'.bytes[n] = issued'[n]
    BY <1>1, <2>1, <2>2, IssuedGrows
  <2>5. Len(issued') = Len(rx'.bytes) + (IF Printing' THEN 1 ELSE 0)
    <3>1. CASE Half = 2
      <4>1. Sending
        BY <1>7, <3>1, Parts DEF Sending
      <4>2. Printing /\ uartAck
        BY <1>2, <1>7, <3>1, <4>1 DEF Handshake
      <4>3. ~cyc'
        BY <1>3, <1>7, <4>2, BusNext
      <4>4. ~Printing'
        BY <4>3 DEF Printing
      <4>. QED  BY <1>1, <1>4, <1>7, <2>4, <4>1, <4>2, <4>4, <1>3, IssuedGrows
    <3>2. CASE Half >= 3
      <4>1. ~Sending
        BY <1>7, <3>2, Parts DEF Sending
      <4>2. Printing => ~uartAck
        BY <1>2, <1>7, <3>2, Parts DEF Handshake, Printing
      <4>3. cyc => (Printing' <=> Printing)
        BY <4>2, BusNext
      <4>4. Len(issued) = Len(rx.bytes) + 1 + (IF Printing THEN 1 ELSE 0)
        BY <1>1, <1>4, <1>7, <4>1
      <4>5. Len(issued') = Len(issued) + (IF ~cyc /\ Printing' THEN 1 ELSE 0)
        BY IssuedGrows
      <4>. QED  BY <1>1, <1>3, <2>4, <4>2, <4>3, <4>4, <4>5
    <3>3. Half = 2 \/ Half >= 3
      BY Parts
    <3>. QED  BY <3>1, <3>2, <3>3, Zenon
  <2>6. RxSide'
    BY <2>1, <2>3, <2>4, <2>5 DEF RxSide
  <2>. QED  BY <2>2, <2>4, <2>6
<1>8. CASE Live /\ ~(bitcnt = 1 /\ divcnt = Half)
  <2>. DEFINE T == {j \in Sent : j + 1 = Gone /\ divcnt = Half}
  <2>1. rx' = [ticks |-> rx.ticks + 1, bits |-> rx.bits \cup T, bytes |-> rx.bytes]
    BY <1>8, ReceiverStep
  <2>2. Sent \in Bytes /\ Sent \subseteq 0 .. DataBits - 1 /\ Len(rx.bytes) + 1 \in 1..Len(issued)
    BY <1>8, SentByte
  <2>3. issued'[Len(rx'.bytes) + 1] = Sent
    BY <1>8, SameByte DEF Sent
  <2>4. Counts \/ Shifts
    BY <1>8, TransmitterStep DEF Begins, Idles, Live
  <2>5. /\ Live' /\ rx'.ticks = Period * (FrameBits - bitcnt') + divcnt'
    BY <1>8, <2>1, <2>4, RxPace
  <2>6. rx'.bits = {j \in issued'[Len(rx'.bytes) + 1] :
                      \/ j + 1 < FrameBits - bitcnt'
                      \/ j + 1 = FrameBits - bitcnt' /\ divcnt' > Half}
    <3>1. rx.bits = {j \in Sent : j + 1 < Gone \/ (j + 1 = Gone /\ divcnt > Half)}
      BY <1>8 DEF RxSide
    <3>2. rx'.bits = rx.bits \cup T
      BY <2>1
    <3>3. Sent \subseteq Nat
      BY <2>2, Parts
    <3>4. ASSUME NEW j \in Sent
          PROVE  j \in rx'.bits <=> \/ j + 1 < FrameBits - bitcnt'
                                    \/ j + 1 = FrameBits - bitcnt' /\ divcnt' > Half
      <4>1. j \in Nat
        BY <3>3
      <4>2. j \in rx'.bits <=> \/ j + 1 < Gone \/ (j + 1 = Gone /\ divcnt > Half)
                               \/ j + 1 = Gone /\ divcnt = Half
        BY <3>1, <3>2
      <4>. QED  BY <1>8, <2>4, <4>1, <4>2, RxPace
    <3>5. rx'.bits \subseteq Sent
      BY <3>1, <3>2
    <3>. QED  BY <2>3, <3>4, <3>5
  <2>7. rx' \in [ticks : Nat, bits : SUBSET (0 .. DataBits - 1), bytes : Seq(Bytes)]
    <3>1. T \subseteq 0 .. DataBits - 1
      BY <2>2
    <3>. HIDE DEF T
    <3>2. rx.ticks + 1 \in Nat /\ rx.bits \in SUBSET (0 .. DataBits - 1)
      BY <1>1
    <3>3. rx.bits \cup T \in SUBSET (0 .. DataBits - 1)
      BY <3>1, <3>2, Zenon
    <3>. QED  BY <1>1, <2>1, <3>2, <3>3
  <2>8. \A n \in 1..Len(rx'.bytes) : rx'.bytes[n] = issued'[n]
    BY <1>1, <2>1, <2>2, IssuedGrows
  <2>9. Len(issued') = Len(rx'.bytes) + 1 + (IF Printing' /\ ~Sending' THEN 1 ELSE 0)
    <3>1. rx'.bytes = rx.bytes
      BY <2>1
    <3>2. Len(issued) = Len(rx.bytes) + 1 + (IF Printing /\ ~Sending THEN 1 ELSE 0)
      BY <1>4, <1>8
    <3>3. CASE Sending
      <4>1. Printing
        BY <1>2, <3>3 DEF Handshake
      <4>2. Sending' \/ ~Printing'
        <5>1. CASE uartAck
          BY <1>3, <1>8, <4>1, <5>1, BusNext DEF Live, Printing
        <5>2. CASE ~uartAck
          <6>1. bitcnt >= 2 \/ (bitcnt = 1 /\ divcnt <= 1)
            BY <1>1, <1>2, <3>3, <5>2 DEF Handshake, Sending
          <6>. QED  BY <1>1, <2>4, <6>1, Parts DEF Counts, Shifts, Sending
        <5>. QED  BY <5>1, <5>2
      <4>. QED  BY <1>1, <1>3, <3>1, <3>2, <3>3, <4>1, <4>2, IssuedGrows
    <3>4. CASE ~Sending
      <4>1. bitcnt = 1 /\ divcnt >= 3 /\ bitcnt # 0
        BY <1>1, <1>8, <3>4 DEF Live, Sending
      <4>2. ~Sending'
        <5>1. CASE Counts
          BY <1>1, <4>1, <5>1 DEF Counts, Sending
        <5>2. CASE Shifts
          BY <4>1, <5>2 DEF Shifts, Sending
        <5>. QED  BY <2>4, <5>1, <5>2
      <4>3. Printing => ~uartAck
        BY <1>2, <4>1 DEF Handshake, Printing
      <4>4. cyc => (Printing' <=> Printing)
        BY <4>3, BusNext
      <4>. QED  BY <1>1, <1>3, <3>1, <3>2, <3>4, <4>2, <4>3, <4>4, IssuedGrows
    <3>. QED  BY <3>3, <3>4
  <2>10. RxSide'
    BY <2>5, <2>6, <2>7, <2>8, <2>9 DEF RxSide, Gone, Sent
  <2>. QED  BY <2>1, <2>10
<1>. QED  BY <1>5, <1>6, <1>7, <1>8

-----------------------------------------------------------------------------
(* The theorems. *)

\* After a reset nothing is sent.
LEMMA UartInvInit == Init => UartInv
<1>. SUFFICES ASSUME Init PROVE UartInv
  OBVIOUS
<1>1. /\ simulation \in BOOLEAN /\ ~uartAck /\ ~txStarted /\ bitcnt = 0 /\ divcnt = 0
      /\ ~inProg /\ ~finished /\ uartLog = <<>> /\ pattern = 0 .. FrameBits - 1
      /\ ~cyc /\ ~busy /\ issued = <<>>
      /\ rx = [ticks |-> 0, bits |-> {}, bytes |-> <<>>]
  BY UartPathAssumption DEF Init, UartIdle
<1>2. ~Printing /\ ~Configuring /\ ~Live /\ ~Sending
  BY <1>1 DEF Printing, Configuring, Live, Sending
<1>3. BusSide
  <2>1. /\ uartAck = FALSE /\ txStarted = FALSE /\ inProg = FALSE /\ finished = FALSE
        /\ cyc = FALSE /\ busy = FALSE
    BY DEF Init, UartIdle
  <2>2. issued \in Seq(Bytes)
    BY <1>1
  <2>. QED  BY <1>1, <1>2, <2>1, <2>2, Zenon DEF BusSide
<1>4. LogSide
  BY <1>1, <1>2 DEF LogSide
<1>5. ~simulation => InStep
  BY <1>1, <1>2, Parts DEF InStep, Init
<1>6. LineSide
  BY <1>1 DEF LineSide
<1>7. RxSide
  BY <1>1, <1>2 DEF RxSide
<1>. QED  BY <1>3, <1>4, <1>5, <1>6, <1>7 DEF UartInv

\* Every step keeps the invariant.
LEMMA UartInvStep == UartInv /\ [Next]_vars => UartInv'
<1>1. ASSUME UartInv, Next PROVE UartInv'
  <2>1. BusSide /\ BusSide' /\ simulation' = simulation /\ simulation \in BOOLEAN
    BY <1>1, BusSideStep, Edge DEF UartInv, BusSide, Answers
  <2>2. CASE simulation
    BY <1>1, <2>1, <2>2, LogSideStep DEF UartInv
  <2>3. CASE ~simulation
    <3>1. InStep /\ LineSide /\ RxSide
      BY <1>1, <2>3 DEF UartInv
    <3>2. LineSide' /\ RxSide' /\ Handshake' /\ Settled'
      BY <1>1, <2>1, <2>3, <3>1, LineSideStep, RxSideStep, HandshakeStep, SettledStep
    <3>3. InStep'
      BY <3>2 DEF InStep, Handshake, Settled
    <3>. QED  BY <2>1, <2>3, <3>2, <3>3 DEF UartInv
  <2>. QED  BY <2>2, <2>3
<1>2. ASSUME UartInv, UNCHANGED vars PROVE UartInv'
  BY <1>2 DEF vars, busVars, uartVars, UartInv, BusSide, LogSide, InStep, LineSide, RxSide,
       Printing, Configuring, Live, Sending, Gone, Sent
<1>. QED  BY <1>1, <1>2

\* Software, the bus master, the registers and the transmitter of wb_uart.v,
\* the log and the receiver stay in step, for every frame length, every
\* divider of at least 2 and every sequence of bytes.
THEOREM UartInvariant == Spec => []UartInv
BY UartInvInit, UartInvStep, PTL DEF Spec

\* A sequence that is one longer than another and agrees with it.
LEMMA OneLonger ==
  ASSUME NEW S, NEW s \in Seq(S), NEW t \in Seq(S), Len(t) = Len(s) + 1,
         \A n \in 1..Len(s) : s[n] = t[n]
  PROVE  t = Append(s, t[Len(t)])
<1>. DEFINE a == Append(s, t[Len(t)])
<1>1. Len(s) \in Nat /\ Len(t) \in 1..Len(t) /\ t[Len(t)] \in S
  OBVIOUS
<1>2. a \in Seq(S) /\ Len(a) = Len(t) /\ a[Len(t)] = t[Len(t)]
  BY <1>1
<1>3. \A n \in 1..Len(s) : a[n] = t[n]
  BY <1>1
<1>4. \A n \in 1..Len(t) : n \in 1..Len(s) \/ n = Len(t)
  BY <1>1
<1>5. \A n \in 1..Len(t) : a[n] = t[n]
  BY <1>2, <1>3, <1>4, Zenon
<1>. HIDE DEF a
<1>6. a = t
  BY <1>2, <1>5
<1>. QED  BY <1>6 DEF a

\* _putchar returns only when its byte is in the log, or on the line up to
\* the stop bit.
LEMMA SentBeforeReturn == UartInv => ReturnsWhenSent
<1>. SUFFICES ASSUME UartInv, ~busy PROVE Len(Output) >= Len(issued) \/
         (/\ issued = Append(Output, rx.bits)
          /\ rx.ticks > (Divider + 2) * (FrameBits - 1)
          /\ TxLine)
  BY DEF ReturnsWhenSent
<1>1. BusSide /\ ~cyc /\ ~Printing /\ issued \in Seq(Bytes) /\ Len(issued) \in Nat
  BY DEF UartInv, BusSide, Printing
<1>2. CASE simulation
  BY <1>1, <1>2 DEF UartInv, LogSide, Output
<1>3. CASE ~simulation
  <2>1. InStep /\ LineSide /\ RxSide /\ Output = rx.bytes
    BY <1>3 DEF UartInv, Output
  <2>2. /\ rx.bytes \in Seq(Bytes) /\ Len(rx.bytes) \in Nat
        /\ Len(issued) = Len(rx.bytes) + (IF Live THEN 1 ELSE 0)
    BY <1>1, <2>1 DEF RxSide
  <2>3. CASE ~Live
    BY <1>1, <2>1, <2>2, <2>3
  <2>4. CASE Live
    <3>1. ~Sending /\ bitcnt \in Nat /\ divcnt \in Nat
      BY <1>1, <2>1, Parts DEF InStep
    <3>2. bitcnt = 1 /\ divcnt >= 3
      BY <2>4, <3>1 DEF Live, Sending
    <3>3. TxLine
      BY <1>1, <2>1, <3>2, OnTheLine
    <3>4. Gone = FrameBits - 1 /\ Gone = DataBits + 1 /\ Gone \in Nat
      BY <3>2, Parts DEF Gone
    <3>5. rx.ticks > (Divider + 2) * (FrameBits - 1)
      <4>1. rx.ticks = Period * Gone + divcnt
        BY <2>1, <2>4 DEF RxSide
      <4>2. Period * Gone \in Nat
        BY <3>4, Parts
      <4>3. rx.ticks > Period * Gone
        BY <3>1, <3>2, <4>1, <4>2
      <4>. QED  BY <3>4, <4>3 DEF Period
    <3>6. rx.bits = Sent /\ Sent \in Bytes
      <4>1. Sent \in Bytes /\ Sent \subseteq 0 .. DataBits - 1
        BY <1>1, <2>1, <2>4, SentByte
      <4>2. \A j \in Sent : j + 1 < Gone
        BY <3>4, <4>1, Parts
      <4>. QED  BY <2>1, <2>4, <4>1, <4>2 DEF RxSide
    <3>7. issued = Append(rx.bytes, Sent)
      <4>1. Len(issued) = Len(rx.bytes) + 1 /\ Sent = issued[Len(issued)]
        BY <2>2, <2>4 DEF Sent
      <4>2. \A n \in 1..Len(rx.bytes) : rx.bytes[n] = issued[n]
        BY <2>1 DEF RxSide
      <4>. QED  BY <1>1, <2>2, <4>1, <4>2, OneLonger
    <3>. QED  BY <2>1, <3>3, <3>5, <3>6, <3>7
  <2>. QED  BY <2>3, <2>4
<1>. QED  BY <1>2, <1>3

\* So it is in every reachable state, for every frame length, divider and
\* sequence of bytes.
THEOREM PutcharReturnsWhenSent == Spec => []ReturnsWhenSent
BY UartInvariant, SentBeforeReturn, PTL

\* The safety part of PrintsEveryByte: what comes out of the SoC is, at every
\* moment, a prefix of what software has printed, and grows by the next byte.
ChannelSafety == Channel!Init /\ [][Channel!Next]_<<issued, Output>>

\* Every clock edge is a step of the channel, or leaves it alone.
LEMMA ChannelStep == UartInv /\ Next => Channel!Next
<1>. SUFFICES ASSUME UartInv, Next PROVE Channel!Next
  OBVIOUS
<1>1. BusSide /\ simulation' = simulation
  BY Edge DEF UartInv, Answers
<1>2. (\E b \in Bytes : issued' = Append(issued, b)) \/ issued' = issued
  BY <1>1, Edge DEF Configures, Prints, Waits
<1>3. \/ Output' = Output
      \/ /\ Len(Output) < Len(issued)
         /\ Output' = Append(Output, issued[Len(Output) + 1])
  <2>1. CASE simulation
    <3>1. Output = uartLog /\ Output' = uartLog' /\ LogSide
      BY <1>1, <2>1 DEF Output, UartInv
    <3>. QED  BY <1>1, <2>1, <3>1, LogSideStep
  <2>2. CASE ~simulation
    <3>1. /\ Output = rx.bytes /\ Output' = rx'.bytes
          /\ InStep /\ LineSide /\ RxSide
      BY <1>1, <2>2 DEF Output, UartInv
    <3>. QED  BY <1>1, <2>2, <3>1, RxSideStep
  <2>. QED  BY <2>1, <2>2
<1>. QED  BY <1>2, <1>3 DEF Channel!Next, Channel!Put, Channel!Deliver

\* No byte is lost, repeated or overtaken between _putchar and the line or
\* the log.
THEOREM PrintsInOrder == Spec => ChannelSafety
<1>1. Init => Channel!Init
  <2>. SUFFICES ASSUME Init PROVE issued = <<>> /\ Output = <<>>
    BY DEF Channel!Init
  <2>. QED  BY DEF Init, UartIdle, Output
<1>2. UartInv /\ [Next]_vars => [Channel!Next]_<<issued, Output>>
  <2>1. ASSUME UNCHANGED vars PROVE UNCHANGED <<issued, Output>>
    BY <2>1 DEF vars, uartVars, Output
  <2>. QED  BY <2>1, ChannelStep
<1>. QED  BY <1>1, <1>2, UartInvariant, PTL DEF Spec, ChannelSafety

-----------------------------------------------------------------------------
(* The FPGA host: the inductive invariant. *)

\* Positions in main of default_fpga.py: run_soc, and halt_soc at the end.
RunAt == 4 + Len(Greeting) + 2 * Len(Addresses) + Len(Farewell)
LastHalt == RunAt + 2 + 2 * Steps

\* In CPU_IDLE nothing keeps the CPU from its next step.
Quiescent == state = "CPU_IDLE" => /\ ~aluBusy /\ ~busy /\ ~csrBusy
                                   /\ ~HandlingTrap /\ ~HandlingMret

\* A new run of the driver finds the CPU anywhere, and in reset.
Started ==
  call = 1 => shadow = {} /\ "CPU_RESET" \in control /\ retired = 0

\* During the upload the CPU is halted in its reset state.
Uploading ==
  call \in 2 .. RunAt - 1 \/ (call = RunAt /\ point = "begin") =>
    /\ state = "RESET" /\ retired = 0
    /\ "HALT" \in control /\ "DO_STEP" \notin control
    /\ "HALT" \in shadow /\ "DO_STEP" \notin shadow

\* Between the two accesses of run_soc it is in reset again.
Restarting ==
  call = RunAt => /\ point \in {"begin", "go"}
                  /\ point = "go" => /\ state = "RESET" /\ retired = 0
                                     /\ "CPU_RESET" \in control
                                     /\ {"HALT", "DO_STEP"} \cap shadow = {}

\* Then each instruction ends in CPU_IDLE.  DO_STEP is seen there by one
\* tick, which do_step's caller spends in get_cpu_status.
Stepping ==
  call \in RunAt + 1 .. LastHalt =>
    /\ {"HALT", "CPU_RESET"} \cap (control \cup shadow) = {}
    /\ "SINGLESTEP" \in control /\ "SINGLESTEP" \in shadow
    /\ "DO_STEP" \in control => state = "CPU_IDLE" /\ Current.op = "status" /\ point = "begin"
    /\ Current.op = "step" /\ point = "go" => state = "CPU_IDLE"
    /\ retired = StepsRequested
                   + IF state = "CPU_IDLE" /\ "DO_STEP" \notin control THEN 1 ELSE 0

\* At the end it stays where halt_soc finds it, the stale step bit of the
\* shadow register notwithstanding.
Halted ==
  call > LastHalt =>
    /\ "HALT" \in control /\ "CPU_RESET" \notin control
    /\ retired = StepsRequested + IF state = "CPU_IDLE" THEN 1 ELSE 0

\* Every second call between run_soc and the last halt_soc is a step.
Requested ==
  /\ StepsRequested \in Nat
  /\ call <= RunAt + 1 => StepsRequested = 0
  /\ call \in RunAt + 1 .. LastHalt => call - RunAt - 1 - 2 * StepsRequested \in {0, 1}
  /\ call > LastHalt => StepsRequested = Steps

HostInv ==
  /\ image \in Images /\ call \in 1 .. LastHalt + 2 /\ insn \in Insn
  /\ Quiescent /\ Started /\ Uploading /\ Restarting /\ Stepping /\ Halted /\ Requested

-----------------------------------------------------------------------------
(* One edge of the CPU, by its main machine. *)

\* What a tick does to the state: only UPDATE_PC leads to CPU_IDLE, in single
\* step it leads nowhere else, and only a step leads out again.
CpuMoves(x) ==
  /\ insn' \in Insn /\ Quiescent'
  /\ x.rst => state' = "RESET"
  /\ ~x.rst =>
       /\ x.halt => state' = state
       /\ state \notin {"UPDATE_PC", "CPU_IDLE"} => state' # "CPU_IDLE"
       /\ state = "UPDATE_PC" /\ x.single => state' \in {"UPDATE_PC", "CPU_IDLE"}
       /\ state = "CPU_IDLE" /\ ~x.halt =>
            state' = IF x.step THEN "PRE_FETCH" ELSE "CPU_IDLE"

\* A state other than the two moves on to a third.
LEMMA OtherMoves ==
  ASSUME NEW x, NEW o, insn \in Insn, x.rst \in BOOLEAN,
         state \notin {"UPDATE_PC", "CPU_IDLE"},
         o.next # "CPU_IDLE", o.insn \in Insn, CpuClock(x, o)
  PROVE  CpuMoves(x)
<1>1. MainRegisters(x, o)
  BY DEF CpuClock
<1>2. insn' \in Insn
  BY <1>1 DEF MainRegisters
<1>3. x.rst => state' = "RESET"
  BY <1>1 DEF MainRegisters
<1>4. ~x.rst => state' = IF Stalled(x) THEN state ELSE o.next
  BY <1>1 DEF MainRegisters
<1>5. state' # "CPU_IDLE"
  BY <1>3, <1>4
<1>6. x.halt => Stalled(x)
  BY DEF Stalled
<1> QED BY <1>2, <1>3, <1>4, <1>5, <1>6 DEF CpuMoves, Quiescent

\* UPDATE_PC and CPU_IDLE start nothing: the CPU is quiet in CPU_IDLE.
LEMMA QuietMoves ==
  ASSUME NEW x, NEW o, insn \in Insn, Quiescent, x.rst \in BOOLEAN,
         state \in {"UPDATE_PC", "CPU_IDLE"},
         o.insn = insn, ~o.trap, ~o.mret, o.csr = NoCsr, o.bus = NoBus,
         CpuClock(x, o)
  PROVE  /\ insn' \in Insn
         /\ x.rst => state' = "RESET"
         /\ ~x.rst => state' = IF Stalled(x) THEN state ELSE o.next
         /\ state' = "CPU_IDLE" => Quiescent'
<1>1. MainRegisters(x, o) /\ Sequencers(x, o) /\ Alu(x, o)
  BY DEF CpuClock
<1>2. insn' \in Insn
  BY <1>1 DEF MainRegisters
<1>3. x.rst => state' = "RESET"
  BY <1>1 DEF MainRegisters
<1>4. ~x.rst => state' = IF Stalled(x) THEN state ELSE o.next
  BY <1>1 DEF MainRegisters
<1>5. ASSUME state' = "CPU_IDLE" PROVE Quiescent'
  <2>1. ~x.rst
    BY <1>3, <1>5
  <2>2. /\ ~aluBusy /\ ~busy /\ ~csrBusy /\ ~HandlingTrap /\ ~HandlingMret
    BY <1>4, <1>5, <2>1 DEF Quiescent, Stalled
  <2>3. trapState \in {"RESET", "IDLE"} /\ mretState \in {"RESET", "IDLE"}
    BY <2>2 DEF HandlingTrap, HandlingMret
  <2>4. trapState' = "IDLE" /\ mretState' = "IDLE"
    BY <1>1, <2>1, <2>2, <2>3 DEF Sequencers, NextTrapState, NextMretState
  <2>5. ~aluBusy'
    BY <1>1, <2>1, <2>2 DEF Alu
  <2>6. ~busy'
    <3>1. BusTick(o.bus.en, o.bus.op, o.bus.addr, insn.data, x.ack, x.dat)
      BY DEF CpuClock
    <3>2. ~o.bus.en
      BY DEF NoBus
    <3> QED BY <2>2, <3>1, <3>2, Zenon DEF BusTick
  <2>7. CsrTick(NoCsr)
    BY <2>1, <2>2 DEF CpuClock, CsrMux
  <2>8. ~csrBusy'
    BY <2>2, <2>7 DEF CsrTick, CsrRequest, NoCsr
  <2> QED BY <2>4, <2>5, <2>6, <2>8 DEF Quiescent, HandlingTrap, HandlingMret
<1> QED BY <1>2, <1>3, <1>4, <1>5

LEMMA UpdatePcMoves ==
  ASSUME NEW x, insn \in Insn, Quiescent, x.rst \in BOOLEAN, StateUpdatePc(x)
  PROVE  CpuMoves(x)
<1> DEFINE o == [Defaults EXCEPT !.next = IF x.single \/ testFinished THEN "CPU_IDLE"
                                          ELSE "PRE_FETCH"]
<1>1. ~AddrMisaligned
  BY DEF AddrMisaligned, NextPc
<1>2. state = "UPDATE_PC" /\ CpuClock(x, o)
  BY <1>1 DEF StateUpdatePc
<1>3. /\ o.insn = insn /\ ~o.trap /\ ~o.mret /\ o.csr = NoCsr /\ o.bus = NoBus
      /\ x.single => o.next = "CPU_IDLE"
  BY DEF Defaults
<1> HIDE DEF o
<1>4. /\ insn' \in Insn
      /\ x.rst => state' = "RESET"
      /\ ~x.rst => state' = IF Stalled(x) THEN state ELSE o.next
      /\ state' = "CPU_IDLE" => Quiescent'
  BY <1>2, <1>3, QuietMoves
<1>5. x.halt => Stalled(x)
  BY DEF Stalled
<1>6. Quiescent'
  BY <1>4 DEF Quiescent
<1> QED BY <1>2, <1>3, <1>4, <1>5, <1>6 DEF CpuMoves

LEMMA CpuIdleMoves ==
  ASSUME NEW x, insn \in Insn, Quiescent, x.rst \in BOOLEAN, StateCpuIdle(x)
  PROVE  CpuMoves(x)
<1> DEFINE o == [Defaults EXCEPT !.next = IF x.step THEN "PRE_FETCH" ELSE "CPU_IDLE"]
<1>1. state = "CPU_IDLE" /\ CpuClock(x, o)
  BY DEF StateCpuIdle
<1>2. /\ o.insn = insn /\ ~o.trap /\ ~o.mret /\ o.csr = NoCsr /\ o.bus = NoBus
      /\ o.next = IF x.step THEN "PRE_FETCH" ELSE "CPU_IDLE"
  BY DEF Defaults
<1> HIDE DEF o
<1>3. /\ insn' \in Insn
      /\ x.rst => state' = "RESET"
      /\ ~x.rst => state' = IF Stalled(x) THEN state ELSE o.next
      /\ state' = "CPU_IDLE" => Quiescent'
  BY <1>1, <1>2, QuietMoves
<1>4. Stalled(x) <=> x.halt
  BY <1>1 DEF Stalled, Quiescent
<1>5. Quiescent'
  BY <1>3 DEF Quiescent
<1> QED BY <1>1, <1>2, <1>3, <1>4, <1>5 DEF CpuMoves

\* The outputs of the other states.
LEMMA OtherOutputs ==
  ASSUME NEW x, insn \in Insn, CpuTick(x), ~StateUpdatePc(x), ~StateCpuIdle(x)
  PROVE  /\ state \notin {"UPDATE_PC", "CPU_IDLE"}
         /\ \E o : o.next # "CPU_IDLE" /\ o.insn \in Insn /\ CpuClock(x, o)
<1>0. insn.stage \in {"FETCH", "LOAD", "STORE", "BRANCH", "SYSTEM", "TRAP"}
      /\ insn.sys \in {"ECALL", "EBREAK", "WFI", "MRET", "INVALID", "CSRRW", "CSRRS", "CSRRC"}
  BY DEF Insn
<1>1. CASE StateReset(x)
  <2> DEFINE o == [Defaults EXCEPT !.next = "PRE_FETCH"]
  <2>1. o.next # "CPU_IDLE" /\ o.insn = insn
    BY <1>0 DEF Defaults
  <2>2. CpuClock(x, o) /\ state \in {"RESET"}
    BY <1>1 DEF StateReset
  <2> QED BY <2>1, <2>2
<1>2. CASE StatePreFetch(x)
  <2> DEFINE o == [Defaults EXCEPT !.next = "FETCH", !.check = tagsIfEn,
                                   !.bus = Access("READW", pc)]
  <2>1. o.next # "CPU_IDLE" /\ o.insn = insn
    BY <1>0 DEF Defaults
  <2>2. CpuClock(x, o) /\ state \in {"PRE_FETCH"}
    BY <1>2 DEF StatePreFetch
  <2> QED BY <2>1, <2>2
<1>3. CASE StateFetch(x)
  <2>1. PICK i \in IF Stalled(x) THEN {insn} ELSE Insns :
          CpuClock(x, [Defaults EXCEPT
             !.next = IF 1 \in pc /\ i.long THEN "PREPAIR_UNALIGNED_FETCH" ELSE "DECODE",
             !.insn = i,
             !.aluEn = TRUE,
             !.alu = AddBit(pc, IF i.long /\ ~(1 \in pc /\ i.long) THEN 2 ELSE 1, PcTop)])
    BY <1>3 DEF StateFetch
  <2> DEFINE o == [Defaults EXCEPT
             !.next = IF 1 \in pc /\ i.long THEN "PREPAIR_UNALIGNED_FETCH" ELSE "DECODE",
             !.insn = i,
             !.aluEn = TRUE,
             !.alu = AddBit(pc, IF i.long /\ ~(1 \in pc /\ i.long) THEN 2 ELSE 1, PcTop)]
  <2>2. i \in Insn
    BY CpuAssumption
  <2>3. o.next # "CPU_IDLE" /\ o.insn = i
    BY DEF Defaults
  <2>4. CpuClock(x, o) /\ state = "FETCH"
    BY <1>3, <2>1 DEF StateFetch
  <2> QED BY <2>2, <2>3, <2>4
<1>4. CASE StatePrepairUnalignedFetch(x)
  <2> DEFINE o == [Defaults EXCEPT !.next = "FETCH_MORE",
                                   !.bus = Access("READW", aluOut)]
  <2>1. o.next # "CPU_IDLE" /\ o.insn = insn
    BY <1>0 DEF Defaults
  <2>2. CpuClock(x, o) /\ state \in {"PREPAIR_UNALIGNED_FETCH"}
    BY <1>4 DEF StatePrepairUnalignedFetch
  <2> QED BY <2>1, <2>2
<1>5. CASE StateFetchMore(x)
  <2> DEFINE o == [Defaults EXCEPT !.next = "DECODE", !.aluEn = TRUE,
                                   !.alu = AddBit(pc, 2, PcTop)]
  <2>1. o.next # "CPU_IDLE" /\ o.insn = insn
    BY <1>0 DEF Defaults
  <2>2. CpuClock(x, o) /\ state \in {"FETCH_MORE"}
    BY <1>5 DEF StateFetchMore
  <2> QED BY <2>1, <2>2
<1>6. CASE StateDecode(x)
  <2> DEFINE o == IF InterruptOccured(x) /\ irqEn
                  THEN Trap(IF x.tags /\ tagsEn THEN CAUSE_TAG_MISMATCH
                            ELSE IF x.timer THEN CAUSE_TIMER_INTERRUPT ELSE {})
                  ELSE [Defaults EXCEPT !.next = "EXEC"]
  <2>1. o.next # "CPU_IDLE" /\ o.insn = insn
    BY DEF Defaults, Trap
  <2>2. CpuClock(x, o) /\ state = "DECODE"
    BY <1>6 DEF StateDecode
  <2> QED BY <2>1, <2>2
<1>7. CASE StateExec(x)
  <2> DEFINE o == [Defaults EXCEPT
       !.next = CASE insn.stage = "FETCH"  -> "POST_EXEC"
                  [] insn.stage = "LOAD"   -> "LOAD1"
                  [] insn.stage = "STORE"  -> "STORE1"
                  [] insn.stage = "BRANCH" -> "BRANCH2"
                  [] insn.stage = "SYSTEM" -> "SYSTEM"
                  [] insn.stage = "TRAP"   -> "TRAP",
       !.done = TRUE,
       !.aluEn = TRUE, !.alu = insn.alu]
  <2>1. o.next # "CPU_IDLE" /\ o.insn = insn
    BY <1>0 DEF Defaults
  <2>2. CpuClock(x, o) /\ state \in {"EXEC"}
    BY <1>7 DEF StateExec
  <2> QED BY <2>1, <2>2
<1>8. CASE StatePostExec(x)
  <2> DEFINE o == [Defaults EXCEPT !.next = "UPDATE_PC"]
  <2>1. o.next # "CPU_IDLE" /\ o.insn = insn
    BY <1>0 DEF Defaults
  <2>2. CpuClock(x, o) /\ state \in {"POST_EXEC"}
    BY <1>8 DEF StatePostExec
  <2> QED BY <2>1, <2>2
<1>9. CASE StateLoad1(x)
  <2> DEFINE o == [Defaults EXCEPT !.next = "LOAD2", !.check = DataCheck,
                                   !.bus = Access(insn.op, aluOut)]
  <2>1. o.next # "CPU_IDLE" /\ o.insn = insn
    BY <1>0 DEF Defaults
  <2>2. CpuClock(x, o) /\ state \in {"LOAD1"}
    BY <1>9 DEF StateLoad1
  <2> QED BY <2>1, <2>2
<1>10. CASE StateLoad2(x)
  <2> DEFINE o == [Defaults EXCEPT !.next = "UPDATE_PC", !.fromBus = TRUE]
  <2>1. o.next # "CPU_IDLE" /\ o.insn = insn
    BY <1>0 DEF Defaults
  <2>2. CpuClock(x, o) /\ state \in {"LOAD2"}
    BY <1>10 DEF StateLoad2
  <2> QED BY <2>1, <2>2
<1>11. CASE StateStore1(x)
  <2> DEFINE o == [Defaults EXCEPT !.next = "STORE2", !.check = DataCheck,
                                   !.bus = Access(insn.op, aluOut),
                                   !.csr = CsrRead("MIP")]
  <2>1. o.next # "CPU_IDLE" /\ o.insn = insn
    BY <1>0 DEF Defaults
  <2>2. CpuClock(x, o) /\ state \in {"STORE1"}
    BY <1>11 DEF StateStore1
  <2> QED BY <2>1, <2>2
<1>12. CASE StateStore2(x)
  <2> DEFINE o == [Defaults EXCEPT !.next = "UPDATE_PC",
       !.csr = IF x.clearMip THEN CsrWrite("MIP", csrData \ {MTI}) ELSE NoCsr]
  <2>1. o.next # "CPU_IDLE" /\ o.insn = insn
    BY <1>0 DEF Defaults
  <2>2. CpuClock(x, o) /\ state \in {"STORE2"}
    BY <1>12 DEF StateStore2
  <2> QED BY <2>1, <2>2
<1>13. CASE StateBranch2(x)
  <2> DEFINE o == [Defaults EXCEPT !.next = "UPDATE_PC", !.aluEn = TRUE,
                                   !.alu = insn.alu, !.branch = aluFlags]
  <2>1. o.next # "CPU_IDLE" /\ o.insn = insn
    BY <1>0 DEF Defaults
  <2>2. CpuClock(x, o) /\ state \in {"BRANCH2"}
    BY <1>13 DEF StateBranch2
  <2> QED BY <2>1, <2>2
<1>14. CASE StateSystem(x)
  <2> DEFINE o ==
       CASE insn.sys = "ECALL"   -> [Trap(CAUSE_ECALL) EXCEPT !.finished = insn.last]
         [] insn.sys = "EBREAK"  -> Trap(CAUSE_BREAK)
         [] insn.sys = "INVALID" -> Trap(CAUSE_INVALID_INSTRUCTION)
         [] insn.sys = "WFI"     -> [Defaults EXCEPT !.next = "UPDATE_PC"]
         [] insn.sys = "MRET"    -> [Defaults EXCEPT !.next = "MRET", !.mret = TRUE,
                                                     !.csr = CsrRead("MSTATUS")]
         [] insn.sys \in {"CSRRW", "CSRRS", "CSRRC"} ->
              [Defaults EXCEPT !.next = "CSR1", !.csr = CsrRead(insn.csr)]
  <2>1. o.next # "CPU_IDLE" /\ o.insn = insn
    BY <1>0 DEF Defaults, Trap
  <2>2. CpuClock(x, o) /\ state = "SYSTEM"
    BY <1>14 DEF StateSystem
  <2> QED BY <2>1, <2>2
<1>15. CASE StateCsr1(x)
  <2> DEFINE o == [Defaults EXCEPT !.next = "CSR2"]
  <2>1. o.next # "CPU_IDLE" /\ o.insn = insn
    BY <1>0 DEF Defaults
  <2>2. CpuClock(x, o) /\ state \in {"CSR1"}
    BY <1>15 DEF StateCsr1
  <2> QED BY <2>1, <2>2
<1>16. CASE StateCsr2(x)
  <2> DEFINE o == [Defaults EXCEPT !.next = "UPDATE_PC",
       !.csr = CsrWrite(insn.csr,
                        CASE insn.sys = "CSRRW" -> insn.operand
                          [] insn.sys = "CSRRS" -> csrData \cup insn.operand
                          [] insn.sys = "CSRRC" -> csrData \ insn.operand)]
  <2>1. o.next # "CPU_IDLE" /\ o.insn = insn
    BY <1>0 DEF Defaults
  <2>2. CpuClock(x, o) /\ state \in {"CSR2"}
    BY <1>16 DEF StateCsr2
  <2> QED BY <2>1, <2>2
<1>17. CASE StateTrap(x)
  <2> DEFINE o == [Defaults EXCEPT !.next = "UPDATE_PC", !.fromCsr = TRUE]
  <2>1. o.next # "CPU_IDLE" /\ o.insn = insn
    BY <1>0 DEF Defaults
  <2>2. CpuClock(x, o) /\ state \in {"TRAP", "MRET"}
    BY <1>17 DEF StateTrap
  <2> QED BY <2>1, <2>2
<1> QED BY <1>1, <1>2, <1>3, <1>4, <1>5, <1>6, <1>7, <1>8, <1>9, <1>10, <1>11, <1>12, <1>13, <1>14, <1>15, <1>16, <1>17
  DEF CpuTick

\* Every state of cpu.v.
LEMMA CpuStep ==
  ASSUME NEW x, insn \in Insn, Quiescent, x.rst \in BOOLEAN, CpuTick(x)
  PROVE  CpuMoves(x)
<1>1. CASE StateUpdatePc(x)
  BY <1>1, UpdatePcMoves
<1>2. CASE StateCpuIdle(x)
  BY <1>2, CpuIdleMoves
<1>3. CASE ~StateUpdatePc(x) /\ ~StateCpuIdle(x)
  <2>1. state \notin {"UPDATE_PC", "CPU_IDLE"}
    BY <1>3, OtherOutputs
  <2>2. PICK o : o.next # "CPU_IDLE" /\ o.insn \in Insn /\ CpuClock(x, o)
    BY <1>3, OtherOutputs
  <2> QED BY <2>1, <2>2, OtherMoves
<1> QED BY <1>1, <1>2, <1>3

-----------------------------------------------------------------------------
(* The script of the driver. *)

LibraryCall == [op : {"halt", "write", "read", "status", "run", "step"},
                addr : Word, data : Word]

\* The parts of main are sequences of calls.
LEMMA ScriptParts ==
  ASSUME NEW img \in Images
  PROVE  /\ <<Op("halt"), WriteWord(UART_BAUDE_DIVIDER_ADDR, BaudWord)>> \in Seq(LibraryCall)
         /\ \A text \in Seq(Word) : UartPrint(text) \in Seq(LibraryCall)
         /\ [n \in 1..Len(Addresses) |-> WriteWord(Addresses[n], img[Addresses[n]])]
              \in Seq(LibraryCall)
         /\ [n \in 1..Len(Addresses) |-> ReadWord(Addresses[n])] \in Seq(LibraryCall)
         /\ <<Op("status"), Op("run"), Op("status")>> \in Seq(LibraryCall)
         /\ [n \in 1 .. 2 * Steps |-> Op(IF n % 2 = 1 THEN "step" ELSE "status")]
              \in Seq(LibraryCall)
         /\ <<Op("halt"), Op("status")>> \in Seq(LibraryCall)
<1>1. \A o \in {"halt", "status", "run", "step"} : Op(o) \in LibraryCall
  <2>1. {} \in Word
    BY DEF Word
  <2> QED BY <2>1 DEF Op, LibraryCall
<1>2. \A a, d \in Word : WriteWord(a, d) \in LibraryCall /\ ReadWord(a) \in LibraryCall
  <2>1. {} \in Word
    BY DEF Word
  <2> QED BY <2>1 DEF WriteWord, ReadWord, LibraryCall
<1>3. UART_BAUDE_DIVIDER_ADDR \in Word /\ UART_TRANSMIT_BYTE_ADDR \in Word
  BY DEF UART_BAUDE_DIVIDER_ADDR, UART_TRANSMIT_BYTE_ADDR, Word
<1>4. <<Op("halt"), WriteWord(UART_BAUDE_DIVIDER_ADDR, BaudWord)>> \in Seq(LibraryCall)
  <2>1. Op("halt") \in LibraryCall
        /\ WriteWord(UART_BAUDE_DIVIDER_ADDR, BaudWord) \in LibraryCall
    BY <1>1, <1>2, <1>3, HostAssumption
  <2> QED BY <2>1
<1>5. ASSUME NEW text \in Seq(Word) PROVE UartPrint(text) \in Seq(LibraryCall)
  <2>1. \A n \in 1..Len(text) : WriteWord(UART_TRANSMIT_BYTE_ADDR, text[n]) \in LibraryCall
    <3>1. \A n \in 1..Len(text) : text[n] \in Word
      OBVIOUS
    <3> QED BY <1>2, <1>3, <3>1
  <2>2. Len(text) \in Nat
    OBVIOUS
  <2> QED BY <2>1, <2>2 DEF UartPrint
<1>6. /\ [n \in 1..Len(Addresses) |-> WriteWord(Addresses[n], img[Addresses[n]])]
           \in Seq(LibraryCall)
      /\ [n \in 1..Len(Addresses) |-> ReadWord(Addresses[n])] \in Seq(LibraryCall)
  <2>1. Addresses \in Seq(Word) /\ \A n \in 1..Len(Addresses) : img[Addresses[n]] \in Word
    BY HostAssumption
  <2>2. Len(Addresses) \in Nat /\ \A n \in 1..Len(Addresses) : Addresses[n] \in Word
    BY <2>1
  <2>3. \A n \in 1..Len(Addresses) :
           /\ WriteWord(Addresses[n], img[Addresses[n]]) \in LibraryCall
           /\ ReadWord(Addresses[n]) \in LibraryCall
    BY <1>2, <2>1, <2>2
  <2> QED BY <2>2, <2>3
<1>7. <<Op("status"), Op("run"), Op("status")>> \in Seq(LibraryCall)
  <2>1. Op("status") \in LibraryCall /\ Op("run") \in LibraryCall
    BY <1>1
  <2> QED BY <2>1
<1>8. [n \in 1 .. 2 * Steps |-> Op(IF n % 2 = 1 THEN "step" ELSE "status")]
        \in Seq(LibraryCall)
  <2>1. \A n \in 1 .. 2 * Steps :
           Op(IF n % 2 = 1 THEN "step" ELSE "status") \in LibraryCall
    BY <1>1
  <2>2. 2 * Steps \in Nat
    BY HostAssumption
  <2> QED BY <2>1, <2>2
<1>9. <<Op("halt"), Op("status")>> \in Seq(LibraryCall)
  <2>1. Op("halt") \in LibraryCall /\ Op("status") \in LibraryCall
    BY <1>1
  <2> QED BY <2>1
<1> QED BY <1>4, <1>5, <1>6, <1>7, <1>8, <1>9

\* The calls of main by position.
LEMMA MainCalls ==
  ASSUME NEW img \in Images
  PROVE  /\ RunAt \in Nat /\ RunAt >= 4 /\ LastHalt \in Nat /\ Steps \in Nat
         /\ Len(Main(img)) = LastHalt + 1
         /\ Main(img)[1].op = "halt"
         /\ \A n \in 2 .. RunAt - 2 : Main(img)[n].op \in {"write", "read"}
         /\ Main(img)[RunAt - 1].op = "status" /\ Main(img)[RunAt].op = "run"
         /\ \A n \in RunAt + 1 .. LastHalt - 1 :
              Main(img)[n].op = IF (n - RunAt) % 2 = 0 THEN "step" ELSE "status"
         /\ Main(img)[LastHalt].op = "halt" /\ Main(img)[LastHalt + 1].op = "status"
<1> DEFINE a == <<Op("halt"), WriteWord(UART_BAUDE_DIVIDER_ADDR, BaudWord)>>
           b == UartPrint(Greeting)
           c == [n \in 1..Len(Addresses) |-> WriteWord(Addresses[n], img[Addresses[n]])]
           d == [n \in 1..Len(Addresses) |-> ReadWord(Addresses[n])]
           e == UartPrint(Farewell)
           f == <<Op("status"), Op("run"), Op("status")>>
           g == [n \in 1 .. 2 * Steps |-> Op(IF n % 2 = 1 THEN "step" ELSE "status")]
           h == <<Op("halt"), Op("status")>>
           S == LibraryCall
<1>1. /\ Addresses \in Seq(Word) /\ Greeting \in Seq(Word) /\ Farewell \in Seq(Word)
      /\ Steps \in Nat
  BY HostAssumption
<1>2. Len(Addresses) \in Nat /\ Len(Greeting) \in Nat /\ Len(Farewell) \in Nat
  BY <1>1
<1>3. /\ a \in Seq(S) /\ b \in Seq(S) /\ c \in Seq(S) /\ d \in Seq(S)
      /\ e \in Seq(S) /\ f \in Seq(S) /\ g \in Seq(S) /\ h \in Seq(S)
  BY <1>1, ScriptParts
<1>4. Main(img) = a \o b \o (c \o d) \o e \o f \o g \o h
  BY DEF Main, LoadImage
<1>5. /\ Len(a) = 2 /\ Len(b) = Len(Greeting) /\ Len(c) = Len(Addresses)
      /\ Len(d) = Len(Addresses) /\ Len(e) = Len(Farewell) /\ Len(f) = 3
      /\ Len(g) = 2 * Steps /\ Len(h) = 2
  BY <1>1, <1>2 DEF UartPrint
<1>6. /\ a[1].op = "halt" /\ a[2].op = "write"
      /\ \A n \in 1..Len(Greeting) : b[n].op = "write"
      /\ \A n \in 1..Len(Addresses) : c[n].op = "write" /\ d[n].op = "read"
      /\ \A n \in 1..Len(Farewell) : e[n].op = "write"
      /\ f[1].op = "status" /\ f[2].op = "run" /\ f[3].op = "status"
      /\ h[1].op = "halt" /\ h[2].op = "status"
  BY DEF Op, WriteWord, ReadWord, UartPrint
<1>7. \A n \in 1 .. 2 * Steps : g[n].op = IF n % 2 = 1 THEN "step" ELSE "status"
  BY DEF Op
<1> HIDE DEF a, b, c, d, e, f, g, h, S
<1> DEFINE G == Len(Greeting)
           A == Len(Addresses)
           F == Len(Farewell)
           ab == a \o b
           cd == c \o d
           abcd == ab \o cd
           p == abcd \o e
           q == p \o f
           r == q \o g
           B == 2 + G
           C == A + A
           P == B + C + F
<1> HIDE DEF G, A, F
<1>8. G \in Nat /\ A \in Nat /\ F \in Nat /\ B \in Nat /\ C \in Nat /\ B + C \in Nat /\ P \in Nat
  BY <1>2 DEF G, A, F
<1>9. /\ ab \in Seq(S) /\ Len(ab) = B
      /\ \A i \in 1..B : i <= 2 => ab[i] = a[i]
      /\ \A i \in 1..B : ~(i <= 2) => ab[i] = b[i - 2]
  <2>1. Len(a) = 2 /\ Len(b) = G
    BY <1>5 DEF G
  <2>2. /\ a \o b \in Seq(S) /\ Len(a \o b) = Len(a) + Len(b)
        /\ \A i \in 1 .. Len(a) + Len(b) :
             (a \o b)[i] = IF i <= Len(a) THEN a[i] ELSE b[i - Len(a)]
    BY <1>3, ConcatProperties, Zenon
  <2> QED BY <2>1, <2>2, Zenon
<1>10. /\ cd \in Seq(S) /\ Len(cd) = C
       /\ \A i \in 1..C : i <= A => cd[i] = c[i]
       /\ \A i \in 1..C : ~(i <= A) => cd[i] = d[i - A]
  <2>1. Len(c) = A /\ Len(d) = A
    BY <1>5 DEF A
  <2>2. /\ c \o d \in Seq(S) /\ Len(c \o d) = Len(c) + Len(d)
        /\ \A i \in 1 .. Len(c) + Len(d) :
             (c \o d)[i] = IF i <= Len(c) THEN c[i] ELSE d[i - Len(c)]
    BY <1>3, ConcatProperties, Zenon
  <2> QED BY <2>1, <2>2, Zenon
<1> HIDE DEF ab, cd, B, C
<1>11. /\ abcd \in Seq(S) /\ Len(abcd) = B + C
       /\ \A i \in 1 .. B + C : i <= B => abcd[i] = ab[i]
       /\ \A i \in 1 .. B + C : ~(i <= B) => abcd[i] = cd[i - B]
  <2>1. /\ ab \o cd \in Seq(S) /\ Len(ab \o cd) = Len(ab) + Len(cd)
        /\ \A i \in 1 .. Len(ab) + Len(cd) :
             (ab \o cd)[i] = IF i <= Len(ab) THEN ab[i] ELSE cd[i - Len(ab)]
    BY <1>3, <1>9, <1>10, ConcatProperties, Zenon
  <2> QED BY <1>9, <1>10, <2>1, Zenon
<1> HIDE DEF abcd
<1>12. /\ abcd[1].op = "halt"
       /\ \A i \in 2 .. B + C : abcd[i].op \in {"write", "read"}
  <2>1. ASSUME NEW i \in 1..B
        PROVE  /\ i <= 2 => abcd[i] = a[i]
               /\ ~(i <= 2) => abcd[i] = b[i - 2]
    <3>1. i \in 1 .. B + C /\ i <= B
      BY <1>8
    <3> QED BY <1>9, <1>11, <3>1, Zenon
  <2>2. 1 \in 1..B /\ 1 <= 2
    BY <1>8 DEF B
  <2>3. abcd[1].op = "halt"
    BY <1>6, <2>1, <2>2, Zenon
  <2>4. ASSUME NEW i \in 2 .. B + C PROVE abcd[i].op \in {"write", "read"}
    <3>1. CASE i <= 2
      <4>1. i = 2 /\ i \in 1..B
        BY <1>8, <3>1 DEF B
      <4> QED BY <1>6, <2>1, <3>1, <4>1
    <3>2. CASE i > 2 /\ i <= B
      <4>1. ~(i <= 2) /\ i \in 1..B /\ i - 2 \in 1..Len(Greeting)
        BY <1>8, <3>2 DEF B, G
      <4> QED BY <1>6, <2>1, <4>1
    <3>3. CASE i > B
      <4> DEFINE k == i - B
      <4>1. k \in 1..C /\ i \in 1 .. B + C /\ ~(i <= B)
        BY <1>8, <3>3
      <4>2. abcd[i] = cd[k]
        BY <1>11, <4>1, Zenon
      <4>3. k <= A \/ (~(k <= A) /\ k - A \in 1..A)
        BY <1>8, <4>1 DEF C
      <4>4. k <= A => k \in 1..A
        BY <1>8, <4>1
      <4> HIDE DEF k
      <4>5. CASE k <= A
        <5>1. cd[k] = c[k] /\ c[k].op = "write"
          BY <1>6, <1>10, <4>1, <4>4, <4>5, Zenon DEF A
        <5> QED BY <4>2, <5>1
      <4>6. CASE ~(k <= A)
        <5>1. cd[k] = d[k - A]
          BY <1>10, <4>1, <4>6, Zenon
        <5>2. k - A \in 1..Len(Addresses)
          BY <4>3, <4>6, Zenon DEF A
        <5>3. d[k - A].op = "read"
          BY <1>6, <5>2, Zenon
        <5> QED BY <4>2, <5>1, <5>3
      <4> QED BY <4>5, <4>6
    <3> QED BY <1>8, <3>1, <3>2, <3>3
  <2> QED BY <2>3, <2>4
<1>13. /\ p \in Seq(S) /\ Len(p) = P
       /\ \A i \in 1..P : i <= B + C => p[i] = abcd[i]
       /\ \A i \in 1..P : ~(i <= B + C) => p[i] = e[i - (B + C)]
  <2>1. Len(e) = F
    BY <1>5 DEF F
  <2>2. /\ abcd \o e \in Seq(S) /\ Len(abcd \o e) = Len(abcd) + Len(e)
        /\ \A i \in 1 .. Len(abcd) + Len(e) :
             (abcd \o e)[i] = IF i <= Len(abcd) THEN abcd[i] ELSE e[i - Len(abcd)]
    BY <1>3, <1>11, ConcatProperties, Zenon
  <2> QED BY <1>11, <2>1, <2>2, Zenon
<1> HIDE DEF p
<1>13a. p[1].op = "halt" /\ \A i \in 2..P : p[i].op \in {"write", "read"}
  <2>1. 1 \in 1..P /\ 1 <= B + C
    BY <1>8 DEF B
  <2>2. p[1].op = "halt"
    BY <1>12, <1>13, <2>1, Zenon
  <2>3. ASSUME NEW i \in 2..P PROVE p[i].op \in {"write", "read"}
    <3>0. i \in 1..P
      BY <1>8
    <3>1. CASE i <= B + C
      <4>1. i \in 2 .. B + C
        BY <1>8, <3>1
      <4> QED BY <1>12, <1>13, <3>0, <3>1, <4>1, Zenon
    <3>2. CASE ~(i <= B + C)
      <4>1. i - (B + C) \in 1..F
        BY <1>8, <3>2
      <4>2. p[i].op = "write"
        BY <1>6, <1>13, <3>0, <3>2, <4>1, Zenon DEF F
      <4> QED BY <4>2
    <3> QED BY <3>1, <3>2
  <2> QED BY <2>2, <2>3
<1>14. P \in Nat /\ P >= 2 /\ RunAt = P + 2
  BY <1>8 DEF B, C, G, A, F, RunAt
<1> HIDE DEF P
<1>15. /\ q \in Seq(S) /\ Len(q) = P + 3
       /\ \A i \in 1 .. P + 3 : i <= P => q[i] = p[i]
       /\ \A i \in 1 .. P + 3 : ~(i <= P) => q[i] = f[i - P]
  <2>1. /\ p \o f \in Seq(S) /\ Len(p \o f) = Len(p) + Len(f)
        /\ \A i \in 1 .. Len(p) + Len(f) :
             (p \o f)[i] = IF i <= Len(p) THEN p[i] ELSE f[i - Len(p)]
    BY <1>3, <1>13, ConcatProperties, Zenon
  <2> QED BY <1>5, <1>13, <2>1, Zenon
<1> HIDE DEF q
<1>16. /\ r \in Seq(S) /\ Len(r) = P + 3 + 2 * Steps
       /\ \A i \in 1 .. P + 3 + 2 * Steps : i <= P + 3 => r[i] = q[i]
       /\ \A i \in 1 .. P + 3 + 2 * Steps : ~(i <= P + 3) => r[i] = g[i - (P + 3)]
  <2>1. /\ q \o g \in Seq(S) /\ Len(q \o g) = Len(q) + Len(g)
        /\ \A i \in 1 .. Len(q) + Len(g) :
             (q \o g)[i] = IF i <= Len(q) THEN q[i] ELSE g[i - Len(q)]
    BY <1>3, <1>15, ConcatProperties, Zenon
  <2> QED BY <1>5, <1>15, <2>1, Zenon
<1> HIDE DEF r
<1> DEFINE R == P + 3 + 2 * Steps
<1>17. /\ Len(Main(img)) = R + 2
       /\ \A i \in 1 .. R + 2 : i <= R => Main(img)[i] = r[i]
       /\ \A i \in 1 .. R + 2 : ~(i <= R) => Main(img)[i] = h[i - R]
  <2>1. Main(img) = r \o h
    BY <1>4 DEF ab, cd, abcd, p, q, r
  <2>2. /\ r \o h \in Seq(S) /\ Len(r \o h) = Len(r) + Len(h)
        /\ \A i \in 1 .. Len(r) + Len(h) :
             (r \o h)[i] = IF i <= Len(r) THEN r[i] ELSE h[i - Len(r)]
    BY <1>3, <1>16, ConcatProperties, Zenon
  <2> QED BY <1>5, <1>16, <2>1, <2>2, Zenon
<1>18. RunAt = P + 2 /\ LastHalt = R + 1 /\ R \in Nat /\ R >= P + 3
  BY <1>1, <1>14 DEF LastHalt
<1> HIDE DEF R
<1>19. /\ \A i \in 1 .. P + 3 : i <= P => Main(img)[i] = p[i]
       /\ \A i \in 1 .. P + 3 : ~(i <= P) => Main(img)[i] = f[i - P]
  <2>1. \A i \in 1 .. P + 3 : i \in 1..R + 2 /\ i <= R
    BY <1>14, <1>18
  <2>2. \A i \in 1 .. P + 3 : i \in 1 .. P + 3 + 2 * Steps /\ i <= P + 3
    BY <1>1, <1>14
  <2>3. \A i \in 1 .. P + 3 : Main(img)[i] = r[i]
    BY <1>17, <2>1, Zenon
  <2>4. \A i \in 1 .. P + 3 : r[i] = q[i]
    BY <1>16, <2>2, Zenon
  <2> QED BY <1>15, <2>3, <2>4, Zenon
<1>20. \A i \in P + 4 .. R : Main(img)[i] = g[i - (P + 3)] /\ i - (P + 3) \in 1 .. 2 * Steps
  <2>1. \A i \in P + 4 .. R : i \in 1..R + 2 /\ i <= R /\ ~(i <= P + 3)
    BY <1>14, <1>18
  <2>2. \A i \in P + 4 .. R : i - (P + 3) \in 1 .. 2 * Steps
    BY <1>1, <1>14 DEF R
  <2>3. \A i \in P + 4 .. R : Main(img)[i] = r[i]
    BY <1>17, <2>1, Zenon
  <2>4. \A i \in P + 4 .. R : i \in 1 .. P + 3 + 2 * Steps /\ ~(i <= P + 3)
    BY <1>14, <2>1 DEF R
  <2>5. \A i \in P + 4 .. R : r[i] = g[i - (P + 3)]
    BY <1>16, <2>4, Zenon
  <2> QED BY <2>2, <2>3, <2>5, Zenon
<1>21. Main(img)[1].op = "halt"
  BY <1>13a, <1>14, <1>19
<1>22. \A n \in 2 .. RunAt - 2 : Main(img)[n].op \in {"write", "read"}
  BY <1>13a, <1>14, <1>18, <1>19
<1>23. /\ Main(img)[P + 1].op = "status" /\ Main(img)[P + 2].op = "run"
       /\ Main(img)[P + 3].op = "status"
  <2>1. /\ Main(img)[P + 1] = f[1] /\ Main(img)[P + 2] = f[2] /\ Main(img)[P + 3] = f[3]
    BY <1>14, <1>19
  <2> QED BY <1>6, <2>1
<1>24. ASSUME NEW n \in RunAt + 1 .. LastHalt - 1
       PROVE  Main(img)[n].op = IF (n - RunAt) % 2 = 0 THEN "step" ELSE "status"
  <2>1. CASE n = P + 3
    BY <1>14, <1>18, <1>23, <2>1
  <2>2. CASE n # P + 3
    <3>1. n \in P + 4 .. R
      BY <1>14, <1>18, <2>2
    <3> DEFINE k == n - (P + 3)
    <3>2. Main(img)[n] = g[k] /\ k \in 1 .. 2 * Steps
      BY <1>20, <3>1
    <3>3. (n - RunAt) % 2 = 0 <=> k % 2 = 1
      BY <1>14, <1>18, <3>1
    <3> HIDE DEF k
    <3> QED BY <1>7, <3>2, <3>3
  <2> QED BY <2>1, <2>2
<1>25. Main(img)[R + 1].op = "halt" /\ Main(img)[R + 2].op = "status"
  <2>1. Main(img)[R + 1] = h[1] /\ Main(img)[R + 2] = h[2]
    BY <1>17, <1>18
  <2> QED BY <1>6, <2>1
<1> QED BY <1>1, <1>14, <1>17, <1>18, <1>21, <1>22, <1>23, <1>24, <1>25

-----------------------------------------------------------------------------
(* One edge of the board. *)

\* Steps requested before position c.
StepsBefore(img, c) == Cardinality({n \in 1 .. c - 1 : Script[img][n].op = "step"})

\* The count of steps goes with the position.
LEMMA StepsCounted ==
  ASSUME NEW img, NEW c \in Nat \ {0}
  PROVE  /\ StepsBefore(img, c) \in Nat /\ StepsBefore(img, 1) = 0
         /\ StepsBefore(img, c + 1) =
              StepsBefore(img, c) + IF Script[img][c].op = "step" THEN 1 ELSE 0
<1> DEFINE T(k) == {n \in 1 .. k - 1 : Script[img][n].op = "step"}
<1>1. IsFiniteSet(1 .. c - 1)
  BY FS_Interval
<1>2. IsFiniteSet(T(c)) /\ Cardinality(T(c)) \in Nat
  BY <1>1, FS_Subset, FS_CardinalityType
<1>3. T(1) = {}
  OBVIOUS
<1> DEFINE N(k) == StepsBefore(img, k)
<1>3a. N(1) = 0 /\ N(c) = Cardinality(T(c)) /\ N(c + 1) = Cardinality(T(c + 1))
  BY <1>3, FS_EmptySet DEF StepsBefore
<1>4. CASE Script[img][c].op = "step"
  <2>1. T(c + 1) = T(c) \cup {c} /\ c \notin T(c)
    BY <1>4
  <2>2. Cardinality(T(c) \cup {c}) = Cardinality(T(c)) + 1
    BY <1>2, <2>1, FS_AddElement
  <2> HIDE DEF T
  <2> QED BY <1>2, <1>3a, <1>4, <2>1, <2>2
<1>5. CASE Script[img][c].op # "step"
  <2>1. T(c + 1) = T(c)
    BY <1>5
  <2> HIDE DEF T
  <2> QED BY <1>2, <1>3a, <1>5, <2>1
<1> QED BY <1>4, <1>5

\* The control register seen from the CPU, and what it counts.
BoardEdge ==
  /\ insn' \in Insn /\ Quiescent'
  /\ "CPU_RESET" \in control => state' = "RESET"
  /\ "CPU_RESET" \notin control =>
       /\ "HALT" \in control => state' = state
       /\ state \notin {"UPDATE_PC", "CPU_IDLE"} => state' # "CPU_IDLE"
       /\ state = "UPDATE_PC" /\ "SINGLESTEP" \in control
            => state' \in {"UPDATE_PC", "CPU_IDLE"}
       /\ state = "CPU_IDLE" /\ "HALT" \notin control =>
            state' = IF "DO_STEP" \in control THEN "PRE_FETCH" ELSE "CPU_IDLE"

LEMMA BoardMoves ==
  ASSUME insn \in Insn, Quiescent, SocTick(SocPins)
  PROVE  BoardEdge
<1> DEFINE x == SocCpuPins(SocPins)
<1>1. CpuTick(x)
  BY DEF SocTick
<1>2. /\ x.rst = ("CPU_RESET" \in control) /\ x.halt = ("HALT" \in control)
      /\ x.single = ("SINGLESTEP" \in control) /\ x.step = ("DO_STEP" \in control)
  BY DEF SocCpuPins, SocPins
<1> HIDE DEF x
<1>2a. x.rst \in BOOLEAN
  BY <1>2
<1>3. CpuMoves(x)
  BY <1>1, <1>2a, CpuStep
<1> QED BY <1>2, <1>3 DEF CpuMoves, BoardEdge

-----------------------------------------------------------------------------
(* The phases of a run of the driver. *)

\* The call at position c of the script.
Place(c, op) ==
  /\ c = 1 => op = "halt"
  /\ c \in 2 .. RunAt - 2 => op \in {"write", "read"}
  /\ c = RunAt - 1 => op = "status"
  /\ c = RunAt => op = "run"
  /\ c \in RunAt + 1 .. LastHalt - 1 =>
       op = IF (c - RunAt) % 2 = 0 THEN "step" ELSE "status"
  /\ c = LastHalt => op = "halt"
  /\ c = LastHalt + 1 => op = "status"

Positions == RunAt \in Nat /\ RunAt >= 4 /\ Steps \in Nat /\ LastHalt = RunAt + 2 + 2 * Steps

LEMMA Places ==
  ASSUME NEW img \in Images, NEW c
  PROVE  Positions /\ Place(c, Script[img][c].op) /\ Len(Script[img]) = LastHalt + 1
<1>1. Positions
  BY MainCalls DEF Positions, LastHalt
<1>2. Script[img] = Main(img)
  BY DEF Script
<1>3. Place(c, Main(img)[c].op) /\ Len(Main(img)) = LastHalt + 1
  BY <1>1, MainCalls DEF Place
<1> QED BY <1>1, <1>2, <1>3, Zenon

\* The count of steps keeps to the script.
LEMMA RequestedStep ==
  ASSUME HostInv, image' = image, call' \in {call, call + 1}, call' \in 1 .. LastHalt + 2
  PROVE  /\ Requested'
         /\ StepsRequested' = StepsRequested
              + IF call' = call + 1 /\ Current.op = "step" THEN 1 ELSE 0
<1> DEFINE op == Script[image][call].op
<1>1. Positions /\ Place(call, op) /\ image \in Images
  BY Places DEF HostInv
<1>2. call \in Nat \ {0} /\ call \in 1 .. LastHalt + 2
  BY <1>1 DEF HostInv, Positions
<1>3. StepsRequested = StepsBefore(image, call)
      /\ StepsRequested' = StepsBefore(image, call')
  BY DEF StepsRequested, StepsBefore
<1>4. StepsBefore(image, call + 1) = StepsBefore(image, call) + IF op = "step" THEN 1 ELSE 0
  BY <1>2, StepsCounted
<1>5. StepsRequested' = StepsRequested + IF call' = call + 1 /\ op = "step" THEN 1 ELSE 0
  <2>1. CASE call' = call
    <3>1. call + 1 # call
      BY <1>2
    <3>2. StepsRequested \in Nat
      BY DEF HostInv, Requested
    <3> QED BY <1>3, <2>1, <3>1, <3>2
  <2>2. CASE call' = call + 1
    BY <1>3, <1>4, <2>2
  <2> QED BY <2>1, <2>2
<1>6. Requested
  BY DEF HostInv
<1> DEFINE N == StepsRequested
           M == StepsRequested'
<1>7. /\ N \in Nat
      /\ call <= RunAt + 1 => N = 0
      /\ call \in RunAt + 1 .. LastHalt => call - RunAt - 1 - 2 * N \in {0, 1}
      /\ call > LastHalt => N = Steps
  BY <1>6 DEF Requested
<1>8. M = N + IF call' = call + 1 /\ op = "step" THEN 1 ELSE 0
  BY <1>5
<1> HIDE DEF N, M, op
<1>9. /\ M \in Nat
      /\ call' <= RunAt + 1 => M = 0
      /\ call' \in RunAt + 1 .. LastHalt => call' - RunAt - 1 - 2 * M \in {0, 1}
      /\ call' > LastHalt => M = Steps
  <2>1. CASE call' = call
    BY <1>2, <1>7, <1>8, <2>1
  <2>2. CASE call' = call + 1 /\ call <= RunAt
    <3>1. op # "step"
      BY <1>1, <1>2, <2>2 DEF Place, Positions
    <3> QED BY <1>1, <1>2, <1>7, <1>8, <2>2, <3>1 DEF Positions
  <2>3. CASE call' = call + 1 /\ call \in RunAt + 1 .. LastHalt - 1
    <3>1. op = "step" <=> (call - RunAt) % 2 = 0
      BY <1>1, <2>3 DEF Place
    <3>2. op = "step" <=> call - RunAt - 1 - 2 * N = 1
      BY <1>1, <1>2, <1>7, <2>3, <3>1 DEF Positions
    <3> QED BY <1>1, <1>2, <1>7, <1>8, <2>3, <3>2 DEF Positions
  <2>4. CASE call' = call + 1 /\ call >= LastHalt
    <3>1. op # "step"
      BY <1>1, <1>2, <2>4 DEF Place, Positions
    <3> QED BY <1>1, <1>2, <1>7, <1>8, <2>4, <3>1 DEF Positions
  <2> QED BY <1>1, <1>2, <2>1, <2>2, <2>3, <2>4 DEF Positions
<1> QED BY <1>5, <1>9 DEF Requested, M, op, Current

\* From halt_soc to run_soc.
LEMMA UploadingStep ==
  ASSUME HostInv, BoardEdge, CountRetired, image' = image,
         call \in 2 .. RunAt - 1 \/ (call = RunAt /\ point = "begin"),
         call' \in {call, call + 1}, call' \in 2..RunAt, call' = RunAt => point' = "begin",
         "HALT" \in control', "DO_STEP" \notin control',
         "HALT" \in shadow', "DO_STEP" \notin shadow'
  PROVE  HostInv'
<1>1. Positions /\ call \in Nat
  BY Places DEF HostInv, Positions
<1>2. call' \in 1 .. LastHalt + 2 /\ call' # 1 /\ call' < RunAt + 1 /\ ~(call' > LastHalt)
      /\ call' \notin RunAt + 1 .. LastHalt
  BY <1>1 DEF Positions
<1>3. Requested'
  BY <1>2, RequestedStep
<1>4. state = "RESET" /\ retired = 0 /\ "HALT" \in control
  BY DEF HostInv, Uploading
<1>5. state' = "RESET"
  BY <1>4 DEF BoardEdge
<1>6. retired' = 0
  BY <1>4, <1>5 DEF CountRetired
<1>7. Uploading'
  BY <1>5, <1>6 DEF Uploading
<1>8. Started' /\ Restarting' /\ Stepping' /\ Halted'
  BY <1>2 DEF Started, Restarting, Stepping, Halted
<1> QED BY <1>2, <1>3, <1>7, <1>8 DEF HostInv, BoardEdge

\* While the CPU is in reset before the first call, or between the two
\* accesses of run_soc.
LEMMA ResetStep ==
  ASSUME HostInv, BoardEdge, CountRetired, "CPU_RESET" \in control
  PROVE  state' = "RESET" /\ retired' = retired
BY DEF BoardEdge, CountRetired

\* From run_soc to the last halt_soc: an instruction ends, a step is asked
\* for, or neither.
LEMMA SteppingStep ==
  ASSUME HostInv, BoardEdge, CountRetired, image' = image,
         call \in RunAt + 1 .. LastHalt, call' \in {call, call + 1}, call' <= LastHalt,
         {"HALT", "CPU_RESET"} \cap (control' \cup shadow') = {},
         "SINGLESTEP" \in control', "SINGLESTEP" \in shadow',
         \/ /\ "DO_STEP" \notin control'
            /\ call' = call + 1 => Current.op # "step" /\ point' = "begin"
            /\ Current.op = "step" /\ point' = "go" => state = "CPU_IDLE"
         \/ /\ "DO_STEP" \in control' /\ point' = "begin"
            /\ call' = call + 1 /\ Current.op = "step" /\ state = "CPU_IDLE"
  PROVE  HostInv'
<1>1. Positions /\ call \in Nat /\ Place(call, Current.op) /\ Place(call', Current'.op)
  <2>1. image \in Images /\ call \in 1 .. LastHalt + 2
    BY DEF HostInv
  <2>2. Place(call', Script[image][call'].op)
    BY <2>1, Places
  <2> QED BY <2>1, <2>2, Places DEF Current, Positions
<1>2. call' \in RunAt + 1 .. LastHalt /\ call' \in 1 .. LastHalt + 2
  BY <1>1 DEF Positions
<1>3. Requested' /\ StepsRequested' = StepsRequested
                      + IF call' = call + 1 /\ Current.op = "step" THEN 1 ELSE 0
  BY <1>2, RequestedStep
<1>4. StepsRequested \in Nat /\ StepsRequested <= Steps
  BY <1>1 DEF HostInv, Requested, Positions
<1>5. /\ "HALT" \notin control /\ "CPU_RESET" \notin control /\ "SINGLESTEP" \in control
      /\ "DO_STEP" \in control => state = "CPU_IDLE" /\ Current.op = "status" /\ point = "begin"
      /\ retired = StepsRequested
                     + IF state = "CPU_IDLE" /\ "DO_STEP" \notin control THEN 1 ELSE 0
  BY DEF HostInv, Stepping
<1>6. /\ state \notin {"UPDATE_PC", "CPU_IDLE"} => state' # "CPU_IDLE"
      /\ state = "UPDATE_PC" => state' \in {"UPDATE_PC", "CPU_IDLE"}
      /\ state = "CPU_IDLE" =>
           state' = IF "DO_STEP" \in control THEN "PRE_FETCH" ELSE "CPU_IDLE"
  BY <1>5 DEF BoardEdge
<1>7. retired' = IF state = "UPDATE_PC" /\ state' \notin {"UPDATE_PC", "RESET"}
                 THEN retired + 1 ELSE retired
  <2>1. state = "UPDATE_PC" => retired < Steps + 2
    BY <1>1, <1>4, <1>5 DEF Positions
  <2> QED BY <2>1 DEF CountRetired
<1>8. Stepping'
  <2>1. CASE /\ "DO_STEP" \notin control'
             /\ call' = call + 1 => Current.op # "step" /\ point' = "begin"
             /\ Current.op = "step" /\ point' = "go" => state = "CPU_IDLE"
    <3>1. StepsRequested' = StepsRequested
      BY <1>3, <1>4, <2>1
    <3>2. retired' = StepsRequested' + IF state' = "CPU_IDLE" THEN 1 ELSE 0
      BY <1>4, <1>5, <1>6, <1>7, <3>1
    <3>3. ASSUME Current'.op = "step", point' = "go" PROVE state' = "CPU_IDLE"
      <4>1. call' = call
        BY <2>1, <3>3
      <4>2. Current'.op = Current.op
        BY <4>1 DEF Current
      <4>3. state = "CPU_IDLE" /\ Current.op = "step"
        BY <2>1, <3>3, <4>2
      <4> QED BY <1>5, <1>6, <4>3
    <3> QED BY <2>1, <3>2, <3>3 DEF Stepping
  <2>2. CASE /\ "DO_STEP" \in control' /\ point' = "begin"
             /\ call' = call + 1 /\ Current.op = "step" /\ state = "CPU_IDLE"
    <3>1. StepsRequested' = StepsRequested + 1
      BY <1>3, <2>2
    <3>2. state' = "CPU_IDLE"
      BY <1>5, <1>6, <2>2
    <3>3. retired' = StepsRequested'
      BY <1>4, <1>5, <1>7, <2>2, <3>1
    <3>4. Current'.op = "status"
      <4>1. call < LastHalt /\ (call - RunAt) % 2 = 0
        BY <1>1, <1>2, <2>2 DEF Place, Positions
      <4>2. call' # LastHalt
        BY <1>1, <2>2, <4>1 DEF Positions
      <4>3. call' \in RunAt + 1 .. LastHalt - 1 /\ ~((call' - RunAt) % 2 = 0)
        BY <1>1, <1>2, <2>2, <4>1, <4>2 DEF Positions
      <4> QED BY <1>1, <4>3 DEF Place
    <3>5. StepsRequested' \in Nat
      BY <1>3 DEF Requested
    <3>6. retired' = StepsRequested'
                       + IF state' = "CPU_IDLE" /\ "DO_STEP" \notin control' THEN 1 ELSE 0
      <4>1. ~(state' = "CPU_IDLE" /\ "DO_STEP" \notin control')
        BY <2>2
      <4>2. \A m \in Nat : m + 0 = m
        BY SMT
      <4> QED BY <3>3, <3>5, <4>1, <4>2, Zenon
    <3>7. ~(Current'.op = "step" /\ point' = "go")
      BY <2>2
    <3>8. point' = "begin"
      BY <2>2
    <3> QED BY <3>2, <3>4, <3>6, <3>7, <3>8 DEF Stepping
  <2> QED BY <2>1, <2>2
<1>9. call' # 1 /\ call' \notin 2 .. RunAt - 1 /\ call' # RunAt /\ ~(call' > LastHalt)
  BY <1>1, <1>2 DEF Positions
<1>10. Started' /\ Uploading' /\ Restarting' /\ Halted'
  BY <1>9 DEF Started, Uploading, Restarting, Halted
<1> QED BY <1>2, <1>3, <1>8, <1>10 DEF HostInv, BoardEdge

\* After the last halt_soc.
LEMMA HaltedStep ==
  ASSUME HostInv, BoardEdge, CountRetired, image' = image, call > LastHalt,
         call' \in {call, call + 1}, call' <= LastHalt + 2,
         "HALT" \in control', "CPU_RESET" \notin control'
  PROVE  HostInv'
<1>1. Positions /\ call \in Nat /\ Place(call, Current.op)
  <2>1. image \in Images /\ call \in 1 .. LastHalt + 2
    BY DEF HostInv
  <2> QED BY <2>1, Places DEF Current, Positions
<1>2. /\ call' \in 1 .. LastHalt + 2 /\ call' > LastHalt /\ call' # 1 /\ call' # RunAt
      /\ call' \notin 2 .. RunAt - 1 /\ call' \notin RunAt + 1 .. LastHalt
  BY <1>1 DEF Positions
<1>3. Requested'
  BY <1>2, RequestedStep
<1>4. StepsRequested' = Steps /\ StepsRequested = Steps
  BY <1>2, <1>3 DEF Requested, HostInv
<1>5. state' = state
  BY DEF HostInv, Halted, BoardEdge
<1>6. retired' = retired
  BY <1>5 DEF CountRetired
<1>7. Halted'
  BY <1>4, <1>5, <1>6 DEF HostInv, Halted
<1>8. Started' /\ Uploading' /\ Restarting' /\ Stepping'
  BY <1>2 DEF Started, Uploading, Restarting, Stepping
<1> QED BY <1>2, <1>3, <1>7, <1>8 DEF HostInv, BoardEdge

-----------------------------------------------------------------------------
(* The accesses of the library. *)

\* The control register after an access to another register, and after a
\* write of it.
LEMMA ControlKept ==
  ASSUME NEW write, write.reg # "CONTROL", FpgaTick(write)
  PROVE  /\ \A bit \in {"HALT", "CPU_RESET", "SINGLESTEP"} :
              bit \in control' <=> bit \in control
         /\ "DO_STEP" \notin control'
BY DEF FpgaTick, SelfClearing

LEMMA ControlWritten ==
  ASSUME NEW value, FpgaTick([reg |-> "CONTROL", value |-> value])
  PROVE  /\ \A bit \in {"HALT", "CPU_RESET", "SINGLESTEP"} : bit \in control' <=> bit \in value
         /\ "DO_STEP" \in control' <=> "DO_STEP" \in value /\ "DO_STEP" \notin control
BY DEF FpgaTick, SelfClearing, ControlBit

\* Every step of the board but a new start.
Accessing == BoardEdge /\ CountRetired /\ image' = image

LEMMA AccessEdge ==
  ASSUME HostInv, NEW write, NEW next, HostAccess(write, next)
  PROVE  Accessing /\ FpgaTick(write) /\ point' = next
<1>1. FpgaTick(write) /\ CountRetired /\ image' = image /\ point' = next
  BY DEF HostAccess
<1>2. SocTick(SocPins)
  BY <1>1 DEF FpgaTick
<1>3. BoardEdge
  BY <1>2, BoardMoves DEF HostInv
<1> QED BY <1>1, <1>3 DEF Accessing

\* A read access, or a write to another register than the control register.
OtherAccess(next) ==
  /\ point' = next
  /\ \A bit \in {"HALT", "CPU_RESET", "SINGLESTEP"} : bit \in control' <=> bit \in control
  /\ "DO_STEP" \notin control'

LEMMA ReadEdge ==
  ASSUME HostInv, NEW next, ReadReg(next)
  PROVE  Accessing /\ OtherAccess(next)
<1>1. Accessing /\ FpgaTick(NoWrite) /\ point' = next
  BY AccessEdge DEF ReadReg
<1>2. NoWrite.reg # "CONTROL"
  BY DEF NoWrite
<1> QED BY <1>1, <1>2, ControlKept DEF OtherAccess

LEMMA WriteEdge ==
  ASSUME HostInv, NEW reg, NEW value, NEW next, reg # "CONTROL", WriteReg(reg, value, next)
  PROVE  Accessing /\ OtherAccess(next)
<1> DEFINE w == [reg |-> reg, value |-> value]
<1>1. Accessing /\ FpgaTick(w) /\ point' = next
  BY AccessEdge DEF WriteReg
<1>2. w.reg # "CONTROL"
  OBVIOUS
<1> HIDE DEF w
<1> QED BY <1>1, <1>2, ControlKept DEF OtherAccess

LEMMA ControlEdge ==
  ASSUME HostInv, NEW value, NEW next, UpdateControl(value, next)
  PROVE  /\ Accessing /\ point' = next /\ shadow' = value
         /\ \A bit \in {"HALT", "CPU_RESET", "SINGLESTEP"} : bit \in control' <=> bit \in value
         /\ "DO_STEP" \in control' <=> "DO_STEP" \in value /\ "DO_STEP" \notin control
<1>1. /\ Accessing /\ FpgaTick([reg |-> "CONTROL", value |-> value]) /\ point' = next
      /\ shadow' = value
  BY AccessEdge DEF UpdateControl, WriteReg
<1> QED BY <1>1, ControlWritten

\* Where a call of the library is in the script.
LEMMA CallPlace ==
  ASSUME HostInv, NEW op, NEW p, At(op, p)
  PROVE  /\ Positions /\ call \in 1 .. LastHalt + 1 /\ call \in Nat
         /\ Current.op = op /\ point = p /\ Place(call, op)
<1>1. image \in Images /\ call \in 1 .. LastHalt + 2
  BY DEF HostInv
<1>2. Positions /\ Place(call, Current.op) /\ Len(Script[image]) = LastHalt + 1
  BY <1>1, Places DEF Current
<1>3. ~(call > Len(Script[image])) /\ Current.op = op /\ point = p
  BY DEF At, Done
<1> QED BY <1>1, <1>2, <1>3 DEF Positions

\* Calls of write_word_ram and read_word_ram are part of the upload.
LEMMA TransferStep ==
  ASSUME HostInv, NEW op \in {"write", "read"}, NEW p, At(op, p), Accessing,
         call' = call \/ (call' = call + 1 /\ point' = "begin"),
         "HALT" \in control /\ "HALT" \in shadow => "HALT" \in control' /\ "HALT" \in shadow',
         "DO_STEP" \notin control /\ "DO_STEP" \notin shadow =>
           "DO_STEP" \notin control' /\ "DO_STEP" \notin shadow'
  PROVE  HostInv'
<1>1. Positions /\ call \in Nat /\ call \in 1 .. LastHalt + 1 /\ Place(call, op)
  BY CallPlace
<1>2. call \in 2 .. RunAt - 2
  BY <1>1 DEF Place, Positions
<1>3. /\ call \in 2 .. RunAt - 1 /\ call' \in {call, call + 1} /\ call' \in 2..RunAt
      /\ call' # RunAt
  BY <1>1, <1>2 DEF Positions
<1>4. /\ "HALT" \in control /\ "DO_STEP" \notin control
      /\ "HALT" \in shadow /\ "DO_STEP" \notin shadow
  BY <1>3 DEF HostInv, Uploading
<1> QED BY <1>3, <1>4, UploadingStep DEF Accessing

\* The transfer of a word, one step per access.
LEMMA TransferActions ==
  ASSUME HostInv,
         \/ SetAddressLow \/ SetAddressHigh \/ SetDataLow \/ SetDataHigh
         \/ StartTransaction \/ Poll \/ SetClean \/ ClearClean \/ GetDataLow \/ GetDataHigh
  PROVE  HostInv'
<1>1. CASE SetAddressLow
  <2>1. PICK op \in {"write", "read"} : At(op, "begin")
    BY <1>1 DEF SetAddressLow
  <2>2. Accessing /\ OtherAccess("addrHigh")
    BY <1>1, WriteEdge DEF SetAddressLow
  <2>3. shadow' = shadow /\ (call' = call \/ (call' = call + 1 /\ point' = "begin"))
    BY <1>1, <2>2 DEF SetAddressLow, Stay, Return, OtherAccess
  <2> QED BY <2>1, <2>2, <2>3, TransferStep DEF OtherAccess
<1>2. CASE SetAddressHigh
  <2>1. PICK op \in {"write", "read"} : At(op, "addrHigh")
    BY <1>2 DEF SetAddressHigh
  <2>2. Accessing /\ OtherAccess(IF Current.op = "write" THEN "dataLow" ELSE "start")
    BY <1>2, WriteEdge DEF SetAddressHigh
  <2>3. shadow' = shadow /\ (call' = call \/ (call' = call + 1 /\ point' = "begin"))
    BY <1>2, <2>2 DEF SetAddressHigh, Stay, Return, OtherAccess
  <2> QED BY <2>1, <2>2, <2>3, TransferStep DEF OtherAccess
<1>3. CASE SetDataLow
  <2>1. At("write", "dataLow")
    BY <1>3 DEF SetDataLow
  <2>2. Accessing /\ OtherAccess("dataHigh")
    BY <1>3, WriteEdge DEF SetDataLow
  <2>3. shadow' = shadow /\ (call' = call \/ (call' = call + 1 /\ point' = "begin"))
    BY <1>3, <2>2 DEF SetDataLow, Stay, Return, OtherAccess
  <2> QED BY <2>1, <2>2, <2>3, TransferStep DEF OtherAccess
<1>4. CASE SetDataHigh
  <2>1. At("write", "dataHigh")
    BY <1>4 DEF SetDataHigh
  <2>2. Accessing /\ OtherAccess("start")
    BY <1>4, WriteEdge DEF SetDataHigh
  <2>3. shadow' = shadow /\ (call' = call \/ (call' = call + 1 /\ point' = "begin"))
    BY <1>4, <2>2 DEF SetDataHigh, Stay, Return, OtherAccess
  <2> QED BY <2>1, <2>2, <2>3, TransferStep DEF OtherAccess
<1>5. CASE StartTransaction
  <2> DEFINE v == shadow \cup {"START"} \cup {b \in {"WE"} : Current.op = "write"}
  <2>1. PICK op \in {"write", "read"} : At(op, "start")
    BY <1>5 DEF StartTransaction
  <2>2. UpdateControl(v, "poll")
    BY <1>5 DEF StartTransaction
  <2>3. ("HALT" \in v <=> "HALT" \in shadow) /\ ("DO_STEP" \in v <=> "DO_STEP" \in shadow)
    OBVIOUS
  <2> HIDE DEF v
  <2>4. /\ Accessing /\ point' = "poll" /\ shadow' = v
        /\ "HALT" \in v => "HALT" \in control'
        /\ "DO_STEP" \in control' => "DO_STEP" \in v
    BY <2>2, ControlEdge
  <2>5. call' = call \/ (call' = call + 1 /\ point' = "begin")
    BY <1>5, <2>4 DEF StartTransaction, Stay, Return
  <2> QED BY <2>1, <2>3, <2>4, <2>5, TransferStep
<1>6. CASE Poll
  <2>1. PICK op \in {"write", "read"} : At(op, "poll")
    BY <1>6 DEF Poll
  <2>2. PICK next \in {"clean", "poll", "begin"} :
          ReadReg(next) /\ (call' = call \/ (call' = call + 1 /\ next = "begin"))
    BY <1>6 DEF Poll, Stay, Return
  <2>3. Accessing /\ OtherAccess(next)
    BY <2>2, ReadEdge
  <2>4. /\ "HALT" \in shadow' <=> "HALT" \in control
        /\ "DO_STEP" \in shadow' <=> "DO_STEP" \in control
    BY <1>6 DEF Poll, ControlOut
  <2> QED BY <2>1, <2>2, <2>3, <2>4, TransferStep DEF OtherAccess
<1>7. CASE SetClean
  <2> DEFINE v == (shadow \ {"WE"}) \cup {"CLEAN"}
  <2>1. PICK op \in {"write", "read"} : At(op, "clean")
    BY <1>7 DEF SetClean
  <2>2. UpdateControl(v, "cleaned")
    BY <1>7 DEF SetClean
  <2>3. ("HALT" \in v <=> "HALT" \in shadow) /\ ("DO_STEP" \in v <=> "DO_STEP" \in shadow)
    OBVIOUS
  <2> HIDE DEF v
  <2>4. /\ Accessing /\ point' = "cleaned" /\ shadow' = v
        /\ "HALT" \in v => "HALT" \in control'
        /\ "DO_STEP" \in control' => "DO_STEP" \in v
    BY <2>2, ControlEdge
  <2>5. call' = call \/ (call' = call + 1 /\ point' = "begin")
    BY <1>7, <2>4 DEF SetClean, Stay, Return
  <2> QED BY <2>1, <2>3, <2>4, <2>5, TransferStep
<1>8. CASE ClearClean
  <2> DEFINE next == IF Current.op = "write" THEN "begin" ELSE "outLow"
             v == shadow \ {"CLEAN"}
  <2>1. PICK op \in {"write", "read"} : At(op, "cleaned")
    BY <1>8 DEF ClearClean
  <2>2. UpdateControl(v, next)
    BY <1>8 DEF ClearClean
  <2>3. ("HALT" \in v <=> "HALT" \in shadow) /\ ("DO_STEP" \in v <=> "DO_STEP" \in shadow)
    OBVIOUS
  <2> HIDE DEF v, next
  <2>4. /\ Accessing /\ point' = next /\ shadow' = v
        /\ "HALT" \in v => "HALT" \in control'
        /\ "DO_STEP" \in control' => "DO_STEP" \in v
    BY <2>2, ControlEdge
  <2>5. call' = call \/ (call' = call + 1 /\ point' = "begin")
    BY <1>8, <2>4 DEF ClearClean, Stay, Return, next
  <2> QED BY <2>1, <2>3, <2>4, <2>5, TransferStep
<1>9. CASE GetDataLow
  <2>1. At("read", "outLow")
    BY <1>9 DEF GetDataLow
  <2>2. Accessing /\ OtherAccess("outHigh")
    BY <1>9, ReadEdge DEF GetDataLow
  <2>3. shadow' = shadow /\ (call' = call \/ (call' = call + 1 /\ point' = "begin"))
    BY <1>9, <2>2 DEF GetDataLow, Stay, Return, OtherAccess
  <2> QED BY <2>1, <2>2, <2>3, TransferStep DEF OtherAccess
<1>10. CASE GetDataHigh
  <2>1. At("read", "outHigh")
    BY <1>10 DEF GetDataHigh
  <2>2. Accessing /\ OtherAccess("begin")
    BY <1>10, ReadEdge DEF GetDataHigh
  <2>3. shadow' = shadow /\ (call' = call \/ (call' = call + 1 /\ point' = "begin"))
    BY <1>10, <2>2 DEF GetDataHigh, Stay, Return, OtherAccess
  <2> QED BY <2>1, <2>2, <2>3, TransferStep DEF OtherAccess
<1> QED BY <1>1, <1>2, <1>3, <1>4, <1>5, <1>6, <1>7, <1>8, <1>9, <1>10

LEMMA HaltSocStep ==
  ASSUME HostInv, HaltSoc
  PROVE  HostInv'
<1> DEFINE v == (shadow \ {"SOC_RESET"}) \cup {"HALT", "BUS_MASTER", "SIZE_LOW", "SIZE_HIGH"}
<1>1. /\ Positions /\ call \in 1 .. LastHalt + 1 /\ call \in Nat
      /\ Current.op = "halt" /\ Place(call, "halt")
  BY CallPlace DEF HaltSoc
<1>2. UpdateControl(v, "begin") /\ call' = call + 1
  BY DEF HaltSoc, Return
<1>3. /\ "HALT" \in v
      /\ "CPU_RESET" \in v <=> "CPU_RESET" \in shadow
      /\ "DO_STEP" \in v <=> "DO_STEP" \in shadow
  OBVIOUS
<1> HIDE DEF v
<1>4. /\ Accessing /\ point' = "begin" /\ shadow' = v
      /\ "HALT" \in control'
      /\ "CPU_RESET" \in control' <=> "CPU_RESET" \in v
      /\ "DO_STEP" \in control' => "DO_STEP" \in v
  BY <1>2, <1>3, ControlEdge
<1>5. call = 1 \/ call = LastHalt
  BY <1>1 DEF Place, Positions
<1>6. call' \in {call, call + 1} /\ call' \in 1 .. LastHalt + 2
  BY <1>1, <1>2 DEF Positions
<1>7. /\ Requested' /\ StepsRequested' = StepsRequested
  <2>1. StepsRequested \in Nat
    BY DEF HostInv, Requested
  <2> QED BY <1>1, <1>4, <1>6, <2>1, RequestedStep DEF Accessing
<1>8. CASE call = 1
  <2>1. shadow = {} /\ "CPU_RESET" \in control /\ retired = 0
    BY <1>8 DEF HostInv, Started
  <2>2. state' = "RESET" /\ retired' = 0
    BY <1>4, <2>1, ResetStep DEF Accessing
  <2>3. "DO_STEP" \notin shadow' /\ "DO_STEP" \notin control' /\ "HALT" \in shadow'
    BY <1>3, <1>4, <2>1
  <2>4. call' = 2 /\ call' # 1 /\ call' # RunAt /\ call' \notin RunAt + 1 .. LastHalt
        /\ ~(call' > LastHalt)
    BY <1>1, <1>2, <1>8 DEF Positions
  <2>5. Uploading'
    BY <1>4, <2>2, <2>3 DEF Uploading
  <2>6. Started' /\ Restarting' /\ Stepping' /\ Halted'
    BY <2>4 DEF Started, Restarting, Stepping, Halted
  <2> QED BY <1>4, <1>6, <1>7, <2>5, <2>6 DEF HostInv, Accessing, BoardEdge
<1>9. CASE call = LastHalt
  <2>1. call \in RunAt + 1 .. LastHalt
    BY <1>1, <1>9 DEF Positions
  <2>2. /\ "HALT" \notin control /\ "CPU_RESET" \notin control /\ "SINGLESTEP" \in control
        /\ "CPU_RESET" \notin shadow
        /\ "DO_STEP" \notin control
        /\ retired = StepsRequested + IF state = "CPU_IDLE" THEN 1 ELSE 0
    BY <1>1, <2>1 DEF HostInv, Stepping
  <2>3. /\ state \notin {"UPDATE_PC", "CPU_IDLE"} => state' # "CPU_IDLE"
        /\ state = "UPDATE_PC" => state' \in {"UPDATE_PC", "CPU_IDLE"}
        /\ state = "CPU_IDLE" => state' = "CPU_IDLE"
    BY <1>4, <2>2 DEF Accessing, BoardEdge
  <2>4. StepsRequested \in Nat /\ StepsRequested <= Steps
    BY <1>1, <2>1 DEF HostInv, Requested, Positions
  <2>5. retired' = IF state = "UPDATE_PC" /\ state' \notin {"UPDATE_PC", "RESET"}
                   THEN retired + 1 ELSE retired
    <3>1. state = "UPDATE_PC" => retired < Steps + 2
      BY <1>1, <2>2, <2>4 DEF Positions
    <3> QED BY <1>4, <3>1 DEF Accessing, CountRetired
  <2>6. retired' = StepsRequested' + IF state' = "CPU_IDLE" THEN 1 ELSE 0
    BY <1>7, <2>2, <2>3, <2>4, <2>5
  <2>7. Halted'
    BY <1>3, <1>4, <2>2, <2>6 DEF Halted
  <2>8. /\ call' # 1 /\ call' # RunAt /\ call' \notin 2 .. RunAt - 1
        /\ call' \notin RunAt + 1 .. LastHalt
    BY <1>1, <1>2, <1>9 DEF Positions
  <2>9. Started' /\ Uploading' /\ Restarting' /\ Stepping'
    BY <2>8 DEF Started, Uploading, Restarting, Stepping
  <2> QED BY <1>4, <1>6, <1>7, <2>7, <2>9 DEF HostInv, Accessing, BoardEdge
<1> QED BY <1>5, <1>8, <1>9

LEMMA RunSocStep ==
  ASSUME HostInv, RunSocReset \/ RunSocGo
  PROVE  HostInv'
<1>1. CASE RunSocReset
  <2> DEFINE v == (shadow \ {"HALT", "BUS_MASTER"}) \cup {"CPU_RESET"}
  <2>1. /\ Positions /\ call \in 1 .. LastHalt + 1 /\ call \in Nat
        /\ Current.op = "run" /\ point = "begin" /\ Place(call, "run")
    BY <1>1, CallPlace DEF RunSocReset
  <2>2. UpdateControl(v, "go") /\ call' = call
    BY <1>1 DEF RunSocReset, Stay
  <2>3. "HALT" \notin v /\ "CPU_RESET" \in v /\ ("DO_STEP" \in v <=> "DO_STEP" \in shadow)
    OBVIOUS
  <2> HIDE DEF v
  <2>4. Accessing /\ point' = "go" /\ shadow' = v /\ "CPU_RESET" \in control'
    BY <2>2, <2>3, ControlEdge
  <2>5. call = RunAt
    BY <2>1 DEF Place, Positions
  <2>6. /\ state = "RESET" /\ retired = 0 /\ "HALT" \in control /\ "DO_STEP" \notin shadow
    BY <2>1, <2>5 DEF HostInv, Uploading
  <2>7. state' = "RESET"
    BY <2>4, <2>6 DEF Accessing, BoardEdge
  <2>8. retired' = 0
    BY <2>4, <2>6, <2>7 DEF Accessing, CountRetired
  <2>9. Restarting'
    BY <2>3, <2>4, <2>6, <2>7, <2>8 DEF Restarting
  <2>10. call' # 1 /\ call' \notin 2 .. RunAt - 1 /\ point' # "begin" /\ ~(call' > LastHalt)
         /\ call' \notin RunAt + 1 .. LastHalt
    BY <2>1, <2>2, <2>4, <2>5 DEF Positions
  <2>11. Started' /\ Uploading' /\ Stepping' /\ Halted'
    BY <2>10 DEF Started, Uploading, Stepping, Halted
  <2>12. call' \in {call, call + 1} /\ call' \in 1 .. LastHalt + 2
    BY <2>1, <2>2 DEF Positions
  <2>13. Requested'
    BY <2>4, <2>12, RequestedStep DEF Accessing
  <2> QED BY <2>4, <2>9, <2>11, <2>12, <2>13 DEF HostInv, Accessing, BoardEdge
<1>2. CASE RunSocGo
  <2> DEFINE v == (shadow \ {"CPU_RESET", "SOC_RESET"}) \cup {"SINGLESTEP"}
  <2>1. /\ Positions /\ call \in 1 .. LastHalt + 1 /\ call \in Nat
        /\ Current.op = "run" /\ point = "go" /\ Place(call, "run")
    BY <1>2, CallPlace DEF RunSocGo
  <2>2. UpdateControl(v, "begin") /\ call' = call + 1
    BY <1>2 DEF RunSocGo, Return
  <2>3. /\ "CPU_RESET" \notin v /\ "SINGLESTEP" \in v
        /\ "HALT" \in v <=> "HALT" \in shadow
        /\ "DO_STEP" \in v <=> "DO_STEP" \in shadow
    OBVIOUS
  <2> HIDE DEF v
  <2>4. /\ Accessing /\ point' = "begin" /\ shadow' = v
        /\ "CPU_RESET" \notin control' /\ "SINGLESTEP" \in control'
        /\ "HALT" \in control' <=> "HALT" \in v
        /\ "DO_STEP" \in control' => "DO_STEP" \in v
    BY <2>2, <2>3, ControlEdge
  <2>5. call = RunAt
    BY <2>1 DEF Place, Positions
  <2>6. /\ state = "RESET" /\ retired = 0 /\ "CPU_RESET" \in control
        /\ "HALT" \notin shadow /\ "DO_STEP" \notin shadow
    BY <2>1, <2>5 DEF HostInv, Restarting
  <2>7. state' = "RESET" /\ retired' = 0
    BY <2>4, <2>6, ResetStep DEF Accessing
  <2>8. call' \in {call, call + 1} /\ call' \in 1 .. LastHalt + 2 /\ call' = RunAt + 1
    BY <2>1, <2>2, <2>5 DEF Positions
  <2>9. Requested'
    BY <2>4, <2>8, RequestedStep DEF Accessing
  <2>10. StepsRequested' = 0
    BY <2>1, <2>8, <2>9 DEF Requested, Positions
  <2>11. {"HALT", "CPU_RESET"} \cap (control' \cup shadow') = {}
         /\ "SINGLESTEP" \in shadow' /\ "DO_STEP" \notin control'
    BY <2>3, <2>4, <2>6
  <2>12. Stepping'
    BY <2>4, <2>7, <2>10, <2>11 DEF Stepping
  <2>13. call' # 1 /\ call' \notin 2 .. RunAt - 1 /\ call' # RunAt /\ ~(call' > LastHalt)
    BY <2>1, <2>8 DEF Positions
  <2>14. Started' /\ Uploading' /\ Restarting' /\ Halted'
    BY <2>13 DEF Started, Uploading, Restarting, Halted
  <2> QED BY <2>4, <2>8, <2>9, <2>12, <2>14 DEF HostInv, Accessing, BoardEdge
<1> QED BY <1>1, <1>2

\* The reads of get_cpu_status, wherever main has them, change nothing.
LEMMA GetCpuStatusStep ==
  ASSUME HostInv, GetCpuStatus
  PROVE  HostInv'
<1>1. PICK n \in 1..5 :
        /\ At("status", StatusPoints[n])
        /\ ReadReg(IF n < 5 THEN StatusPoints[n + 1] ELSE "begin")
        /\ IF n < 5 THEN Stay ELSE Return
  BY DEF GetCpuStatus
<1>2. /\ Positions /\ call \in 1 .. LastHalt + 1 /\ call \in Nat
      /\ Current.op = "status" /\ Place(call, "status")
  BY <1>1, CallPlace
<1>3. Accessing /\ OtherAccess(IF n < 5 THEN StatusPoints[n + 1] ELSE "begin")
  BY <1>1, ReadEdge
<1>4. shadow' = shadow /\ (call' = call \/ (call' = call + 1 /\ point' = "begin"))
  BY <1>1, <1>3 DEF GetCpuStatus, Stay, Return, OtherAccess
<1>5. /\ \A bit \in {"HALT", "CPU_RESET", "SINGLESTEP"} : bit \in control' <=> bit \in control
      /\ "DO_STEP" \notin control'
  BY <1>3 DEF OtherAccess
<1>6. call = RunAt - 1 \/ call \in RunAt + 1 .. LastHalt - 1 \/ call = LastHalt + 1
  BY <1>2 DEF Place, Positions
<1>7. CASE call = RunAt - 1
  <2>1. /\ call \in 2 .. RunAt - 1 /\ call' \in {call, call + 1} /\ call' \in 2..RunAt
        /\ call' = RunAt => point' = "begin"
    BY <1>2, <1>4, <1>7 DEF Positions
  <2>2. "HALT" \in control /\ "HALT" \in shadow /\ "DO_STEP" \notin shadow
    BY <2>1 DEF HostInv, Uploading
  <2> QED BY <1>3, <1>4, <1>5, <2>1, <2>2, UploadingStep DEF Accessing
<1>8. CASE call \in RunAt + 1 .. LastHalt - 1
  <2>1. call \in RunAt + 1 .. LastHalt /\ call' \in {call, call + 1} /\ call' <= LastHalt
    BY <1>2, <1>4, <1>8 DEF Positions
  <2>2. /\ {"HALT", "CPU_RESET"} \cap (control' \cup shadow') = {}
        /\ "SINGLESTEP" \in control' /\ "SINGLESTEP" \in shadow'
    BY <1>4, <1>5, <2>1 DEF HostInv, Stepping
  <2>3. call' = call + 1 => point' = "begin"
    BY <1>2, <1>4
  <2> QED BY <1>2, <1>3, <1>5, <2>1, <2>2, <2>3, SteppingStep DEF Accessing
<1>9. CASE call = LastHalt + 1
  <2>1. call > LastHalt /\ call' \in {call, call + 1} /\ call' <= LastHalt + 2
    BY <1>2, <1>4, <1>9 DEF Positions
  <2>2. "HALT" \in control' /\ "CPU_RESET" \notin control'
    BY <1>5, <2>1 DEF HostInv, Halted
  <2> QED BY <1>3, <2>1, <2>2, HaltedStep DEF Accessing
<1> QED BY <1>6, <1>7, <1>8, <1>9

\* do_step.
LEMMA DoStepStep ==
  ASSUME HostInv, StepCheck \/ StepIdle \/ StepGo
  PROVE  HostInv'
<1>1. PICK p : At("step", p)
  BY DEF StepCheck, StepIdle, StepGo
<1>2. /\ Positions /\ call \in 1 .. LastHalt + 1 /\ call \in Nat
      /\ Current.op = "step" /\ Place(call, "step")
  BY <1>1, CallPlace
<1>3. call \in RunAt + 1 .. LastHalt - 1
  BY <1>2 DEF Place, Positions
<1>4. /\ call \in RunAt + 1 .. LastHalt /\ call + 1 <= LastHalt /\ call <= LastHalt
      /\ call + 1 # call
  BY <1>2, <1>3 DEF Positions
<1>5. /\ "HALT" \notin control /\ "CPU_RESET" \notin control
      /\ "HALT" \notin shadow /\ "CPU_RESET" \notin shadow
      /\ "SINGLESTEP" \in control /\ "SINGLESTEP" \in shadow /\ "DO_STEP" \notin control
      /\ point = "go" => state = "CPU_IDLE"
  BY <1>2, <1>4 DEF HostInv, Stepping
<1>6. CASE StepCheck
  <2>1. Accessing /\ OtherAccess("idle")
    BY <1>6, ReadEdge DEF StepCheck
  <2>2. call' = call /\ shadow' = ControlOut
    BY <1>6 DEF StepCheck, Stay
  <2>3. "HALT" \notin shadow' /\ "CPU_RESET" \notin shadow' /\ "SINGLESTEP" \in shadow'
    BY <1>5, <2>2 DEF ControlOut
  <2>4. /\ "HALT" \notin control' /\ "CPU_RESET" \notin control' /\ "SINGLESTEP" \in control'
        /\ "DO_STEP" \notin control' /\ point' = "idle"
    BY <1>5, <2>1 DEF OtherAccess
  <2>5. {"HALT", "CPU_RESET"} \cap (control' \cup shadow') = {}
    BY <2>3, <2>4
  <2> QED BY <1>4, <2>1, <2>2, <2>3, <2>4, <2>5, SteppingStep DEF Accessing
<1>7. CASE StepIdle
  <2>1. ReadReg(IF state = "CPU_IDLE" THEN "go" ELSE "idle")
    BY <1>7 DEF StepIdle
  <2>2. Accessing /\ OtherAccess(IF state = "CPU_IDLE" THEN "go" ELSE "idle")
    BY <2>1, ReadEdge
  <2>3. call' = call /\ shadow' = shadow
    BY <1>7 DEF StepIdle, Stay
  <2>4. /\ "HALT" \notin control' /\ "CPU_RESET" \notin control' /\ "SINGLESTEP" \in control'
        /\ "DO_STEP" \notin control'
        /\ point' = "go" => state = "CPU_IDLE"
    BY <1>5, <2>2 DEF OtherAccess
  <2>5. {"HALT", "CPU_RESET"} \cap (control' \cup shadow') = {}
        /\ "SINGLESTEP" \in shadow'
    BY <1>5, <2>3, <2>4
  <2> QED BY <1>4, <2>2, <2>3, <2>4, <2>5, SteppingStep DEF Accessing
<1>8. CASE StepGo
  <2> DEFINE v == shadow \cup {"DO_STEP"}
  <2>1. UpdateControl(v, "begin") /\ call' = call + 1 /\ point = "go"
    BY <1>8 DEF StepGo, Return, At
  <2>2. /\ "HALT" \notin v /\ "CPU_RESET" \notin v /\ "SINGLESTEP" \in v /\ "DO_STEP" \in v
    BY <1>5
  <2> HIDE DEF v
  <2>3. /\ Accessing /\ point' = "begin" /\ shadow' = v
        /\ "HALT" \notin control' /\ "CPU_RESET" \notin control' /\ "SINGLESTEP" \in control'
        /\ "DO_STEP" \in control'
    BY <1>5, <2>1, <2>2, ControlEdge
  <2>4. {"HALT", "CPU_RESET"} \cap (control' \cup shadow') = {}
        /\ "SINGLESTEP" \in shadow'
    BY <2>2, <2>3
  <2>5. state = "CPU_IDLE"
    BY <1>5, <2>1
  <2> QED BY <1>2, <1>4, <2>1, <2>3, <2>4, <2>5, SteppingStep DEF Accessing
<1> QED BY <1>6, <1>7, <1>8

\* fpga_init, whatever the CPU is doing.
LEMMA StartStep ==
  ASSUME HostInv, Start
  PROVE  HostInv'
<1>1. /\ image' \in Images /\ call' = 1 /\ shadow' = {} /\ retired' = 0
      /\ SocTick(SocPins) /\ control' = {"CPU_RESET", "SOC_RESET", "HALT"}
  BY DEF Start, FpgaReset
<1>2. BoardEdge
  BY <1>1, BoardMoves DEF HostInv
<1>3. Positions
  BY <1>1, Places
<1>4. /\ call' \in 1 .. LastHalt + 2 /\ call' \notin 2 .. RunAt - 1 /\ call' # RunAt
      /\ call' \notin RunAt + 1 .. LastHalt /\ ~(call' > LastHalt) /\ call' <= RunAt + 1
  BY <1>1, <1>3 DEF Positions
<1>5. Started'
  BY <1>1 DEF Started
<1>6. Uploading' /\ Restarting' /\ Stepping' /\ Halted'
  BY <1>4 DEF Uploading, Restarting, Stepping, Halted
<1>7. StepsRequested' = 0
  <2>1. StepsRequested' = StepsBefore(image', 1)
    BY <1>1 DEF StepsRequested, StepsBefore
  <2>2. 1 \in Nat \ {0}
    OBVIOUS
  <2> QED BY <2>1, <2>2, StepsCounted
<1>8. Requested'
  BY <1>4, <1>7 DEF Requested
<1> QED BY <1>1, <1>2, <1>4, <1>5, <1>6, <1>8 DEF HostInv, BoardEdge

\* A tick between two accesses.
LEMMA BoardTickStep ==
  ASSUME HostInv, BoardTick
  PROVE  HostInv'
<1>1. /\ FpgaTick(NoWrite) /\ CountRetired
      /\ image' = image /\ call' = call /\ point' = point /\ shadow' = shadow
  BY DEF BoardTick
<1>2. /\ \A bit \in {"HALT", "CPU_RESET", "SINGLESTEP"} : bit \in control' <=> bit \in control
      /\ "DO_STEP" \notin control'
  <2>1. NoWrite.reg # "CONTROL"
    BY DEF NoWrite
  <2> QED BY <1>1, <2>1, ControlKept
<1>3. BoardEdge
  <2>1. SocTick(SocPins)
    BY <1>1 DEF FpgaTick
  <2> QED BY <2>1, BoardMoves DEF HostInv
<1>4. Positions /\ call \in 1 .. LastHalt + 2 /\ call \in Nat /\ call + 1 # call
  <2>1. Positions /\ call \in 1 .. LastHalt + 2
    BY Places DEF HostInv
  <2> QED BY <2>1 DEF Positions
<1>5. CASE call \in 2 .. RunAt - 1 \/ (call = RunAt /\ point = "begin")
  <2>1. "HALT" \in control /\ "HALT" \in shadow /\ "DO_STEP" \notin shadow
    BY <1>5 DEF HostInv, Uploading
  <2>2. call' \in 2..RunAt /\ (call' = RunAt => point' = "begin")
    BY <1>1, <1>4, <1>5 DEF Positions
  <2> QED BY <1>1, <1>2, <1>3, <1>5, <2>1, <2>2, UploadingStep
<1>6. CASE call \in RunAt + 1 .. LastHalt
  <2>1. /\ {"HALT", "CPU_RESET"} \cap (control' \cup shadow') = {}
        /\ "SINGLESTEP" \in control' /\ "SINGLESTEP" \in shadow'
        /\ Current.op = "step" /\ point' = "go" => state = "CPU_IDLE"
    BY <1>1, <1>2, <1>6 DEF HostInv, Stepping
  <2>2. call' <= LastHalt
    BY <1>1, <1>4, <1>6 DEF Positions
  <2> QED BY <1>1, <1>2, <1>3, <1>4, <1>6, <2>1, <2>2, SteppingStep
<1>7. CASE call > LastHalt
  <2>1. "HALT" \in control' /\ "CPU_RESET" \notin control'
    BY <1>2, <1>7 DEF HostInv, Halted
  <2>2. call' <= LastHalt + 2
    BY <1>1, <1>4 DEF Positions
  <2> QED BY <1>1, <1>3, <1>7, <2>1, <2>2, HaltedStep
<1>8. CASE call = 1 \/ (call = RunAt /\ point = "go")
  <2>1. /\ "CPU_RESET" \in control /\ retired = 0
        /\ call = 1 => shadow = {}
        /\ call = RunAt => {"HALT", "DO_STEP"} \cap shadow = {}
    BY <1>4, <1>8 DEF HostInv, Started, Restarting, Positions
  <2>2. state' = "RESET" /\ retired' = 0 /\ "CPU_RESET" \in control'
    BY <1>1, <1>2, <1>3, <2>1, ResetStep
  <2>3. /\ call' \notin 2 .. RunAt - 1 /\ ~(call' = RunAt /\ point' = "begin")
        /\ call' \notin RunAt + 1 .. LastHalt /\ ~(call' > LastHalt)
        /\ call' = 1 => call' # RunAt
    BY <1>1, <1>4, <1>8 DEF Positions
  <2>4. Started' /\ Restarting'
    BY <1>1, <1>8, <2>1, <2>2, <2>3 DEF Started, Restarting
  <2>5. Uploading' /\ Stepping' /\ Halted'
    BY <2>3 DEF Uploading, Stepping, Halted
  <2>6. Requested'
    BY <1>1, <1>4, RequestedStep
  <2> QED BY <1>1, <1>3, <1>4, <2>4, <2>5, <2>6 DEF HostInv, BoardEdge
<1>9. call = RunAt => point \in {"begin", "go"}
  BY DEF HostInv, Restarting
<1> QED BY <1>4, <1>5, <1>6, <1>7, <1>8, <1>9 DEF Positions

LEMMA HostStarts ==
  ASSUME BoardInit
  PROVE  HostInv
<1>1. /\ image \in Images /\ call = 1 /\ shadow = {} /\ retired = 0 /\ state = "RESET"
      /\ insn = Nop /\ control = {"CPU_RESET", "SOC_RESET", "HALT"}
  BY DEF BoardInit, FpgaInit, SocInit, CpuInit
<1>2. Positions
  BY <1>1, Places
<1>3. /\ call \in 1 .. LastHalt + 2 /\ call \notin 2 .. RunAt - 1 /\ call # RunAt
      /\ call \notin RunAt + 1 .. LastHalt /\ ~(call > LastHalt) /\ call <= RunAt + 1
  BY <1>1, <1>2 DEF Positions
<1>4. Started /\ Quiescent
  BY <1>1 DEF Started, Quiescent
<1>5. Uploading /\ Restarting /\ Stepping /\ Halted
  BY <1>3 DEF Uploading, Restarting, Stepping, Halted
<1>6. StepsRequested = 0
  <2>1. StepsRequested = StepsBefore(image, 1)
    BY <1>1 DEF StepsRequested, StepsBefore
  <2>2. 1 \in Nat \ {0}
    OBVIOUS
  <2> QED BY <2>1, <2>2, StepsCounted
<1>7. Requested
  BY <1>3, <1>6 DEF Requested
<1>8. Nop \in Insn
  <2>1. {} \in Word
    BY DEF Word
  <2> QED BY <2>1 DEF Nop, Insn, BusOp, ReadOp, CsrAddr
<1> QED BY <1>1, <1>3, <1>4, <1>5, <1>7, <1>8 DEF HostInv

\* The phases of default_fpga.py and what the CPU does in each of them.
THEOREM HostInvariant == BoardSpec => []HostInv
<1>1. ASSUME HostInv, [BoardNext]_boardVars PROVE HostInv'
  <2>1. CASE Library
    BY <1>1, <2>1, TransferActions, HaltSocStep, RunSocStep, GetCpuStatusStep, DoStepStep
    DEF Library
  <2>2. CASE Start
    BY <1>1, <2>2, StartStep
  <2>3. CASE BoardTick
    BY <1>1, <2>3, BoardTickStep
  <2>4. CASE UNCHANGED boardVars
    BY <1>1, <2>4
    DEF boardVars, fpgaVars, socVars, hostVars, coreVars, csrVars, busVars, HostInv, Quiescent,
        Started, Uploading, Restarting, Stepping, Halted, Requested, StepsRequested, Current,
        HandlingTrap, HandlingMret
  <2> QED BY <1>1, <2>1, <2>2, <2>3, <2>4 DEF BoardNext
<1> QED BY <1>1, HostStarts, PTL DEF BoardSpec

\* run_soc executes one instruction and every do_step one more, for every
\* program, image and pace of the host and however often it is stopped and
\* started: DO_STEP is a pulse that CPU_IDLE sees once, and the stale bit in
\* the library's shadow register is written again only together with HALT.
THEOREM StepIsOneInstruction == BoardSpec => []OneInstructionPerStep
<1>1. ASSUME HostInv PROVE OneInstructionPerStep
  <2>1. Positions /\ call \in 1 .. LastHalt + 2 /\ StepsRequested \in Nat
    BY <1>1, Places DEF HostInv, Requested
  <2>2. CASE call = 1
    BY <1>1, <2>1, <2>2 DEF HostInv, Started, OneInstructionPerStep
  <2>3. CASE call \in 2..RunAt
    <3>1. retired = 0 /\ state = "RESET"
      <4>1. call \in 2 .. RunAt - 1 \/ call = RunAt
        BY <2>1, <2>3 DEF Positions
      <4> QED BY <1>1, <4>1 DEF HostInv, Uploading, Restarting
    <3> QED BY <2>1, <3>1 DEF OneInstructionPerStep
  <2>4. CASE call \in RunAt + 1 .. LastHalt
    <3>1. retired = StepsRequested
                      + IF state = "CPU_IDLE" /\ "DO_STEP" \notin control THEN 1 ELSE 0
      BY <1>1, <2>4 DEF HostInv, Stepping
    <3> QED BY <2>1, <3>1 DEF OneInstructionPerStep
  <2>5. CASE call > LastHalt
    <3>1. retired = StepsRequested + IF state = "CPU_IDLE" THEN 1 ELSE 0
      BY <1>1, <2>5 DEF HostInv, Halted
    <3> QED BY <2>1, <3>1 DEF OneInstructionPerStep
  <2> QED BY <2>1, <2>2, <2>3, <2>4, <2>5 DEF Positions
<1> QED BY <1>1, HostInvariant, PTL

-----------------------------------------------------------------------------
(* The random-number generator. *)

\* A step of lfsr_rnd.v stays within the register.
LEMMA StepType == ASSUME Parameters, NEW w, w \subseteq 0..Top
                  PROVE  RndStep(w) \subseteq 0..Top
<1>. SUFFICES ASSUME NEW x \in RndStep(w) PROVE x \in 0..Top
  OBVIOUS
<1>1. \/ x \in {i + 1 : i \in w \ {Top}} \/ x \in Poly \/ x = 0
  BY DEF RndStep, SymDiff
<1>2. ASSUME x \in {i + 1 : i \in w \ {Top}} PROVE x \in 0..Top
  <2>1. PICK i \in w \ {Top} : x = i + 1
    BY <1>2
  <2>. QED  BY <2>1 DEF Parameters
<1>3. 0 \in 0..Top /\ Poly \subseteq 0..Top
  BY DEF Parameters
<1>. QED  BY <1>1, <1>2, <1>3, Zenon

\* A word with a 1 bit is followed by a word with a 1 bit: the highest bit
\* comes back as bit 0, any other moves up, without feedback if the highest
\* one is 0.
LEMMA StepNonZero == ASSUME Parameters, NEW w, w \subseteq 0..Top, w # {}
                     PROVE  RndStep(w) # {}
<1>1. CASE Top \in w
  <2>1. 0 \in RndStep(w)
    BY <1>1 DEF RndStep
  <2>. QED  BY <2>1
<1>2. CASE Top \notin w
  <2>1. PICK i \in w : TRUE
    OBVIOUS
  <2>2. i + 1 \in RndStep(w)
    BY <1>2, <2>1 DEF RndStep, SymDiff
  <2>. QED  BY <2>2
<1>. QED  BY <1>1, <1>2

\* Bit 0 of the next word is the highest bit of this one.
LEMMA LowestBit == ASSUME Parameters, NEW w, w \subseteq 0..Top
                   PROVE  0 \in RndStep(w) <=> Top \in w
<1>1. 0 \notin {i + 1 : i \in w \ {Top}}
  BY DEF Parameters
<1>2. 0 \notin {i \in Poly : Top \in w /\ i # 0}
  OBVIOUS
<1>. QED  BY <1>1, <1>2 DEF RndStep, SymDiff

\* Bit j + 1 of the next word is bit j of this one, inverted where the
\* feedback reaches it.
LEMMA HigherBit ==
  ASSUME Parameters, NEW w, w \subseteq 0..Top, NEW j \in 0 .. Top - 1
  PROVE  j + 1 \in RndStep(w) <=> (j \in w <=> ~(Top \in w /\ j + 1 \in Poly))
<1>1. j + 1 \in {i + 1 : i \in w \ {Top}} <=> j \in w
  <2>1. ASSUME j \in w PROVE j + 1 \in {i + 1 : i \in w \ {Top}}
    BY <2>1 DEF Parameters
  <2>2. ASSUME j + 1 \in {i + 1 : i \in w \ {Top}} PROVE j \in w
    <3>1. PICK i \in w \ {Top} : j + 1 = i + 1
      BY <2>2
    <3>2. i = j
      BY <3>1 DEF Parameters
    <3>. QED  BY <3>2
  <2>. QED  BY <2>1, <2>2
<1>2. j + 1 \in {i \in Poly : Top \in w /\ i # 0} <=> Top \in w /\ j + 1 \in Poly
  BY DEF Parameters
<1>3. j + 1 \notin {i \in {0} : Top \in w}
  BY DEF Parameters
<1>. QED  BY <1>1, <1>2, <1>3 DEF RndStep, SymDiff

\* No two words have the same successor: the sequence of lfsr_rnd.v has no
\* dead ends, and on the finitely many words of a register it comes back to
\* the seed.
THEOREM StepInjective ==
  ASSUME Parameters, NEW v, NEW w, v \subseteq 0..Top, w \subseteq 0..Top,
         RndStep(v) = RndStep(w)
  PROVE  v = w
<1>1. Top \in v <=> Top \in w
  BY LowestBit
<1>2. ASSUME NEW j \in 0 .. Top - 1 PROVE j \in v <=> j \in w
  <2>1. (j \in v <=> ~(Top \in v /\ j + 1 \in Poly))
          <=> (j \in w <=> ~(Top \in w /\ j + 1 \in Poly))
    BY HigherBit
  <2>. QED  BY <2>1, <1>1
<1>3. \A j \in 0..Top : j = Top \/ j \in 0 .. Top - 1
  BY DEF Parameters
<1>4. \A j \in 0..Top : j \in v <=> j \in w
  BY <1>1, <1>2, <1>3
<1>5. \A j : j \in v <=> j \in w
  BY <1>4
<1>. QED  BY <1>5, Zenon

\* The register keeps its width (result of lfsr_rnd.v).
THEOREM LfsrTypeOK == ASSUME Parameters PROVE RndSpec => []RndTypeOK
<1>1. RndInit => RndTypeOK
  BY DEF RndInit, RndTypeOK
<1>2. RndTypeOK /\ [RndNext]_rndVars => RndTypeOK'
  BY StepType DEF Parameters, RndTypeOK, RndNext, RndReset, RndClock, rndVars
<1>. QED  BY <1>1, <1>2, PTL DEF RndSpec

\* The generator never gets stuck at zero once it has been reset.
THEOREM LfsrNeverStuck == ASSUME Parameters PROVE RndSpec => []NeverStuck
<1>1. RndInit => NeverStuck
  BY DEF RndInit, NeverStuck
<1>2. RndTypeOK /\ NeverStuck /\ [RndNext]_rndVars => NeverStuck'
  BY StepNonZero DEF Parameters, RndTypeOK, NeverStuck, RndNext, RndReset, RndClock, rndVars
<1>. QED  BY <1>1, <1>2, LfsrTypeOK, PTL DEF RndSpec

=============================================================================
