------------------------------ MODULE FpgaHost ------------------------------
(***************************************************************************)
(* The FPGA test driver: bench/test_drivers/default_fpga.py with the host  *)
(* library bench/emulation/dut_wrapper/fpga.py and the image loader, on    *)
(* the other side of the registers of FpgaTop.  The driver is sequential;  *)
(* every register access is one action, and any number of clock ticks from *)
(* MinGap on pass between two accesses.  It may be stopped at any access   *)
(* and started again, with another image.  A transaction that is not       *)
(* answered in time is abandoned by the library but not by the hardware.   *)
(***************************************************************************)
EXTENDS FpgaTop

CONSTANTS
  MinGap,     \* ticks between two accesses, at least; the SoC's clock is far
              \* faster than the host, a RAM access always fits in between
  MaxPolls,   \* polls of the ready bit before a transaction is abandoned
  MaxStarts,  \* bound on the number of times the driver is started
  Addresses,  \* the RAM's word addresses, in order
  Images,     \* memory images: functions on the addresses
  Greeting, Farewell,   \* text printed before and after the upload
  Steps,      \* instructions single-stepped
  BaudWord    \* UART_9600_DIVIDER

ASSUME HostAssumption ==
  /\ MinGap \in Nat \ {0} /\ MaxPolls \in Nat \ {0} /\ MaxStarts \in Nat /\ Steps \in Nat
  /\ Addresses \in Seq(Word) /\ Greeting \in Seq(Word) /\ Farewell \in Seq(Word)
  /\ \A img \in Images : \A n \in 1..Len(Addresses) : img[Addresses[n]] \in Word
  /\ BaudWord \in Word

VARIABLES
  image,      \* the image of this run of the driver
  call,       \* position in the driver's script
  point,      \* position within the library call
  shadow,     \* _control_reg
  polls,      \* polls of the ready bit so far
  partial,    \* low half of a word being read
  wordsRead,  \* words_to_read
  gap,        \* ticks until the next access is possible
  starts,     \* starts of the driver
  retired     \* instructions executed since then

hostVars == <<image, call, point, shadow, polls, partial, wordsRead, gap, starts,
              retired>>
boardVars == <<fpgaVars, hostVars>>

UART_BAUDE_DIVIDER_ADDR == {27}
UART_TRANSMIT_BYTE_ADDR == {2, 27}

-----------------------------------------------------------------------------
(* main of default_fpga.py, and load_image, as a sequence of library calls. *)

Op(op) == [op |-> op, addr |-> {}, data |-> {}]
WriteWord(addr, data) == [op |-> "write", addr |-> addr, data |-> data]
ReadWord(addr) == [op |-> "read", addr |-> addr, data |-> {}]

UartPrint(text) == [n \in 1..Len(text) |-> WriteWord(UART_TRANSMIT_BYTE_ADDR, text[n])]
LoadImage(img) ==
  [n \in 1..Len(Addresses) |-> WriteWord(Addresses[n], img[Addresses[n]])]
    \o [n \in 1..Len(Addresses) |-> ReadWord(Addresses[n])]

\* Mutation: run_in_singlestep does not look at the CPU after a step.
Main_NoStatus(img) ==
  <<Op("halt"), WriteWord(UART_BAUDE_DIVIDER_ADDR, BaudWord)>>
    \o UartPrint(Greeting)
    \o LoadImage(img)
    \o UartPrint(Farewell)
    \o <<Op("status"), Op("run"), Op("status")>>
    \o [n \in 1..Steps |-> Op("step")]
    \o <<Op("halt"), Op("status")>>

Main(img) ==
  <<Op("halt"), WriteWord(UART_BAUDE_DIVIDER_ADDR, BaudWord)>>
    \o UartPrint(Greeting)
    \o LoadImage(img)
    \o UartPrint(Farewell)
    \o <<Op("status"), Op("run"), Op("status")>>
    \o [n \in 1 .. 2 * Steps |-> Op(IF n % 2 = 1 THEN "step" ELSE "status")]
    \o <<Op("halt"), Op("status")>>

\* The calls of main for each image.
Script == [img \in Images |-> Main(img)]
Done == call > Len(Script[image])
Current == Script[image][call]
At(op, p) == gap = 0 /\ ~Done /\ Current.op = op /\ point = p

-----------------------------------------------------------------------------
(* The library, one action per register access. *)

\* Instructions completed, counted no further than the script can ask for.
CountRetired ==
  retired' = IF state = "UPDATE_PC" /\ state' \notin {"UPDATE_PC", "RESET"}
               /\ retired < Steps + 2
             THEN retired + 1 ELSE retired

Idle(n) == IF n = 0 THEN 0 ELSE n - 1

HostAccess(write, next) ==
  /\ FpgaTick(write) /\ CountRetired
  /\ gap' = MinGap
  /\ point' = next
  /\ UNCHANGED <<image, starts>>

WriteReg(reg, value, next) == HostAccess([reg |-> reg, value |-> value], next)
ReadReg(next) == HostAccess(NoWrite, next)
UpdateControl(value, next) == WriteReg("CONTROL", value, next) /\ shadow' = value

Stay == UNCHANGED call
Return == call' = call + 1

\* __set_address and __set_data_in, low half first.  The library reads both
\* back, which changes nothing.
SetAddressLow ==
  /\ \E op \in {"write", "read"} : At(op, "begin")
  /\ WriteReg("ADDR_LOW", LowHalf(Current.addr), "addrHigh")
  /\ Stay /\ UNCHANGED <<shadow, polls, partial, wordsRead>>

SetAddressHigh ==
  /\ \E op \in {"write", "read"} : At(op, "addrHigh")
  /\ WriteReg("ADDR_HIGH", HighHalf(Current.addr),
              IF Current.op = "write" THEN "dataLow" ELSE "start")
  /\ Stay /\ UNCHANGED <<shadow, polls, partial, wordsRead>>

SetDataLow ==
  /\ At("write", "dataLow")
  /\ WriteReg("DATA_LOW", LowHalf(Current.data), "dataHigh")
  /\ Stay /\ UNCHANGED <<shadow, polls, partial, wordsRead>>

SetDataHigh ==
  /\ At("write", "dataHigh")
  /\ WriteReg("DATA_HIGH", HighHalf(Current.data), "start")
  /\ Stay /\ UNCHANGED <<shadow, polls, partial, wordsRead>>

\* __prepare_for_write_transaction, __start_transaction.  A read leaves the
\* direction as it is.
StartTransaction ==
  /\ \E op \in {"write", "read"} : At(op, "start")
  /\ UpdateControl(shadow \cup {"START"}
                     \cup {b \in {"WE"} : Current.op = "write"}, "poll")
  /\ polls' = 0
  /\ Stay /\ UNCHANGED <<partial, wordsRead>>

\* __check_transaction_ready: the shadow register is read back.
Poll ==
  /\ \E op \in {"write", "read"} : At(op, "poll")
  /\ polls' = polls + 1
  /\ shadow' = ControlOut
  /\ \/ tranFinished /\ ReadReg("clean") /\ Stay /\ UNCHANGED wordsRead
     \/ ~tranFinished /\ polls + 1 < MaxPolls /\ ReadReg("poll") /\ Stay
          /\ UNCHANGED wordsRead
     \/ /\ ~tranFinished /\ polls + 1 = MaxPolls
        /\ ReadReg("begin") /\ Return
        /\ wordsRead' = IF Current.op = "read" THEN Append(wordsRead, {})
                        ELSE wordsRead
  /\ UNCHANGED partial

\* __clear_transaction_finished
SetClean ==
  /\ \E op \in {"write", "read"} : At(op, "clean")
  /\ UpdateControl((shadow \ {"WE"}) \cup {"CLEAN"}, "cleaned")
  /\ Stay /\ UNCHANGED <<polls, partial, wordsRead>>

ClearClean ==
  /\ \E op \in {"write", "read"} : At(op, "cleaned")
  /\ UpdateControl(shadow \ {"CLEAN"},
                   IF Current.op = "write" THEN "begin" ELSE "outLow")
  /\ IF Current.op = "write" THEN Return ELSE Stay
  /\ UNCHANGED <<polls, partial, wordsRead>>

\* __get_data_out
GetDataLow ==
  /\ At("read", "outLow")
  /\ ReadReg("outHigh")
  /\ partial' = LowHalf(extData)
  /\ Stay /\ UNCHANGED <<shadow, polls, wordsRead>>

GetDataHigh ==
  /\ At("read", "outHigh")
  /\ ReadReg("begin")
  /\ wordsRead' = Append(wordsRead, SetHigh(partial, HighHalf(extData)))
  /\ Return /\ UNCHANGED <<shadow, polls, partial>>

\* Mutation: halt_soc takes the bus without halting the CPU.
HaltSoc_NoHalt ==
  /\ At("halt", "begin")
  /\ UpdateControl((shadow \ {"SOC_RESET"})
                     \cup {"BUS_MASTER", "SIZE_LOW", "SIZE_HIGH"}, "begin")
  /\ Return /\ UNCHANGED <<polls, partial, wordsRead>>

HaltSoc ==
  /\ At("halt", "begin")
  /\ UpdateControl((shadow \ {"SOC_RESET"})
                     \cup {"HALT", "BUS_MASTER", "SIZE_LOW", "SIZE_HIGH"}, "begin")
  /\ Return /\ UNCHANGED <<polls, partial, wordsRead>>

RunSocReset ==
  /\ At("run", "begin")
  /\ UpdateControl((shadow \ {"HALT", "BUS_MASTER"}) \cup {"CPU_RESET"}, "go")
  /\ Stay /\ UNCHANGED <<polls, partial, wordsRead>>

\* Mutation: run_soc leaves the CPU in reset.
RunSocGo_StaysReset ==
  /\ At("run", "go")
  /\ UpdateControl((shadow \ {"SOC_RESET"}) \cup {"SINGLESTEP"}, "begin")
  /\ Return /\ UNCHANGED <<polls, partial, wordsRead>>

RunSocGo ==
  /\ At("run", "go")
  /\ UpdateControl((shadow \ {"CPU_RESET", "SOC_RESET"}) \cup {"SINGLESTEP"}, "begin")
  /\ Return /\ UNCHANGED <<polls, partial, wordsRead>>

\* get_cpu_status(halt = False): five reads.  They change nothing but give
\* the CPU the time to finish a step.
StatusPoints == <<"begin", "pcLow", "pcHigh", "insnLow", "insnHigh">>
GetCpuStatus ==
  /\ \E n \in 1..5 :
       /\ At("status", StatusPoints[n])
       /\ ReadReg(IF n < 5 THEN StatusPoints[n + 1] ELSE "begin")
       /\ IF n < 5 THEN Stay ELSE Return
  /\ UNCHANGED <<shadow, polls, partial, wordsRead>>

\* do_step.  The ten attempts to find the CPU idle are 50 ms apart, longer
\* than any instruction that ends: an assertion that fails is a driver that
\* waits here for ever.  Of the five reads of an attempt, the state counts.
StepCheck ==
  /\ At("step", "begin")
  /\ ReadReg("idle")
  /\ shadow' = ControlOut
  /\ Stay /\ UNCHANGED <<polls, partial, wordsRead>>

StepIdle ==
  /\ At("step", "idle")
  /\ ReadReg(IF state = "CPU_IDLE" THEN "go" ELSE "idle")
  /\ Stay /\ UNCHANGED <<shadow, polls, partial, wordsRead>>

StepGo ==
  /\ At("step", "go")
  /\ UpdateControl(shadow \cup {"DO_STEP"}, "begin")
  /\ Return /\ UNCHANGED <<polls, partial, wordsRead>>

\* fpga_init of a new run of the driver, whatever the last one was doing.
Start ==
  /\ gap = 0 /\ starts < MaxStarts
  /\ FpgaReset
  /\ image' \in Images
  /\ call' = 1 /\ point' = "begin" /\ shadow' = {} /\ polls' = 0
  /\ partial' = {} /\ wordsRead' = <<>> /\ retired' = 0
  /\ gap' = MinGap /\ starts' = starts + 1

Library ==
  \/ SetAddressLow \/ SetAddressHigh \/ SetDataLow \/ SetDataHigh
  \/ StartTransaction \/ Poll \/ SetClean \/ ClearClean \/ GetDataLow \/ GetDataHigh
  \/ HaltSoc \/ RunSocReset \/ RunSocGo \/ GetCpuStatus
  \/ StepCheck \/ StepIdle \/ StepGo

\* A clock tick without an access.
BoardTick ==
  /\ FpgaTick(NoWrite) /\ CountRetired
  /\ gap' = Idle(gap)
  /\ UNCHANGED <<image, call, point, shadow, polls, partial, wordsRead, starts>>

BoardInit ==
  /\ FpgaInit
  /\ image \in Images
  /\ call = 1 /\ point = "begin" /\ shadow = {} /\ polls = 0 /\ partial = {}
  /\ wordsRead = <<>> /\ gap = 0 /\ starts = 1 /\ retired = 0

BoardNext == Library \/ Start \/ BoardTick

\* The clock runs, so that the time for the next access comes, and the driver,
\* which nothing but the end of its script keeps from its next access, makes
\* it.  (Weak fairness of BoardTick and of Library, in terms of gap, which
\* every access sets.)
BoardFairness == []<>(gap = 0) /\ []<>(gap # 0 \/ Done)

BoardSpec == BoardInit /\ [][BoardNext]_boardVars /\ BoardFairness

-----------------------------------------------------------------------------
\* Registers and script positions keep their ranges; the library polls the
\* ready bit no more often than its loop says.
BoardTypeOK ==
  /\ FpgaTypeOK
  /\ shadow \subseteq ControlBit \cup {"READY"}
  /\ polls \in 0..MaxPolls /\ gap \in 0..MinGap
  /\ call \in 1 .. Len(Script[image]) + 1

\* image_loader.py: assert(words_to_write == words_to_read), although the bytes
\* printed before the upload are given up before they are sent, and the first
\* write to memory finds such a transaction still running.
ImageVerified ==
  \A n \in 1..Len(wordsRead) : wordsRead[n] = image[Addresses[n]]

\* Memory changes only where and as the driver's current call or the store
\* the CPU is executing says.  wb_ext.v drives address and data as the host
\* changes them, so that the next call redirects a transaction that was given
\* up; it does not end up in RAM, because the low half of the address is
\* changed first and an image starts at address 0: it meets the UART's divider
\* register, which answers at once (and loses the baud rate).
OnlyIntendedWrites ==
  [][mem' # mem =>
       \/ /\ ~Done /\ Current.op = "write"
          /\ mem' = [mem EXCEPT ![IndexOf(Current.addr)] = Current.data]
       \/ /\ state = "STORE2"
          /\ mem' = [mem EXCEPT ![IndexOf(insn.alu)] = insn.data]]_boardVars

\* What the CPU decodes is what memory holds at pc: an answer to the host,
\* or to an access from before the reset, never passes for a fetch.
FetchesMemory == state = "FETCH" /\ ~busy => buffer = mem[IndexOf(pc)]

StepsRequested ==
  Cardinality({n \in 1 .. call - 1 : Script[image][n].op = "step"})

\* run_soc in single-step mode executes one instruction and every do_step
\* one more, although the library's shadow register still has the step bit
\* when it is written again.
OneInstructionPerStep ==
  /\ retired <= 1 + StepsRequested
  /\ state = "CPU_IDLE" /\ control \cap {"DO_STEP", "CPU_RESET"} = {}
       => retired = 1 + StepsRequested

\* The driver gets through its script: no call of it waits for ever.
DriverFinishes == <>[]Done

=============================================================================
