--------------------------- MODULE SimBench_proofs ---------------------------
(***************************************************************************)
(* Proofs about the simulation bench, for every program that the decoder   *)
(* accepts and that keeps to the RAM, every RAM and every behaviour of the *)
(* timer line: the hart is given up neither as dead nor as stalled while   *)
(* it makes progress.                                                      *)
(***************************************************************************)
EXTENDS SimBench, Core_proofs

-----------------------------------------------------------------------------
(* How long the CPU waits. *)

\* Nobody drives the control pins.
PinsFree == \A host \in HostPins : ~host.halt /\ ~host.single /\ ~host.rst

\* Ticks that the sequencers still need: each step takes the CSR port for two.
TrapLeft == CASE trapState = "LOAD_STATUS" -> 14
              [] trapState = "STORE_STATUS" -> 12
              [] trapState = "STORE_EPC" -> 10
              [] trapState = "STORE_TVAL" -> 8
              [] trapState = "LOAD_MIP" -> 6
              [] trapState = "STORE_MIP" -> 4
              [] trapState = "LOAD_TVEC" -> 2
              [] OTHER -> 0

MretLeft == CASE mretState = "STORE_STATUS" -> 4
              [] mretState = "LOAD_EPC" -> 2
              [] OTHER -> 0

PortBusy == IF csrBusy THEN 1 ELSE 0

PortLeft == TrapLeft + MretLeft + PortBusy

\* An access ends after two ticks; each counts twice, because STORE2 may use
\* the CSR port again while the bus is busy.
BusLeft == IF Requested THEN 4 ELSE IF Acknowledged THEN 2 ELSE 0

\* A bound on the ticks the main machine stays in its state.
Stay == aluLeft + PortLeft + BusLeft

\* The longest wait after EXEC is a multi-cycle operation or a trap.
LongestExec == IF AluTicks > 16 THEN AluTicks + 4 ELSE 20

\* A bound on the ticks from the end of the wait in state s until FETCH.
TillFetch(s) ==
  CASE s = "PRE_FETCH" -> 1
    [] s \in {"UPDATE_PC", "RESET"} -> 2
    [] s \in {"POST_EXEC", "TRAP", "MRET", "LOAD2", "STORE2", "BRANCH2", "CSR2"} -> 4
    [] s = "CSR1" -> 5
    [] s \in {"LOAD1", "STORE1"} -> 10
    [] s = "SYSTEM" -> 20
    [] OTHER -> 0

ToFetch == IF state = "FETCH" THEN 0 ELSE Stay + TillFetch(state)

\* A bound on the ticks from there until EXEC: an interrupt is taken on the
\* way if it is enabled (en), and then it is not any more.
TillExec(s, en) ==
  LET Detour(n) == IF en THEN n + 30 ELSE n
  IN  CASE s = "DECODE" -> Detour(1)
        [] s = "FETCH_MORE" -> Detour(2)
        [] s = "PREPAIR_UNALIGNED_FETCH" -> Detour(7)
        [] s = "FETCH" -> Detour(8)
        [] s = "PRE_FETCH" -> Detour(13)
        [] s \in {"UPDATE_PC", "RESET"} -> Detour(14)
        [] s = "TRAP" -> 15
        [] OTHER -> 0

ToExec == Stay + TillExec(state, irqEn)

\* A bound on the ticks from there until a word fetched at pc arrives.
TillWord(s) ==
  CASE s = "FETCH" -> 9 + LongestExec
    [] s = "PREPAIR_UNALIGNED_FETCH" -> 8 + LongestExec
    [] s = "FETCH_MORE" -> 3 + LongestExec
    [] s = "DECODE" -> 2 + LongestExec
    [] s = "EXEC" -> 1 + LongestExec
    [] OTHER -> TillFetch(s)

\* The word has been asked for.
Coming == state = "FETCH" /\ cyc /\ ~ack

ToWord == IF Coming THEN 0 ELSE Stay + TillWord(state)

-----------------------------------------------------------------------------
(* The inductive invariant. *)

AfterExec == {"POST_EXEC", "LOAD1", "LOAD2", "STORE1", "STORE2", "BRANCH2", "SYSTEM",
              "CSR1", "CSR2", "MRET"}

AluFollowed == aluLeft \in 0..AluTicks /\ (aluBusy <=> aluLeft > 0)

\* What checkFWD remembers fits the state, the ALU is busy as long as it has
\* something to do, and an interrupt that was taken is masked.
Followed ==
  /\ fwdState \in {"NONE", "FETCH", "EXEC"} /\ state # "CPU_IDLE"
  /\ AluFollowed
  /\ state = "RESET" => fwdState = "NONE" /\ ~irqEn /\ ~execDone
  /\ state \in {"PREPAIR_UNALIGNED_FETCH", "FETCH_MORE", "DECODE", "EXEC"}
       => fwdState = "FETCH"
  /\ state \in AfterExec => fwdState = "EXEC"
  /\ state \in {"TRAP", "UPDATE_PC", "PRE_FETCH"} => (execDone <=> fwdState = "EXEC")
  /\ state = "TRAP" /\ ~execDone /\ trapState \notin {"LOAD_STATUS", "STORE_STATUS"}
       => ~irqEn

\* Neither counter can get past its threshold before it is reset.
Pending == IF fwdState = "EXEC" THEN ToFetch ELSE ToExec

InTime ==
  /\ fwdCntr \in Nat /\ fwdCntr + Pending <= BraindeadAfter
  /\ stallCnt \in Nat /\ (fetches # 2 => stallCnt + ToWord < StallAfter)

\* The thresholds leave room for the longest instruction and for the longest
\* way to one: an unaligned fetch, an interrupt and an unaligned fetch.
Generous ==
  /\ LongestExec <= BraindeadAfter /\ 41 <= BraindeadAfter
  /\ LongestExec + 13 <= StallAfter

BenchInv ==
  /\ verdict # "braindead"
  /\ verdict = "stalled" => fetches = 2
  /\ verdict = "running" => Followed /\ InTime

-----------------------------------------------------------------------------
(* The parts of a wait. *)

\* What is known of CPU and RAM from Core_proofs.
Sound == TypeOK /\ CsrOpKnown /\ ControlInv

\* The wait by state: each of its parts belongs to few states.
StayFacts ==
  /\ TrapLeft \in 0..14 /\ MretLeft \in 0..4 /\ PortBusy \in 0..1
  /\ aluLeft \in 0..AluTicks /\ PortLeft \in 0..19 /\ BusLeft \in {0, 2, 4} /\ Stay \in Nat
  /\ TrapLeft > 0 <=> HandlingTrap
  /\ MretLeft > 0 <=> HandlingMret
  /\ BusLeft > 0 <=> busy
  /\ aluLeft > 0 <=> aluBusy
  /\ PortBusy > 0 <=> csrBusy
  /\ state \notin {"POST_EXEC", "TRAP"} => aluLeft = 0
  /\ state # "TRAP" => TrapLeft = 0
  /\ state # "MRET" => MretLeft = 0
  /\ state \notin {"TRAP", "MRET"} => PortLeft = PortBusy
  /\ state \notin {"TRAP", "MRET", "STORE2", "CSR1", "UPDATE_PC"} => PortBusy = 0
  /\ state \notin {"RESET", "FETCH", "FETCH_MORE", "LOAD2", "STORE2"} => BusLeft = 0

\* The parts of the wait have the bounds of the sequencers and the bus.
LEMMA StayIs == Sound /\ AluFollowed => StayFacts
<1> SUFFICES ASSUME Sound, AluFollowed PROVE StayFacts
  OBVIOUS
<1>1. /\ Waiting /\ Handshake /\ csrBusy \in BOOLEAN /\ busy \in BOOLEAN /\ cyc \in BOOLEAN
      /\ ack \in BOOLEAN
      /\ trapState \in {"RESET", "IDLE", "LOAD_STATUS", "STORE_STATUS", "STORE_EPC",
                        "STORE_TVAL", "LOAD_MIP", "STORE_MIP", "LOAD_TVEC"}
      /\ mretState \in {"RESET", "IDLE", "STORE_STATUS", "LOAD_EPC"}
  BY DEF Sound, ControlInv, Phases, TypeOK, CpuTypeOK, CsrTypeOK, BusTypeOK, RamTypeOK
<1>2. TrapLeft \in 0..14 /\ (TrapLeft > 0 <=> HandlingTrap)
  BY <1>1 DEF TrapLeft, HandlingTrap
<1>3. MretLeft \in 0..4 /\ (MretLeft > 0 <=> HandlingMret)
  BY <1>1 DEF MretLeft, HandlingMret
<1>4. BusLeft \in {0, 2, 4} /\ (BusLeft > 0 <=> busy)
  BY <1>1 DEF BusLeft, Handshake, Requested, Acknowledged, Quiet, WritingBack
<1>5. PortBusy \in 0..1 /\ (PortBusy > 0 <=> csrBusy)
  BY <1>1 DEF PortBusy
<1>6. aluLeft \in 0..AluTicks /\ (aluLeft > 0 <=> aluBusy)
  BY DEF AluFollowed
<1>7. PortLeft \in 0..19
  BY <1>2, <1>3, <1>5 DEF PortLeft
<1>8. Stay \in Nat
  BY <1>4, <1>6, <1>7, BenchAssumption DEF Stay
<1>9. state \notin {"POST_EXEC", "TRAP"} => aluLeft = 0
  BY <1>1, <1>6, BenchAssumption DEF Waiting
<1>10. state # "TRAP" => TrapLeft = 0
  BY <1>1, <1>2 DEF Waiting
<1>11. state # "MRET" => MretLeft = 0
  BY <1>1, <1>3 DEF Waiting
<1>12. state \notin {"TRAP", "MRET", "STORE2", "CSR1", "UPDATE_PC"} => PortBusy = 0
  BY <1>1, <1>5 DEF Waiting
<1>13. state \notin {"RESET", "FETCH", "FETCH_MORE", "LOAD2", "STORE2"} => BusLeft = 0
  BY <1>1, <1>4 DEF Waiting
<1>14. state \notin {"TRAP", "MRET"} => PortLeft = PortBusy
  BY <1>5, <1>10, <1>11 DEF PortLeft
<1> QED BY <1>2, <1>3, <1>4, <1>5, <1>6, <1>7, <1>8, <1>9, <1>10, <1>11, <1>12, <1>13, <1>14
        DEF StayFacts

\* The same after a step.
LEMMA StayIsNext == Sound' /\ AluFollowed' => StayFacts'
BY StayIs, PTL

\* The sum of the parts gets smaller when one of them does, or when the port
\* is taken once more in a tick of the bus.
LEMMA SumSmaller ==
  ASSUME NEW a \in Nat, NEW p \in Nat, NEW b \in Nat,
         NEW a2 \in Nat, NEW p2 \in Nat, NEW b2 \in Nat,
         a2 <= a, b2 <= b,
         \/ p2 <= p /\ (a2 < a \/ p2 < p \/ b2 < b)
         \/ p2 <= p + 1 /\ b2 + 2 <= b
  PROVE  a2 + p2 + b2 < a + p + b
OBVIOUS

-----------------------------------------------------------------------------
(* One tick of the wait. *)

\* A clock edge of the bench: the pins are free, the ALU counts down, and the
\* test has not ended.
BenchEdge(x, o) ==
  /\ Edge(x, o) /\ ~x.halt /\ ~x.rst /\ AluLength
  /\ state = "UPDATE_PC" => state' # "CPU_IDLE"

\* An access takes two ticks.
LEMMA BusStep ==
  ASSUME Sound, Sound', NEW x, NEW o, Edge(x, o)
  PROVE  /\ Requested => BusLeft' = 2 /\ ack' /\ cyc'
         /\ ~Requested /\ ~o.bus.en => BusLeft' = 0
         /\ Acknowledged => BusLeft' = 0
         /\ BusLeft > 0 => BusLeft' + 2 <= BusLeft
<1>1. /\ Handshake /\ Handshake' /\ cyc \in BOOLEAN /\ ack \in BOOLEAN /\ busOp \in BusOp
      /\ cyc' \in BOOLEAN /\ ack' \in BOOLEAN /\ o.bus.en \in BOOLEAN
  BY DEF Sound, ControlInv, Phases, TypeOK, CpuTypeOK, BusTypeOK, RamTypeOK, Edge, Outputs
<1>2. cyc' = (~ack /\ (o.bus.en \/ cyc))
  BY EdgeBus DEF BusRamTick, BusTick
<1>3. ASSUME Requested PROVE ack'
  <2>1. cyc /\ sel \in DataSel \cup {"TAG"} /\ ramState = "IDLE"
    BY <1>1, <1>3 DEF Requested, Handshake, MemSel, DataSel, BusOp, ReadOp, WriteOp
  <2>2. RamIdle(RamPins)
    BY <2>1 DEF Edge, RamTick, RamWriteWord, RamStop
  <2> QED BY <2>1, <2>2 DEF RamIdle, RamPins, RamInputs
<1>4. ASSUME Requested PROVE BusLeft' = 2 /\ ack' /\ cyc'
  <2>1. cyc' /\ ack'
    BY <1>1, <1>2, <1>3, <1>4 DEF Requested
  <2>2. Acknowledged' /\ ~Requested'
    BY <1>1, <2>1 DEF Handshake, Quiet, Requested, Acknowledged, WritingBack
  <2> QED BY <2>1, <2>2 DEF BusLeft
<1>5. ASSUME Acknowledged \/ (~Requested /\ ~o.bus.en) PROVE BusLeft' = 0
  <2>1. ~cyc'
    BY <1>1, <1>2, <1>5 DEF Handshake, Quiet, Requested, Acknowledged, WritingBack
  <2> QED BY <2>1 DEF BusLeft, Requested, Acknowledged
<1>6. BusLeft > 0 => BusLeft' + 2 <= BusLeft
  <2>1. CASE Requested
    BY <1>4, <2>1 DEF BusLeft
  <2>2. CASE ~Requested /\ Acknowledged
    BY <1>5, <2>2 DEF BusLeft
  <2>3. CASE ~Requested /\ ~Acknowledged
    BY <2>3 DEF BusLeft
  <2> QED BY <2>1, <2>2, <2>3
<1> QED BY <1>4, <1>5, <1>6

\* The sequencers and the CSR port get on.
LEMMA PortLeftStep ==
  ASSUME Sound, Sound', AluFollowed, AluFollowed', NEW x, NEW o, BenchEdge(x, o),
         state \in {"TRAP", "MRET"}
  PROVE  /\ PortLeft > 0 => PortLeft' < PortLeft
         /\ PortLeft = 0 => PortLeft' = 0
<1>1. /\ StayFacts /\ StayFacts' /\ RegisterEqs(x, o) /\ TableFacts(x, o) /\ ~x.rst
      /\ Waiting /\ csrBusy \in BOOLEAN
      /\ trapState \in {"RESET", "IDLE", "LOAD_STATUS", "STORE_STATUS", "STORE_EPC",
                        "STORE_TVAL", "LOAD_MIP", "STORE_MIP", "LOAD_TVEC"}
      /\ mretState \in {"RESET", "IDLE", "STORE_STATUS", "LOAD_EPC"}
  BY StayIs, StayIsNext, EdgeRegisters, TableRead
     DEF BenchEdge, Sound, ControlInv, TypeOK, CpuTypeOK, CsrTypeOK
<1>2. /\ trapState' = (IF csrBusy THEN trapState ELSE NextTrapState(x, o.trap))
      /\ mretState' = (IF csrBusy THEN mretState ELSE NextMretState(o.mret))
      /\ csrBusy' = (CsrMux(o.csr).en /\ ~csrBusy)
      /\ ~o.trap /\ ~o.mret /\ o.csr = NoCsr
      /\ trapState # "RESET" /\ mretState # "RESET"
  BY <1>1 DEF RegisterEqs, CsrTick, CsrRequest, TableFacts, DriveTable, CsrTable,
     TrapRequested, Waiting
<1>3. CASE csrBusy
  <2>1. trapState' = trapState /\ mretState' = mretState /\ ~csrBusy'
    BY <1>2, <1>3
  <2>2. TrapLeft' = TrapLeft /\ MretLeft' = MretLeft /\ PortBusy = 1 /\ PortBusy' = 0
    BY <1>3, <2>1 DEF TrapLeft, MretLeft, PortBusy
  <2> QED BY <1>1, <2>2 DEF StayFacts, PortLeft
<1>4. CASE ~csrBusy
  <2>1. PortBusy = 0 /\ PortBusy' \in 0..1
    BY <1>1, <1>4 DEF PortBusy, StayFacts
  <2>2. TrapLeft > 0 => TrapLeft' \in 0 .. TrapLeft - 2
    BY <1>1, <1>2, <1>4 DEF TrapLeft, NextTrapState
  <2>3. TrapLeft = 0 => TrapLeft' = 0
    BY <1>1, <1>2, <1>4 DEF TrapLeft, NextTrapState
  <2>4. MretLeft > 0 => MretLeft' \in 0 .. MretLeft - 2
    BY <1>1, <1>2, <1>4 DEF MretLeft, NextMretState
  <2>5. MretLeft = 0 => MretLeft' = 0
    BY <1>1, <1>2, <1>4 DEF MretLeft, NextMretState
  <2>6. TrapLeft = 0 /\ MretLeft = 0 => PortBusy' = 0
    <3>1. ASSUME TrapLeft = 0, MretLeft = 0 PROVE ~csrBusy'
      <4>1. ~HandlingTrap /\ ~HandlingMret
        BY <1>1, <3>1 DEF StayFacts
      <4>2. CsrMux(o.csr) = NoCsr
        BY <1>2, <4>1 DEF CsrMux
      <4>3. ~NoCsr.en
        BY DEF NoCsr
      <4> QED BY <1>2, <4>2, <4>3
    <3> QED BY <3>1 DEF PortBusy
  <2>7. TrapLeft \in 0..14 /\ MretLeft \in 0..4
    BY <1>1 DEF StayFacts
  <2>8. TrapLeft = 0 \/ MretLeft = 0
    BY <1>1 DEF StayFacts
  <2> QED BY <2>1, <2>2, <2>3, <2>4, <2>5, <2>6, <2>7, <2>8 DEF PortLeft
<1> QED BY <1>1, <1>3, <1>4

\* While the main machine waits, the wait gets shorter.
LEMMA StalledStep ==
  ASSUME Sound, Sound', AluFollowed, AluFollowed', NEW x, NEW o, BenchEdge(x, o), Stalled(x)
  PROVE  state' = state /\ Stay' < Stay
<1>1. /\ StayFacts /\ StayFacts' /\ RegisterEqs(x, o) /\ TableFacts(x, o) /\ ~x.rst /\ ~x.halt
      /\ Waiting /\ csrBusy \in BOOLEAN
  BY StayIs, StayIsNext, EdgeRegisters, TableRead
     DEF BenchEdge, Sound, ControlInv, TypeOK, CpuTypeOK, CsrTypeOK
<1>2. state' = state
  BY <1>1 DEF RegisterEqs
<1>3. state \in {"POST_EXEC", "TRAP", "MRET", "STORE2", "CSR1", "UPDATE_PC",
                 "RESET", "FETCH", "FETCH_MORE", "LOAD2"}
  BY <1>1 DEF Stalled, Waiting
<1>4. aluLeft' = IF aluLeft = 0 THEN 0 ELSE aluLeft - 1
  BY <1>3 DEF BenchEdge, AluLength
<1>5. BusLeft = 0 => BusLeft' = 0
  <2>1. ~o.bus.en
    BY <1>1, <1>3 DEF TableFacts, DriveTable
  <2> QED BY <2>1, BusStep DEF BenchEdge, BusLeft
<1>6. BusLeft > 0 => BusLeft' + 2 <= BusLeft
  BY BusStep DEF BenchEdge
<1>7. /\ aluLeft \in Nat /\ PortLeft \in Nat /\ BusLeft \in Nat
      /\ aluLeft' \in Nat /\ PortLeft' \in Nat /\ BusLeft' \in Nat
  BY <1>1, BenchAssumption DEF StayFacts
<1>8. PICK p2 \in Nat, b2 \in Nat : p2 = PortLeft' /\ b2 = BusLeft'
  BY <1>7, Zenon
<1>9. aluLeft' <= aluLeft /\ (aluLeft > 0 => aluLeft' < aluLeft)
  BY <1>4, <1>7
<1>10. (BusLeft = 0 => b2 = 0) /\ (BusLeft > 0 => b2 + 2 <= BusLeft)
  BY <1>5, <1>6, <1>8, Zenon
<1>11. b2 <= BusLeft
  BY <1>7, <1>10
<1>12. \/ p2 <= PortLeft /\ (aluLeft' < aluLeft \/ p2 < PortLeft \/ b2 < BusLeft)
       \/ p2 <= PortLeft + 1 /\ b2 + 2 <= BusLeft
  <2>1. CASE state \in {"TRAP", "MRET"}
    <3>1. aluBusy \/ csrBusy \/ HandlingTrap \/ HandlingMret
      BY <1>1, <2>1 DEF Stalled, Waiting
    <3>2. aluLeft > 0 \/ PortLeft > 0
      BY <1>1, <3>1 DEF StayFacts, PortLeft
    <3>3. (PortLeft > 0 => p2 < PortLeft) /\ (PortLeft = 0 => p2 = 0)
      BY <1>8, <2>1, PortLeftStep, Zenon
    <3> QED BY <1>7, <1>9, <3>2, <3>3
  <2>2. CASE state \notin {"TRAP", "MRET"}
    <3>1. PortLeft = PortBusy
      BY <1>1, <2>2 DEF StayFacts
    <3>2. p2 = IF csrBusy' THEN 1 ELSE 0
      <4>1. PortLeft' = PortBusy'
        BY <1>1, <1>2, <2>2 DEF StayFacts
      <4> QED BY <1>8, <4>1, Zenon DEF PortBusy
    <3>3. csrBusy => ~csrBusy'
      BY <1>1 DEF RegisterEqs, CsrTick, CsrRequest
    <3>4. CASE csrBusy
      BY <3>1, <3>2, <3>3, <3>4 DEF PortBusy
    <3>5. CASE ~csrBusy /\ ~csrBusy'
      <4>1. aluLeft > 0 \/ BusLeft > 0
        BY <1>1, <2>2, <3>5 DEF Stalled, Waiting, StayFacts
      <4> QED BY <1>7, <1>9, <1>10, <3>1, <3>2, <3>5, <4>1 DEF PortBusy
    <3>6. CASE ~csrBusy /\ csrBusy'
      <4>1. CsrMux(o.csr).en /\ ~HandlingTrap /\ ~HandlingMret
        BY <1>1, <2>2, <3>6 DEF RegisterEqs, CsrTick, CsrRequest, Waiting
      <4>2. state = "STORE2"
        BY <1>3, <4>1, PortUsed DEF BenchEdge, Sound
      <4>3. BusLeft > 0
        BY <1>1, <3>6, <4>2 DEF Stalled, Waiting, StayFacts
      <4> QED BY <1>7, <1>10, <3>1, <3>2, <3>6, <4>3 DEF PortBusy
    <3> QED BY <1>1, <3>4, <3>5, <3>6
  <2> QED BY <2>1, <2>2
<1>13. aluLeft' + p2 + b2 < aluLeft + PortLeft + BusLeft
  BY <1>7, <1>9, <1>11, <1>12, SumSmaller
<1>14. Stay' < Stay
  <2>1. Stay' = aluLeft' + PortLeft' + BusLeft' /\ Stay = aluLeft + PortLeft + BusLeft
    BY DEF Stay
  <2> QED BY <1>8, <1>13, <2>1, Zenon
<1> QED BY <1>2, <1>14

-----------------------------------------------------------------------------
(* The states one after the other. *)

WaitStates == {"POST_EXEC", "TRAP", "MRET", "STORE2", "CSR1", "UPDATE_PC",
               "RESET", "FETCH", "FETCH_MORE", "LOAD2"}

\* The successors of a state, while the test goes on.
Succ(s) ==
  CASE s \in {"RESET", "UPDATE_PC"} -> {"PRE_FETCH"}
    [] s = "PRE_FETCH" -> {"FETCH"}
    [] s = "FETCH" -> {"PREPAIR_UNALIGNED_FETCH", "DECODE"}
    [] s = "PREPAIR_UNALIGNED_FETCH" -> {"FETCH_MORE"}
    [] s = "FETCH_MORE" -> {"DECODE"}
    [] s = "DECODE" -> {"TRAP", "EXEC"}
    [] s = "EXEC" -> {"POST_EXEC", "LOAD1", "STORE1", "BRANCH2", "SYSTEM", "TRAP"}
    [] s = "LOAD1" -> {"LOAD2"}
    [] s = "STORE1" -> {"STORE2"}
    [] s = "SYSTEM" -> {"TRAP", "UPDATE_PC", "MRET", "CSR1"}
    [] s = "CSR1" -> {"CSR2"}
    [] OTHER -> {"UPDATE_PC"}

\* The wait a state s2 starts with when it is entered from s.
Wait(s, s2) ==
  CASE s2 \in {"FETCH", "FETCH_MORE", "LOAD2"} -> 4
    [] s2 \in {"STORE2", "MRET"} -> 5
    [] s2 = "CSR1" -> 1
    [] s2 = "UPDATE_PC" /\ s \in {"STORE2", "CSR2"} -> 1
    [] s2 = "POST_EXEC" \/ (s2 = "TRAP" /\ s = "EXEC") -> AluTicks
    [] s2 = "TRAP" /\ s # "EXEC" -> 15
    [] OTHER -> 0

\* The main machine waits on or takes its next state.
Goes(s, n, s2, n2) ==
  \/ s \in WaitStates /\ s2 = s /\ n2 < n
  \/ n = 0 /\ s2 \in Succ(s) /\ n2 <= Wait(s, s2)

FetchPhase == {"FETCH", "PREPAIR_UNALIGNED_FETCH", "FETCH_MORE", "DECODE", "EXEC"}
BenchStates == CpuStates \ {"CPU_IDLE"}

\* After EXEC, every tick brings FETCH nearer.
LEMMA FetchNearer ==
  ASSUME NEW s \in BenchStates \ (FetchPhase \cup {"PRE_FETCH"}), NEW n \in Nat,
         NEW s2, NEW n2 \in Nat, Goes(s, n, s2, n2)
  PROVE  n2 + TillFetch(s2) < n + TillFetch(s)
<1>1. CASE s2 = s /\ n2 < n
  <2>1. TillFetch(s) \in Nat
    BY DEF TillFetch
  <2> QED BY <1>1, <2>1
<1>2. CASE n = 0 /\ s2 \in Succ(s) /\ n2 <= Wait(s, s2)
  <2>1. CASE s \in {"RESET", "UPDATE_PC", "CSR1"}
    BY <1>2, <2>1 DEF Succ, Wait, TillFetch
  <2>4. CASE s \in {"LOAD1", "STORE1"}
    BY <1>2, <2>4 DEF Succ, Wait, TillFetch
  <2>2. CASE s = "SYSTEM"
    BY <1>2, <2>2 DEF Succ, Wait, TillFetch
  <2>3. CASE s \in {"POST_EXEC", "TRAP", "MRET", "LOAD2", "STORE2", "BRANCH2", "CSR2"}
    <3>1. s2 = "UPDATE_PC" /\ TillFetch(s) = 4 /\ TillFetch(s2) = 2
      BY <1>2, <2>3 DEF Succ, TillFetch
    <3>2. n2 <= 1
      BY <1>2, <3>1 DEF Wait
    <3> QED BY <1>2, <3>1, <3>2
  <2> QED BY <2>1, <2>2, <2>3, <2>4 DEF BenchStates, CpuStates, FetchPhase
<1> QED BY <1>1, <1>2 DEF Goes

\* From EXEC it is at most LongestExec ticks away.
LEMMA FetchFromExec ==
  ASSUME NEW s2, NEW n2 \in Nat, Goes("EXEC", 0, s2, n2)
  PROVE  n2 + TillFetch(s2) <= LongestExec
BY BenchAssumption DEF Goes, WaitStates, Succ, Wait, TillFetch, LongestExec

\* Until EXEC, every tick brings EXEC nearer.
LEMMA ExecNearer ==
  ASSUME NEW s \in (FetchPhase \ {"EXEC"}) \cup {"RESET", "PRE_FETCH", "TRAP", "UPDATE_PC"},
         NEW n \in Nat, NEW e \in BOOLEAN, NEW s2, NEW n2 \in Nat, NEW e2 \in BOOLEAN,
         Goes(s, n, s2, n2),
         s # "TRAP" /\ s2 # "TRAP" => e2 = e,
         s = "DECODE" /\ s2 = "TRAP" => e,
         s = "TRAP" /\ s2 = "UPDATE_PC" => ~e2
  PROVE  n2 + TillExec(s2, e2) < n + TillExec(s, e)
<1>1. CASE s2 = s /\ n2 < n
  <2>1. TillExec(s, e) \in Nat
    BY DEF TillExec
  <2>2. TillExec(s2, e2) = TillExec(s, e)
    BY <1>1 DEF TillExec
  <2> QED BY <1>1, <2>1, <2>2
<1>2. CASE n = 0 /\ s2 \in Succ(s) /\ n2 <= Wait(s, s2)
  BY <1>2 DEF Succ, Wait, TillExec, FetchPhase
<1> QED BY <1>1, <1>2 DEF Goes

\* Outside of EXEC, every tick brings the next word nearer, unless the next
\* state is FETCH.
LEMMA WordNearer ==
  ASSUME NEW s \in BenchStates, NEW n \in Nat, NEW s2, NEW n2 \in Nat,
         Goes(s, n, s2, n2), s = "EXEC" => n = 0, s # "PRE_FETCH"
  PROVE  n2 + TillWord(s2) < n + TillWord(s)
<1>0. TillWord(s) \in Nat /\ LongestExec \in Nat /\ LongestExec >= 20
  BY BenchAssumption DEF TillWord, TillFetch, LongestExec
<1>1. CASE s2 = s /\ n2 < n
  BY <1>0, <1>1
<1>2. CASE n = 0 /\ s2 \in Succ(s) /\ n2 <= Wait(s, s2) /\ s \in FetchPhase \ {"EXEC"}
  BY <1>0, <1>2 DEF Succ, Wait, TillWord, TillFetch, FetchPhase
<1>3. CASE n = 0 /\ s2 \in Succ(s) /\ n2 <= Wait(s, s2) /\ s = "EXEC"
  <2>1. n2 + TillFetch(s2) <= LongestExec
    BY <1>3, FetchFromExec DEF Goes
  <2>2. TillWord(s2) = TillFetch(s2) /\ TillWord(s) = 1 + LongestExec
    BY <1>3 DEF Succ, TillWord
  <2>3. TillFetch(s2) \in Nat
    BY DEF TillFetch
  <2> QED BY <1>0, <1>3, <2>1, <2>2, <2>3
<1>4. CASE n = 0 /\ s2 \in Succ(s) /\ n2 <= Wait(s, s2) /\ s \notin FetchPhase
  <2>1. n2 + TillFetch(s2) < n + TillFetch(s)
    BY <1>4, FetchNearer
  <2>2. s2 \notin FetchPhase
    BY <1>4 DEF Succ, BenchStates, CpuStates, FetchPhase
  <2>3. TillWord(s2) = TillFetch(s2) /\ TillWord(s) = TillFetch(s)
    BY <1>4, <2>2 DEF TillWord, FetchPhase
  <2> QED BY <2>1, <2>3
<1> QED BY <1>1, <1>2, <1>3, <1>4 DEF Goes

-----------------------------------------------------------------------------
(* The edges of the bench follow these states. *)

\* A state that does not wait is followed by one of its successors.
LEMMA Successor ==
  ASSUME Sound, NEW x, NEW o, BenchEdge(x, o), ~Stalled(x), state # "CPU_IDLE"
  PROVE  state' \in Succ(state)
<1>1. RegisterEqs(x, o) /\ TableFacts(x, o) /\ ~x.rst
  BY EdgeRegisters, TableRead DEF BenchEdge, Sound
<1>2. state' = o.next
  BY <1>1 DEF RegisterEqs
<1>3. state = "UPDATE_PC" => state' # "CPU_IDLE"
  BY DEF BenchEdge
<1> QED BY <1>1, <1>2, <1>3 DEF TableFacts, NextTable, CpuStates, Succ, TrapRequested

\* Its wait is bounded.
LEMMA WaitBegins ==
  ASSUME Sound, Sound', AluFollowed, AluFollowed', NEW x, NEW o, BenchEdge(x, o), ~Stalled(x),
         state # "CPU_IDLE"
  PROVE  Stay = 0 /\ Stay' <= Wait(state, state')
<1>1. /\ StayFacts /\ StayFacts' /\ RegisterEqs(x, o) /\ TableFacts(x, o) /\ ~x.rst
      /\ Waiting /\ csrBusy \in BOOLEAN
  BY StayIs, StayIsNext, EdgeRegisters, TableRead
     DEF BenchEdge, Sound, ControlInv, TypeOK, CpuTypeOK, CsrTypeOK
<1>2. ~aluBusy /\ ~busy /\ ~csrBusy /\ ~HandlingTrap /\ ~HandlingMret
  BY DEF Stalled
<1>3. aluLeft = 0 /\ TrapLeft = 0 /\ MretLeft = 0 /\ PortBusy = 0 /\ BusLeft = 0
  BY <1>1, <1>2, BenchAssumption DEF StayFacts
<1>4. Stay = 0
  BY <1>3 DEF Stay, PortLeft
<1>5. state' \in Succ(state) /\ state \in CpuStates
  BY Successor DEF Sound, TypeOK, CpuTypeOK
<1>6. PICK t2, m2, c2, b2 : t2 = TrapLeft' /\ m2 = MretLeft' /\ c2 = PortBusy' /\ b2 = BusLeft'
  BY Zenon
<1>7. /\ t2 \in 0..14 /\ m2 \in 0..4 /\ c2 \in 0..1 /\ b2 \in {0, 2, 4} /\ aluLeft' \in 0..AluTicks
      /\ state' \notin {"POST_EXEC", "TRAP"} => aluLeft' = 0
      /\ state' # "TRAP" => t2 = 0
      /\ state' # "MRET" => m2 = 0
      /\ state' \notin {"TRAP", "MRET", "STORE2", "CSR1", "UPDATE_PC"} => c2 = 0
      /\ state' \notin {"RESET", "FETCH", "FETCH_MORE", "LOAD2", "STORE2"} => b2 = 0
  BY <1>1, <1>6, Zenon DEF StayFacts
<1>8. aluLeft' # 0 => state = "EXEC"
  BY <1>3, BenchAssumption DEF BenchEdge, AluLength
<1>9. c2 # 0 => \/ state \in {"STORE1", "STORE2", "CSR2"}
                \/ state \in {"DECODE", "SYSTEM"} /\ state' \in {"TRAP", "MRET", "CSR1"}
  <2>1. csrBusy' => \/ state \in {"STORE1", "STORE2", "CSR2"}
                    \/ state \in {"DECODE", "SYSTEM"} /\ TrapRequested(x)
                    \/ state = "SYSTEM" /\ insn.sys \in {"MRET", "CSRRW", "CSRRS", "CSRRC"}
    <3>1. csrBusy' => CsrMux(o.csr).en
      BY <1>1 DEF RegisterEqs, CsrTick, CsrRequest
    <3> QED BY <1>2, <3>1, PortUsed DEF BenchEdge, Sound
  <2>2. /\ state \in {"DECODE", "SYSTEM"} /\ TrapRequested(x) => state' = "TRAP"
        /\ state = "SYSTEM" /\ insn.sys \in {"MRET", "CSRRW", "CSRRS", "CSRRC"}
             => state' \in {"MRET", "CSR1"}
    BY <1>1 DEF RegisterEqs, TableFacts, NextTable
  <2>3. ~csrBusy' => c2 = 0
    BY <1>6, Zenon DEF PortBusy
  <2> QED BY <2>1, <2>2, <2>3
<1>10. t2 # 0 => state \in {"DECODE", "SYSTEM"}
  <2>1. trapState \in {"RESET", "IDLE"}
    BY <1>2 DEF HandlingTrap
  <2>2. state \notin {"DECODE", "SYSTEM"} => ~o.trap
    BY <1>1 DEF TableFacts, DriveTable, TrapRequested
  <2>3. state \notin {"DECODE", "SYSTEM"} => trapState' = "IDLE"
    BY <1>1, <1>2, <2>1, <2>2 DEF RegisterEqs, NextTrapState
  <2>4. trapState' = "IDLE" => t2 = 0
    BY <1>6 DEF TrapLeft
  <2> QED BY <2>3, <2>4
<1>11. aluLeft' + (t2 + m2 + c2) + b2 <= Wait(state, state')
  <2>1. CASE state' = "TRAP"
    <3>1. m2 = 0 /\ b2 = 0
      BY <1>7, <2>1
    <3>2. CASE state = "EXEC"
      <4>1. t2 = 0 /\ c2 = 0
        BY <1>9, <1>10, <3>2
      <4>2. Wait(state, state') = AluTicks
        BY <2>1, <3>2 DEF Wait
      <4>3. aluLeft' \in Nat /\ aluLeft' <= AluTicks
        BY <1>7, BenchAssumption
      <4>4. aluLeft' + (t2 + m2 + c2) + b2 = aluLeft'
        <5>1. t2 + m2 + c2 = 0
          BY <3>1, <4>1
        <5>2. aluLeft' + 0 + 0 = aluLeft'
          <6>1. \A n \in Nat : n + 0 + 0 = n
            OBVIOUS
          <6> QED BY <4>3, <6>1, Zenon
        <5> QED BY <3>1, <5>1, <5>2, Zenon
      <4> QED BY <4>2, <4>3, <4>4, Zenon
    <3>3. CASE state # "EXEC"
      <4>1. aluLeft' = 0
        BY <1>8, <3>3
      <4>2. Wait(state, state') = 15
        BY <2>1, <3>3 DEF Wait
      <4> QED BY <1>7, <3>1, <4>1, <4>2
    <3> QED BY <3>2, <3>3
  <2>2. CASE state' = "UPDATE_PC"
    <3>1. aluLeft' + (t2 + m2 + c2) + b2 = c2
      BY <1>7, <2>2
    <3>2. c2 # 0 => state \in {"STORE2", "CSR2"}
      BY <1>5, <1>9, <2>2 DEF Succ
    <3> QED BY <1>7, <2>2, <3>1, <3>2 DEF Wait
  <2>3. CASE state' \notin {"TRAP", "UPDATE_PC"}
    <3>1. CASE state' \in {"FETCH", "FETCH_MORE", "LOAD2", "STORE2"}
      BY <1>7, <3>1 DEF Wait
    <3>2. CASE state' = "POST_EXEC"
      BY <1>7, <3>2, BenchAssumption DEF Wait
    <3>3. CASE state' \in {"MRET", "CSR1"}
      BY <1>7, <3>3 DEF Wait
    <3>4. CASE state' \notin {"TRAP", "UPDATE_PC", "FETCH", "FETCH_MORE", "LOAD2", "STORE2",
                              "POST_EXEC", "MRET", "CSR1"}
      <4>1. state' # "RESET"
        BY <1>5 DEF Succ, CpuStates
      <4>2. Wait(state, state') = 0
        BY <3>4 DEF Wait
      <4>3. aluLeft' = 0 /\ t2 = 0 /\ m2 = 0 /\ c2 = 0 /\ b2 = 0
        BY <1>7, <3>4, <4>1
      <4> QED BY <4>2, <4>3
    <3> QED BY <2>3, <3>1, <3>2, <3>3, <3>4
  <2> QED BY <2>1, <2>2, <2>3
<1>12. Stay' = aluLeft' + (t2 + m2 + c2) + b2
  BY <1>6, Zenon DEF Stay, PortLeft
<1>13. Stay' <= Wait(state, state')
  BY <1>11, <1>12, Zenon
<1> QED BY <1>4, <1>13

\* Every edge of the bench is one tick of the wait or takes the next state.
LEMMA EdgeGoes ==
  ASSUME Sound, Sound', AluFollowed, AluFollowed', NEW x, NEW o, BenchEdge(x, o),
         state # "CPU_IDLE"
  PROVE  Goes(state, Stay, state', Stay')
<1>1. CASE Stalled(x)
  <2>1. state' = state /\ Stay' < Stay
    BY <1>1, StalledStep
  <2>2. state \in WaitStates
    BY <1>1 DEF BenchEdge, Stalled, Sound, ControlInv, Waiting, WaitStates
  <2> QED BY <2>1, <2>2, Zenon DEF Goes
<1>2. CASE ~Stalled(x)
  <2>1. state' \in Succ(state) /\ Stay = 0 /\ Stay' <= Wait(state, state')
    BY <1>2, Successor, WaitBegins
  <2> QED BY <2>1, Zenon DEF Goes
<1> QED BY <1>1, <1>2

\* The interrupt enable stays as it is on the way to EXEC, and the trap
\* sequencer clears it.
LEMMA EnableStep ==
  ASSUME Sound, NEW x, NEW o, BenchEdge(x, o)
  PROVE  /\ state \in {"RESET", "PRE_FETCH", "FETCH", "PREPAIR_UNALIGNED_FETCH", "FETCH_MORE",
                       "UPDATE_PC"} => irqEn' = irqEn
         /\ state = "DECODE" => irqEn' = irqEn
         /\ state = "DECODE" /\ state' = "TRAP" => irqEn /\ trapState' = "LOAD_STATUS"
         /\ state = "TRAP" /\ trapState # "STORE_STATUS" => irqEn' = irqEn
         /\ state = "TRAP" /\ trapState = "STORE_STATUS" => ~irqEn'
<1>1. /\ RegisterEqs(x, o) /\ TableFacts(x, o) /\ ~x.rst /\ Waiting /\ TypeOK /\ Edge(x, o)
      /\ ControlInv
  BY EdgeRegisters, TableRead DEF BenchEdge, Sound, ControlInv
<1>2. irqEn' = IF CsrMux(o.csr).we /\ CsrMux(o.csr).addr = "MSTATUS"
               THEN MIE \in CsrMux(o.csr).data ELSE irqEn
  BY <1>1, ShadowStep
<1>3. state \in {"RESET", "PRE_FETCH", "FETCH", "PREPAIR_UNALIGNED_FETCH", "FETCH_MORE",
                 "UPDATE_PC"} => irqEn' = irqEn
  <2>1. state \notin {"TRAP", "MRET"} => CsrMux(o.csr) = o.csr
    BY <1>1 DEF Waiting, CsrMux
  <2>2. state \in {"RESET", "PRE_FETCH", "FETCH", "PREPAIR_UNALIGNED_FETCH", "FETCH_MORE",
                   "UPDATE_PC"} => o.csr = NoCsr
    BY <1>1 DEF TableFacts, CsrTable
  <2> QED BY <1>2, <2>1, <2>2 DEF NoCsr
<1>4. state = "DECODE" => irqEn' = irqEn
  <2>1. state = "DECODE" => CsrMux(o.csr) = o.csr
    BY <1>1 DEF Waiting, CsrMux
  <2>2. state = "DECODE" => o.csr = NoCsr \/ \E d : o.csr = CsrWrite("MCAUSE", d)
    BY <1>1 DEF TableFacts, CsrTable
  <2>3. ~NoCsr.we /\ \A d : CsrWrite("MCAUSE", d).addr # "MSTATUS"
    BY DEF NoCsr, CsrWrite
  <2> QED BY <1>2, <2>1, <2>2, <2>3
<1>5. state = "DECODE" /\ state' = "TRAP" => irqEn /\ trapState' = "LOAD_STATUS"
  <2> SUFFICES ASSUME state = "DECODE", state' = "TRAP"
               PROVE  irqEn /\ trapState' = "LOAD_STATUS"
    OBVIOUS
  <2>1. TrapRequested(x)
    BY <1>1 DEF RegisterEqs, TableFacts, NextTable
  <2>2. trapState = "IDLE" /\ ~csrBusy /\ o.trap
    BY <1>1, <2>1 DEF Waiting, HandlingTrap, TypeOK, CpuTypeOK, TableFacts, DriveTable
  <2> QED BY <1>1, <2>1, <2>2 DEF TrapRequested, RegisterEqs, NextTrapState
<1>6. state = "TRAP" /\ trapState = "STORE_STATUS" => ~irqEn'
  <2>1. state = "TRAP" /\ trapState = "STORE_STATUS" =>
          CsrMux(o.csr) = CsrWrite("MSTATUS", (csrData \ {MIE, MPIE})
                                                 \cup {b \in {MPIE} : MIE \in csrData})
    BY <1>1, TrapPort
  <2>2. MIE \notin (csrData \ {MIE, MPIE}) \cup {b \in {MPIE} : MIE \in csrData}
    BY DEF MIE, MPIE
  <2>3. state = "TRAP" /\ trapState = "STORE_STATUS" =>
          CsrMux(o.csr).we /\ CsrMux(o.csr).addr = "MSTATUS" /\ MIE \notin CsrMux(o.csr).data
    BY <2>1, <2>2 DEF CsrWrite
  <2> QED BY <1>2, <2>3
<1>7. state = "TRAP" /\ trapState # "STORE_STATUS" => irqEn' = irqEn
  <2> SUFFICES ASSUME state = "TRAP", trapState # "STORE_STATUS" PROVE irqEn' = irqEn
    OBVIOUS
  <2>1. /\ trapState \in {"LOAD_STATUS", "LOAD_MIP", "LOAD_TVEC"} => ~CsrMux(o.csr).we
        /\ trapState = "IDLE" => ~CsrMux(o.csr).we
        /\ trapState \in {"STORE_EPC", "STORE_TVAL", "STORE_MIP"}
             => CsrMux(o.csr).addr # "MSTATUS"
        /\ trapState # "RESET"
    BY <1>1, TrapPort DEF NoCsr, CsrRead, CsrWrite
  <2>2. trapState \in {"RESET", "IDLE", "LOAD_STATUS", "STORE_STATUS", "STORE_EPC",
                       "STORE_TVAL", "LOAD_MIP", "STORE_MIP", "LOAD_TVEC"}
    BY <1>1 DEF TypeOK, CpuTypeOK
  <2>3. ~(CsrMux(o.csr).we /\ CsrMux(o.csr).addr = "MSTATUS")
    BY <2>1, <2>2
  <2> QED BY <1>2, <2>3
<1> QED BY <1>3, <1>4, <1>5, <1>6, <1>7

\* PRE_FETCH asks for the word at pc, and the word arrives in the next tick.
LEMMA WordComes ==
  ASSUME Sound, Sound', NEW x, NEW o, BenchEdge(x, o)
  PROVE  /\ state = "PRE_FETCH" => Coming'
         /\ Coming => ValidPc'
         /\ state # "PRE_FETCH" => ~Coming'
<1>1. /\ RegisterEqs(x, o) /\ TableFacts(x, o) /\ ~x.rst /\ ~x.halt /\ Waiting /\ Phases
      /\ Handshake' /\ Handshake /\ cyc \in BOOLEAN /\ ack \in BOOLEAN
      /\ cyc' \in BOOLEAN /\ ack' \in BOOLEAN
  BY EdgeRegisters, TableRead DEF BenchEdge, Sound, ControlInv, Phases, TypeOK, CpuTypeOK,
     BusTypeOK, RamTypeOK
<1>2. cyc' = (~ack /\ (o.bus.en \/ cyc)) /\ RamTick(RamPins)
  BY EdgeBus DEF BenchEdge, BusRamTick, BusTick, Edge
<1>3. ASSUME state = "PRE_FETCH" PROVE Coming'
  <2>1. Quiet /\ o.bus.en /\ ~Stalled(x)
    BY <1>1, <1>3 DEF Phases, AccessStates, TableFacts, DriveTable, Stalled, Waiting
  <2>2. state' = "FETCH" /\ cyc'
    BY <1>1, <1>2, <1>3, <2>1 DEF RegisterEqs, TableFacts, NextTable, Quiet
  <2>3. ~ack'
    BY <1>2, <2>1 DEF RamTick, RamIdle, RamWriteWord, RamStop, Quiet, RamPins, RamInputs
  <2> QED BY <2>2, <2>3 DEF Coming
<1>4. ASSUME Coming PROVE ValidPc'
  <2>1. Requested /\ state = "FETCH" /\ Stalled(x)
    BY <1>1, <1>4 DEF Coming, Handshake, Quiet, Requested, Acknowledged, WritingBack, Stalled
  <2>2. state' = "FETCH"
    BY <1>1, <2>1 DEF RegisterEqs
  <2>3. ack' /\ cyc'
    BY <2>1, BusStep DEF BenchEdge
  <2> QED BY <2>2, <2>3 DEF ValidPc
<1>5. ASSUME state # "PRE_FETCH", Coming' PROVE FALSE
  <2>1. state = "FETCH"
    BY <1>1, <1>5 DEF Coming, RegisterEqs, TableFacts, NextTable, CpuStates, TrapRequested
  <2>2. ~o.bus.en
    BY <1>1, <2>1 DEF TableFacts, DriveTable
  <2>3. ~ack /\ cyc
    BY <1>1, <1>2, <1>5, <2>2 DEF Coming
  <2>4. Coming
    BY <2>1, <2>3 DEF Coming
  <2> QED BY <1>4, <1>5, <2>4 DEF ValidPc, Coming
<1> QED BY <1>3, <1>4, <1>5

-----------------------------------------------------------------------------
(* The ticks of the bench are such edges. *)

\* A test that has not ended goes on to the next instruction.
LEMMA UpdateGoesOn ==
  ASSUME PinsFree, Tick, state = "UPDATE_PC", ~testFinished
  PROVE  state' \in {"UPDATE_PC", "PRE_FETCH"}
<1>1. PICK timer \in TimerLevels, host \in HostPins : CpuTick(CpuPins(timer, host))
  BY DEF Tick
<1> DEFINE x == CpuPins(timer, host)
<1>2. ~x.single /\ ~x.rst
  BY DEF PinsFree, CpuPins
<1> HIDE DEF x
<1>3. StateUpdatePc(x)
  BY <1>1 DEF x, CpuTick, StateReset, StatePreFetch, StateFetch, StatePrepairUnalignedFetch,
     StateFetchMore, StateDecode, StateExec, StatePostExec, StateLoad1, StateLoad2,
     StateStore1, StateStore2, StateBranch2, StateSystem, StateCsr1, StateCsr2, StateTrap,
     StateCpuIdle
<1>4. ~AddrMisaligned
  BY DEF AddrMisaligned, NextPc
<1>5. CpuClock(x, [Defaults EXCEPT !.next = "PRE_FETCH"])
  BY <1>2, <1>3, <1>4 DEF StateUpdatePc
<1>6. [Defaults EXCEPT !.next = "PRE_FETCH"].next = "PRE_FETCH"
  BY DEF Defaults
<1> QED BY <1>2, <1>5, <1>6 DEF CpuClock, MainRegisters

\* Every tick of the bench is an edge with free pins.
LEMMA BenchTickEdge ==
  ASSUME Sound, PinsFree, Tick, ~testFinished, AluLength
  PROVE  \E x, o : BenchEdge(x, o)
<1>1. PICK host \in HostPins : \E x, o : Edge(x, o) /\ x.halt = host.halt /\ x.rst = host.rst
  BY TickEdge DEF Sound
<1>2. PICK x, o : Edge(x, o) /\ x.halt = host.halt /\ x.rst = host.rst
  BY <1>1
<1>3. ~x.halt /\ ~x.rst
  BY <1>2 DEF PinsFree
<1>4. state = "UPDATE_PC" => state' # "CPU_IDLE"
  BY UpdateGoesOn
<1> QED BY <1>2, <1>3, <1>4 DEF BenchEdge

\* The ALU is busy as long as it has something to do.
LEMMA AluFollowedStep ==
  ASSUME AluFollowed, AluLength
  PROVE  AluFollowed'
<1>1. aluLeft \in 0..AluTicks /\ AluTicks \in Nat
  BY BenchAssumption DEF AluFollowed
<1>2. aluLeft' \in 0..AluTicks
  <2>1. CASE state = "EXEC" /\ insn.slow
    BY <1>1, <2>1 DEF AluLength
  <2>2. CASE ~(state = "EXEC" /\ insn.slow)
    BY <1>1, <2>2 DEF AluLength
  <2> QED BY <2>1, <2>2
<1>3. aluBusy' <=> aluLeft' > 0
  BY DEF AluLength
<1> QED BY <1>2, <1>3 DEF AluFollowed

\* checkFWD follows the main machine.
LEMMA FollowedStep ==
  ASSUME Sound, Sound', Followed, AluFollowed', NEW x, NEW o, BenchEdge(x, o), CheckFWD
  PROVE  Followed'
<1>1. /\ RegisterEqs(x, o) /\ TableFacts(x, o) /\ ~x.rst /\ Waiting /\ Flags
      /\ execDone \in BOOLEAN /\ state \in CpuStates /\ AluFollowed /\ StayFacts
  BY EdgeRegisters, TableRead, StayIs
     DEF BenchEdge, Sound, ControlInv, TypeOK, CpuTypeOK, Followed
<1>2. /\ state' \in Succ(state) \/ (state' = state /\ state \in WaitStates)
      /\ state # "CPU_IDLE"
  <2>1. Goes(state, Stay, state', Stay') /\ state # "CPU_IDLE"
    BY <1>1, EdgeGoes DEF Followed
  <2> QED BY <2>1, Zenon DEF Goes
<1>3. state' # "CPU_IDLE"
  BY <1>1, <1>2 DEF Succ, CpuStates, WaitStates
<1>4. /\ execDone' = (IF state \notin {"PRE_FETCH", "EXEC"} THEN execDone ELSE o.done)
      /\ o.done <=> state = "EXEC"
  BY <1>1 DEF RegisterEqs, TableFacts, DriveTable
<1>5. fwdState' = IF FwdMoved \/ state = "FETCH" THEN state ELSE fwdState
  BY DEF CheckFWD
<1>6. /\ fwdState \in {"NONE", "FETCH", "EXEC"}
      /\ state = "FETCH" => fwdState' = "FETCH"
      /\ state = "EXEC" => fwdState' = "EXEC"
      /\ state \notin {"FETCH", "EXEC"} => fwdState' = fwdState
  BY <1>5 DEF FwdMoved, Followed
<1>7. fwdState' \in {"NONE", "FETCH", "EXEC"}
  BY <1>6
<1>8. state' = "RESET" => fwdState' = "NONE" /\ ~irqEn' /\ ~execDone'
  <2>1. state' = "RESET" => state = "RESET"
    BY <1>1, <1>2 DEF Succ, CpuStates
  <2>2. state = "RESET" => irqEn' = irqEn
    BY EnableStep
  <2> QED BY <1>4, <1>6, <2>1, <2>2 DEF Followed
<1>9. state' \in {"PREPAIR_UNALIGNED_FETCH", "FETCH_MORE", "DECODE", "EXEC"}
        => fwdState' = "FETCH"
  <2>1. state' \in {"PREPAIR_UNALIGNED_FETCH", "FETCH_MORE", "DECODE", "EXEC"} =>
          state \in {"FETCH", "PREPAIR_UNALIGNED_FETCH", "FETCH_MORE", "DECODE"}
    BY <1>1, <1>2 DEF Succ, CpuStates, WaitStates
  <2> QED BY <1>6, <2>1 DEF Followed
<1>10. state' \in AfterExec => fwdState' = "EXEC"
  <2>1. state' \in AfterExec => state \in AfterExec \cup {"EXEC"}
    BY <1>1, <1>2 DEF Succ, CpuStates, WaitStates, AfterExec
  <2>2. state \in AfterExec => state \notin {"FETCH", "EXEC"}
    BY DEF AfterExec
  <2> QED BY <1>6, <2>1, <2>2 DEF Followed
<1>11. state' \in {"TRAP", "UPDATE_PC", "PRE_FETCH"} => (execDone' <=> fwdState' = "EXEC")
  <2>1. state' \in {"TRAP", "UPDATE_PC", "PRE_FETCH"} =>
          state \in AfterExec \cup {"EXEC", "DECODE", "TRAP", "UPDATE_PC", "RESET"}
    BY <1>1, <1>2 DEF Succ, CpuStates, WaitStates, AfterExec
  <2>2. CASE state = "EXEC"
    BY <1>4, <1>6, <2>2
  <2>3. CASE state = "DECODE"
    BY <1>1, <1>4, <1>6, <2>3 DEF Flags, Followed
  <2>4. CASE state \in AfterExec
    BY <1>1, <1>4, <1>6, <2>4 DEF Flags, Followed, AfterExec
  <2>5. CASE state \in {"TRAP", "UPDATE_PC", "RESET"}
    BY <1>4, <1>6, <2>5 DEF Followed
  <2> QED BY <2>1, <2>2, <2>3, <2>4, <2>5
<1>12. state' = "TRAP" /\ ~execDone' /\ trapState' \notin {"LOAD_STATUS", "STORE_STATUS"}
         => ~irqEn'
  <2> SUFFICES ASSUME state' = "TRAP", ~execDone',
                      trapState' \notin {"LOAD_STATUS", "STORE_STATUS"}
               PROVE  ~irqEn'
    OBVIOUS
  <2>1. state \in {"DECODE", "EXEC", "SYSTEM", "TRAP"}
    BY <1>1, <1>2 DEF Succ, CpuStates
  <2>2. state \notin {"EXEC", "SYSTEM"}
    BY <1>1, <1>4 DEF Flags
  <2>3. state # "DECODE"
    BY EnableStep
  <2>4. state = "TRAP" /\ ~execDone
    BY <1>4, <2>1, <2>2, <2>3
  <2>5. CASE trapState = "STORE_STATUS"
    BY <2>4, <2>5, EnableStep
  <2>6. CASE trapState = "LOAD_STATUS"
    BY <1>1, <2>6 DEF RegisterEqs, NextTrapState
  <2>7. CASE trapState \notin {"LOAD_STATUS", "STORE_STATUS"}
    <3>1. ~irqEn /\ irqEn' = irqEn
      BY <2>4, <2>7, EnableStep DEF Followed
    <3> QED BY <3>1
  <2> QED BY <2>5, <2>6, <2>7
<1> QED BY <1>3, <1>7, <1>8, <1>9, <1>10, <1>11, <1>12 DEF Followed

-----------------------------------------------------------------------------
(* The counters. *)

ShortFetch == state = "FETCH" => Stay <= 4 /\ (ack => Stay <= 2)

\* A fetch is over after two ticks.
LEMMA FetchStay == Sound /\ AluFollowed => ShortFetch
<1> SUFFICES ASSUME Sound, AluFollowed, state = "FETCH" PROVE Stay <= 4 /\ (ack => Stay <= 2)
  BY DEF ShortFetch
<1>1. StayFacts
  BY StayIs
<1>2. aluLeft = 0 /\ PortLeft = 0 /\ BusLeft \in {0, 2, 4}
  BY <1>1 DEF StayFacts
<1>3. ack => BusLeft # 4
  BY DEF BusLeft, Requested
<1> QED BY <1>2, <1>3 DEF Stay

\* The same after a step.
LEMMA FetchStayNext == Sound' /\ AluFollowed' => ShortFetch'
BY FetchStay, PTL

\* The types of the ranks.
LEMMA RankTypes ==
  /\ LongestExec \in Nat /\ LongestExec >= 20
  /\ \A s : TillFetch(s) \in Nat /\ TillWord(s) \in Nat
  /\ \A s, e : TillExec(s, e) \in Nat
<1>1. LongestExec \in Nat /\ LongestExec >= 20
  BY BenchAssumption DEF LongestExec
<1>2. \A s : TillFetch(s) \in Nat
  BY DEF TillFetch
<1>3. \A s : TillWord(s) \in Nat
  BY <1>1, <1>2 DEF TillWord
<1>4. \A s, e : TillExec(s, e) \in Nat
  BY DEF TillExec
<1> QED BY <1>1, <1>2, <1>3, <1>4

\* A counter that is not reset has not reached its threshold yet.
LEMMA NotDeadYet ==
  ASSUME Sound, Followed, InTime, Generous, CheckFWD
  PROVE  fwdCntr' \in Nat /\ fwdCntr' <= BraindeadAfter
<1>1. Stay \in Nat /\ AluFollowed /\ state \in CpuStates
  BY StayIs DEF StayFacts, Followed, Sound, TypeOK, CpuTypeOK
<1>2. CASE FwdMoved
  BY <1>2, RankTypes, BenchAssumption DEF CheckFWD, Generous
<1>3. CASE ~FwdMoved
  <2>1. CASE fwdState = "EXEC"
    <3>1. state \notin FetchPhase /\ state # "CPU_IDLE"
      BY <1>3, <2>1 DEF FwdMoved, Followed, FetchPhase
    <3>2. TillFetch(state) \in Nat /\ TillFetch(state) >= 1
      BY <1>1, <3>1 DEF TillFetch, FetchPhase, CpuStates
    <3>3. fwdCntr + (Stay + TillFetch(state)) <= BraindeadAfter
      BY <2>1, <3>1 DEF InTime, Pending, ToFetch, FetchPhase
    <3> QED BY <1>1, <1>3, <3>2, <3>3, BenchAssumption DEF CheckFWD, InTime
  <2>2. CASE fwdState # "EXEC"
    <3>1. state \in (FetchPhase \ {"EXEC"}) \cup {"RESET", "PRE_FETCH", "TRAP", "UPDATE_PC"}
      BY <1>1, <1>3, <2>2 DEF FwdMoved, Followed, FetchPhase, AfterExec, CpuStates
    <3>2. TillExec(state, irqEn) \in Nat /\ TillExec(state, irqEn) >= 1
      BY <3>1 DEF TillExec, FetchPhase
    <3>3. fwdCntr + (Stay + TillExec(state, irqEn)) <= BraindeadAfter
      BY <2>2 DEF InTime, Pending, ToExec
    <3> QED BY <1>1, <1>3, <3>2, <3>3, BenchAssumption DEF CheckFWD, InTime
  <2> QED BY <2>1, <2>2
<1> QED BY <1>2, <1>3

\* The count of checkFWD stays in time.
LEMMA FwdStep ==
  ASSUME Sound, Sound', Followed, Followed', InTime, Generous, NEW x, NEW o, BenchEdge(x, o),
         CheckFWD
  PROVE  fwdCntr' + Pending' <= BraindeadAfter
<1>1. /\ Stay \in Nat /\ Stay' \in Nat /\ state \in CpuStates /\ irqEn \in BOOLEAN
      /\ irqEn' \in BOOLEAN /\ state # "CPU_IDLE" /\ fwdCntr \in Nat
  BY StayIs, StayIsNext DEF StayFacts, Followed, Sound, TypeOK, CpuTypeOK, CsrTypeOK, InTime
<1>2. Goes(state, Stay, state', Stay')
  BY EdgeGoes DEF Followed
<1>3. PICK n2 \in Nat : n2 = Stay'
  BY <1>1, Zenon
<1>4. Goes(state, Stay, state', n2)
  BY <1>2, <1>3, Zenon
<1>5. PICK f2, e2 : f2 = ToFetch' /\ e2 = ToExec'
  BY Zenon
<1>6. f2 = (IF state' = "FETCH" THEN 0 ELSE n2 + TillFetch(state')) /\ e2 = n2 + TillExec(state', irqEn')
  BY <1>3, <1>5, Zenon DEF ToFetch, ToExec
<1>7. f2 \in Nat /\ e2 \in Nat
  BY <1>6, RankTypes
<1>8. fwdCntr' + (IF fwdState' = "EXEC" THEN f2 ELSE e2) <= BraindeadAfter
  <2>1. CASE state = "EXEC"
    <3>1. fwdState' = "EXEC" /\ fwdCntr' = 0
      BY <2>1 DEF Followed, CheckFWD, FwdMoved
    <3>2. Stay = 0
      BY <1>4, <2>1, StayIs DEF Followed, StayFacts, Stay
    <3>3. n2 + TillFetch(state') <= LongestExec
      BY <1>4, <2>1, <3>2, FetchFromExec
    <3> QED BY <1>6, <1>7, <3>1, <3>3, RankTypes, BenchAssumption DEF Generous
  <2>2. CASE state # "EXEC" /\ fwdState = "EXEC" /\ state # "FETCH"
    <3>1. state \in BenchStates \ FetchPhase
      BY <1>1, <2>2 DEF Followed, BenchStates, FetchPhase
    <3>2. fwdState' = "EXEC" /\ fwdCntr' = fwdCntr + 1
      BY <2>2 DEF CheckFWD, FwdMoved
    <3>3. fwdCntr + (Stay + TillFetch(state)) <= BraindeadAfter
      BY <2>2 DEF InTime, Pending, ToFetch
    <3>4. TillFetch(state) \in Nat /\ TillFetch(state') \in Nat /\ TillFetch(state) >= 1
      <4>1. TillFetch(state) >= 1
        BY <3>1 DEF TillFetch, FetchPhase, BenchStates, CpuStates
      <4> QED BY <4>1, RankTypes
    <3>5. CASE state' = "FETCH"
      BY <1>1, <1>6, <3>2, <3>3, <3>4, <3>5, BenchAssumption
    <3>6. CASE state' # "FETCH"
      <4>1. state # "PRE_FETCH"
        BY <1>4, <3>6 DEF Goes, Succ, WaitStates
      <4>2. n2 + TillFetch(state') < Stay + TillFetch(state)
        BY <1>1, <1>4, <3>1, <4>1, FetchNearer
      <4> QED BY <1>1, <1>6, <3>2, <3>3, <3>4, <3>6, <4>2, BenchAssumption
    <3> QED BY <3>5, <3>6
  <2>3. CASE state # "EXEC" /\ (fwdState # "EXEC" \/ state = "FETCH")
    <3>1. state \in (FetchPhase \ {"EXEC"}) \cup {"RESET", "PRE_FETCH", "TRAP", "UPDATE_PC"}
      BY <1>1, <2>3 DEF Followed, FetchPhase, AfterExec, CpuStates
    <3>2. fwdState' # "EXEC"
      BY <2>3 DEF CheckFWD, FwdMoved
    <3>3. /\ state # "TRAP" /\ state' # "TRAP" => irqEn' = irqEn
          /\ state = "DECODE" /\ state' = "TRAP" => irqEn
      BY <3>1, EnableStep DEF FetchPhase
    <3>4. state = "TRAP" /\ state' = "UPDATE_PC" => ~irqEn'
      <4> SUFFICES ASSUME state = "TRAP", state' = "UPDATE_PC" PROVE ~irqEn'
        OBVIOUS
      <4>1. ~execDone
        BY <2>3 DEF Followed
      <4>2. Stay = 0
        BY <1>4 DEF Goes
      <4>3. TrapLeft = 0
        BY <4>2, StayIs, BenchAssumption DEF Followed, StayFacts, Stay, PortLeft
      <4>4. trapState \notin {"LOAD_STATUS", "STORE_STATUS"}
        BY <4>3 DEF TrapLeft
      <4>5. ~irqEn /\ irqEn' = irqEn
        BY <4>1, <4>4, EnableStep DEF Followed
      <4> QED BY <4>5
    <3>5. e2 < Stay + TillExec(state, irqEn)
      BY <1>1, <1>4, <1>6, <3>1, <3>3, <3>4, ExecNearer
    <3>6. TillExec(state, irqEn) \in Nat
      BY RankTypes
    <3>7. CASE FwdMoved
      <4>1. state = "FETCH" /\ fwdCntr' = 0
        BY <2>3, <3>7 DEF FwdMoved, CheckFWD
      <4>2. Stay <= 4 /\ TillExec(state, irqEn) <= 38
        BY <4>1, FetchStay DEF Followed, TillExec, ShortFetch
      <4> QED BY <1>1, <1>7, <3>2, <3>5, <3>6, <4>1, <4>2, BenchAssumption DEF Generous
    <3>8. CASE ~FwdMoved
      <4>1. fwdState # "EXEC" /\ fwdCntr' = fwdCntr + 1
        BY <2>3, <3>8 DEF FwdMoved, CheckFWD
      <4>2. fwdCntr + (Stay + TillExec(state, irqEn)) <= BraindeadAfter
        BY <4>1 DEF InTime, Pending, ToExec
      <4> QED BY <1>1, <1>7, <3>2, <3>5, <3>6, <4>1, <4>2, BenchAssumption
    <3> QED BY <3>7, <3>8
  <2> QED BY <2>1, <2>2, <2>3
<1>9. Pending' = IF fwdState' = "EXEC" THEN f2 ELSE e2
  BY <1>5, Zenon DEF Pending
<1> QED BY <1>8, <1>9, Zenon

\* The count of run stays in time.
LEMMA StallStep ==
  ASSUME Sound, Sound', Followed, Followed', InTime, Generous, NEW x, NEW o, BenchEdge(x, o),
         Stall, CountFetches
  PROVE  stallCnt' \in Nat /\ (fetches' # 2 => stallCnt' + ToWord' < StallAfter)
<1>1. /\ Stay \in Nat /\ Stay' \in Nat /\ state \in CpuStates /\ state # "CPU_IDLE"
      /\ stallCnt \in Nat
  BY StayIs, StayIsNext DEF StayFacts, Followed, Sound, TypeOK, CpuTypeOK, InTime
<1>2. Goes(state, Stay, state', Stay')
  BY EdgeGoes DEF Followed
<1>3. PICK n2 \in Nat : n2 = Stay'
  BY <1>1, Zenon
<1>4. Goes(state, Stay, state', n2)
  BY <1>2, <1>3, Zenon
<1>5. PICK w2 : w2 = ToWord'
  BY Zenon
<1>6. (Coming' => w2 = 0) /\ (~Coming' => w2 = n2 + TillWord(state'))
  BY <1>3, <1>5, Zenon DEF ToWord
<1>7. w2 \in Nat
  BY <1>6, RankTypes
<1>8. stallCnt' \in Nat
  BY <1>1 DEF Stall
<1>9. ASSUME fetches' # 2 PROVE stallCnt' + w2 < StallAfter
  <2>1. CASE ValidPc'
    <3>1. stallCnt' = 1
      BY <1>9, <2>1 DEF Stall, CountFetches
    <3>2. state' = "FETCH" /\ ack' /\ ~Coming'
      BY <2>1 DEF ValidPc, Coming
    <3>3. Stay' <= 2
      BY <3>2, FetchStayNext DEF Followed, ShortFetch
    <3>4. n2 <= 2
      BY <1>3, <3>3, Zenon
    <3>5. w2 = n2 + (9 + LongestExec)
      BY <1>6, <3>2 DEF TillWord
    <3> QED BY <3>1, <3>4, <3>5, RankTypes, BenchAssumption DEF Generous
  <2>2. CASE ~ValidPc'
    <3>1. stallCnt' = stallCnt + 1 /\ fetches' = fetches
      BY <2>2 DEF Stall, CountFetches
    <3>2. ~Coming
      BY <2>2, WordComes
    <3>3. stallCnt + (Stay + TillWord(state)) < StallAfter
      BY <1>9, <3>1, <3>2 DEF InTime, ToWord
    <3>4. TillWord(state) \in Nat
      BY RankTypes
    <3>5. CASE state = "PRE_FETCH"
      <4>1. w2 = 0 /\ TillWord(state) = 1
        BY <1>6, <3>5, WordComes DEF TillWord, TillFetch
      <4> QED BY <1>1, <3>1, <3>3, <4>1, BenchAssumption
    <3>6. CASE state # "PRE_FETCH"
      <4>1. w2 = n2 + TillWord(state')
        BY <1>6, <3>6, WordComes
      <4>2. state = "EXEC" => Stay = 0
        BY StayIs DEF Followed, StayFacts, Stay
      <4>3. w2 < Stay + TillWord(state)
        BY <1>1, <1>4, <3>6, <4>1, <4>2, WordNearer DEF BenchStates
      <4> QED BY <1>1, <1>7, <3>1, <3>3, <3>4, <4>3, BenchAssumption
    <3> QED BY <3>5, <3>6
  <2> QED BY <2>1, <2>2
<1> QED BY <1>5, <1>8, <1>9, Zenon

-----------------------------------------------------------------------------
(* The verdicts. *)

\* A program that keeps to the RAM: the bus address never selects the UART,
\* the timer or nothing.
KeepsToRam == PeriphSelect(adr) = "RAM"

\* With such a program CPU and RAM behave like those of Core, which has no
\* other slaves.
LEMMA ClockIsTick ==
  ASSUME KeepsToRam, cyc \in BOOLEAN, BenchClock
  PROVE  Tick
<1>1. PICK timer \in TimerLevels, host \in HostPins : SocTick(BenchPins(timer, host))
  BY DEF BenchClock
<1> DEFINE p == BenchPins(timer, host)
<1>2. Master(p) = CpuWires
  BY DEF Master, MasterWires, BenchPins
<1>3. CpuWires.addr = adr /\ CpuWires.cyc = cyc
  BY DEF CpuWires
<1>4. SocRamPins(p) = RamPins
  <2>1. SlaveWires(CpuWires, "RAM") = CpuWires
    BY <1>3 DEF SlaveWires, CpuWires, KeepsToRam
  <2> QED BY <1>2, <2>1 DEF SocRamPins, RamPins, RamInputs, CpuWires
<1>5. CpuAck(Master(p), SlaveAcks(p)) = ack
  BY <1>2, <1>3 DEF CpuAck, SlaveAcks, KeepsToRam
<1>6. DataBack(Master(p), SlaveDatas(p)) = RamDataOut(RamPins)
  BY <1>2, <1>3, <1>4 DEF DataBack, SlaveDatas, KeepsToRam
<1>7. SocCpuPins(p) = CpuPins(timer, host)
  BY <1>2, <1>3, <1>5, <1>6 DEF SocCpuPins, CpuPins, BenchPins, TimerCmpAccessed
<1>8. CpuTick(SocCpuPins(p)) /\ RamTick(SocRamPins(p))
  BY <1>1 DEF SocTick, BenchPins
<1>9. CpuTick(CpuPins(timer, host)) /\ RamTick(RamPins)
  BY <1>4, <1>7, <1>8
<1> QED BY <1>9 DEF Tick

\* The bench's steps are steps of Core.
LEMMA BenchIsCore == BenchSpec /\ []KeepsToRam => Spec
<1> DEFINE Types == TypeOK /\ CsrOpKnown
<1>1. BenchInit => Init /\ Types
  BY TypesInit DEF BenchInit
<1>2. KeepsToRam /\ Types /\ [BenchNext]_<<socVars, benchVars>> => [Tick]_vars /\ Types'
  <2> SUFFICES ASSUME KeepsToRam, Types, [BenchNext]_<<socVars, benchVars>>
               PROVE  [Tick]_vars /\ Types'
    OBVIOUS
  <2>1. BenchClock \/ UNCHANGED socVars
    BY DEF BenchNext, BenchTick, RunReturns, RunRaises
  <2>2. CASE BenchClock
    <3>1. cyc \in BOOLEAN
      BY DEF TypeOK, CpuTypeOK, BusTypeOK
    <3> QED BY <2>2, <3>1, ClockIsTick, TypesStep
  <2>3. CASE UNCHANGED socVars
    <3>1. UNCHANGED vars
      BY <2>3 DEF socVars, vars
    <3> QED BY <3>1, TypesStep
  <2> QED BY <2>1, <2>2, <2>3
<1> QED BY <1>1, <1>2, PTL DEF BenchSpec, Spec

\* So they have its invariants.
LEMMA BenchSound ==
  ASSUME PinsFree, DecoderKeeps
  PROVE  BenchSpec /\ []KeepsToRam => []Sound
<1>1. NeverHalted
  BY DEF PinsFree, NeverHalted
<1>2. Spec => []ControlInv
  BY <1>1, ControlHolds
<1>3. TypeOK /\ CsrOpKnown /\ ControlInv => Sound
  BY DEF Sound
<1> QED BY <1>2, <1>3, BenchIsCore, CoreTypes, PTL

\* The invariant of the bench holds at the start.
LEMMA BenchInvInit ==
  ASSUME Generous, BenchInit
  PROVE  BenchInv
<1> USE DEF BenchInit, Init, CpuInit, CsrInit
<1>1. Followed
  BY BenchAssumption DEF Followed, AluFollowed, AfterExec
<1>2. Stay = 0
  <2>1. TrapLeft = 0
    BY DEF TrapLeft
  <2>2. MretLeft = 0 /\ PortBusy = 0 /\ BusLeft = 0
    BY DEF MretLeft, PortBusy, BusLeft, Requested, Acknowledged
  <2> QED BY <2>1, <2>2 DEF Stay, PortLeft
<1>3. Pending = 14
  BY <1>2 DEF Pending, ToExec, TillExec
<1>4. ToWord = 2
  BY <1>2 DEF ToWord, Coming, TillWord, TillFetch
<1>5. InTime
  BY <1>3, <1>4, RankTypes, BenchAssumption DEF InTime, Generous
<1> QED BY <1>1, <1>5 DEF BenchInv

\* Every step of the bench keeps it.
LEMMA BenchInvStep ==
  ASSUME PinsFree, Generous, Sound, Sound', KeepsToRam, BenchInv, BenchNext
  PROVE  BenchInv'
<1>1. CASE BenchTick
  <2>1. verdict = "running" /\ Followed /\ InTime /\ ~testFinished /\ CheckFWD
    BY <1>1 DEF BenchTick, RunGoesOn, Running, BenchInv
  <2>2. fwdCntr' \in Nat /\ fwdCntr' <= BraindeadAfter
    BY <2>1, NotDeadYet
  <2>3. ~(fwdCntr' > BraindeadAfter)
    BY <2>2, BenchAssumption
  <2>4. Tick /\ AluLength /\ Stall /\ CountFetches /\ verdict' = verdict
    <3>1. cyc \in BOOLEAN
      BY DEF Sound, TypeOK, CpuTypeOK, BusTypeOK
    <3>2. BenchClock /\ AluLength /\ Stall /\ CountFetches /\ verdict' = verdict
      BY <1>1, <2>3 DEF BenchTick
    <3> QED BY <3>1, <3>2, ClockIsTick
  <2>5. PICK x, o : BenchEdge(x, o)
    BY <2>1, <2>4, BenchTickEdge
  <2>6. Followed'
    BY <2>1, <2>4, <2>5, AluFollowedStep, FollowedStep DEF Followed
  <2>7. fwdCntr' + Pending' <= BraindeadAfter
    BY <2>1, <2>5, <2>6, FwdStep
  <2>8. stallCnt' \in Nat /\ (fetches' # 2 => stallCnt' + ToWord' < StallAfter)
    BY <2>1, <2>4, <2>5, <2>6, StallStep
  <2>9. InTime'
    BY <2>2, <2>7, <2>8, Zenon DEF InTime
  <2> QED BY <2>1, <2>4, <2>6, <2>9, Zenon DEF BenchInv
<1>2. CASE RunReturns
  <2>1. verdict = "running" /\ Followed /\ InTime
    BY <1>2 DEF RunReturns, Running, BenchInv
  <2>2. verdict' \in {"finished", "stalled"} /\ fetches' = fetches
    BY <1>2 DEF RunReturns
  <2>3. ASSUME verdict' = "stalled", fetches # 2 PROVE FALSE
    <3>1. ~(stallCnt < StallAfter)
      BY <1>2, <2>3 DEF RunReturns, RunGoesOn
    <3>2. ToWord \in Nat
      <4>1. Stay \in Nat
        BY <2>1, StayIs DEF Followed, StayFacts
      <4> QED BY <4>1, RankTypes DEF ToWord
    <3> QED BY <2>1, <2>3, <3>1, <3>2, BenchAssumption DEF InTime
  <2> QED BY <2>2, <2>3, Zenon DEF BenchInv
<1>3. CASE RunRaises
  BY <1>3 DEF RunRaises, BenchInv
<1> QED BY <1>1, <1>2, <1>3 DEF BenchNext

\* The invariant of the bench.
THEOREM BenchInvariant ==
  ASSUME PinsFree, DecoderKeeps, Generous
  PROVE  BenchSpec /\ []KeepsToRam => []BenchInv
<1>1. BenchInit => BenchInv
  BY BenchInvInit
<1>2. /\ Sound /\ Sound' /\ KeepsToRam /\ BenchInv
      /\ [BenchNext]_<<socVars, benchVars>>
      => BenchInv'
  <2>1. CASE UNCHANGED <<socVars, benchVars>>
    <3>1. /\ state' = state /\ trapState' = trapState /\ mretState' = mretState
          /\ csrBusy' = csrBusy /\ cyc' = cyc /\ ack' = ack /\ ramState' = ramState
          /\ we' = we /\ sel' = sel /\ irqEn' = irqEn /\ execDone' = execDone
          /\ aluBusy' = aluBusy /\ aluLeft' = aluLeft /\ fwdState' = fwdState
          /\ fwdCntr' = fwdCntr /\ stallCnt' = stallCnt /\ verdict' = verdict
          /\ fetches' = fetches
      BY <2>1 DEF socVars, benchVars, coreVars, csrVars, busVars, ramVars
    <3>2. TrapLeft' = TrapLeft /\ MretLeft' = MretLeft /\ PortBusy' = PortBusy
      BY <3>1 DEF TrapLeft, MretLeft, PortBusy
    <3>3. BusLeft' = BusLeft
      BY <3>1 DEF BusLeft, Requested, Acknowledged
    <3>4. Stay' = Stay
      BY <3>1, <3>2, <3>3, Zenon DEF Stay, PortLeft
    <3>5. ToFetch' = ToFetch /\ ToExec' = ToExec
      BY <3>1, <3>4, Zenon DEF ToFetch, ToExec
    <3>6. ToWord' = ToWord
      BY <3>1, <3>4, Zenon DEF ToWord, Coming
    <3>7. InTime' = InTime
      BY <3>1, <3>5, <3>6, Zenon DEF InTime, Pending
    <3>8. Followed' = Followed
      BY <3>1 DEF Followed, AluFollowed
    <3> QED BY <3>1, <3>7, <3>8, Zenon DEF BenchInv
  <2> QED BY <2>1, BenchInvStep
<1> QED BY <1>1, <1>2, BenchSound, PTL DEF BenchSpec

\* With the thresholds of soc.py, and any others that leave room for the
\* longest instruction, checkFWD never gives up a program that keeps to the
\* RAM: whatever it, the RAM and the timer do, FETCH and EXEC follow each
\* other in time.  A program that accesses the UART is not covered: some of
\* its registers never answer.
THEOREM HartNeverGivenUp ==
  ASSUME PinsFree, DecoderKeeps, Generous
  PROVE  BenchSpec /\ []KeepsToRam => [](verdict # "braindead")
<1>1. BenchInv => verdict # "braindead"
  BY DEF BenchInv
<1> QED BY <1>1, BenchInvariant, PTL

\* A test of a program that keeps to the RAM, when run ends it for lack of
\* progress, has fetched the same address twice in a row: slow instructions,
\* traps and interrupts do not look like a stall.
THEOREM StallIsSpinning ==
  ASSUME PinsFree, DecoderKeeps, Generous
  PROVE  BenchSpec /\ []KeepsToRam => []StallMeansSpinning
<1>1. BenchInv => StallMeansSpinning
  BY DEF BenchInv, StallMeansSpinning
<1> QED BY <1>1, BenchInvariant, PTL

=============================================================================
