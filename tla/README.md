# A TLA+ development of the tagged RISC-V SoC

The repository holds a small RV32IMC microcontroller whose RAM carries a 4-bit
tag per granule of memory. A pointer carries a tag in its top four bits; when
the tags of pointer and granule differ, the RAM raises an interrupt. A libc with
a tagging allocator puts the mechanism to use. This directory models the parts
that make the mechanism work and the parts around them, and checks that they do
what they should: the tagged RAM and the bus in front of it, the CPU's control
with its trap sequencers and CSR file, the ALU, the timer with the libc's
services on it, the UART, the allocator, the FPGA's register interface with the
host software that drives it, and the watchdogs of the simulation bench.

Files: `X.tla` is a component or a composition, `MCX.tla` gives it small
instances, `*.cfg` is one TLC run, `X_proofs.tla` holds the theorems of `X`.
`PROJECT.json` maps every definition to the lines it models and lists the runs,
the mutants that show each property can fail, the hazards and the theorems.

## 1. Inventory

| Component | State | Operations | Talks to |
|---|---|---|---|
| Tagged RAM `rtl/ram/wb_ram.v`, `generic_ram.v` | data and tag memories with registered read ports, IDLE / WRITE_WORD / STOP machine, ACK, write strobes, `tag_mismatch`, `irq` | read and write of byte, half, word and tag; tag comparison; clear; reset | bus (wires), CPU (`check_tags`, `tag_mismatch_o`, `clear_mismatch_i`) |
| CPU bus master `rtl/cpu/wb_cpu_bus.v` | CYC/WE/SEL/ADR/DAT registers, `busy`, `buffer` | start an access, take the acknowledgement, extend the data; no reset | CPU (enable, busy), multiplexer |
| CPU control `rtl/cpu/cpu.v` | `state`, `pc`, `pcnext`, `check_tags`, `exec_done`, `branch_pc_from_alu`, `next_addr_from_csr`, trap and MRET sequencers | one tick in each of 20 states; halt, single step, reset | everything else in `rtl/cpu` |
| CSR file `rtl/cpu/csr.v` | CSR memory, two-tick port, shadow registers of the enable bits | read, write, reset | CPU control, both sequencers |
| ALU `rtl/cpu/alu.v` | result, flags, busy, counters and operands of the multi-cycle shifter, multiplier and divider | 18 operations, tick by tick; reset | CPU control |
| Decoder, register file `rtl/cpu/{decoder,registers}.v` | registers | decode, write back | CPU control |
| Random numbers `rtl/cpu/lfsr_rnd.v` | a shift register with feedback | tick, reset | CSR file |
| Timer `rtl/timer/wb_timer.v` | mtime, mtimecmp, divider | count, compare, access by word | bus, CPU (`timer_irq`, `mtimecmp_accessed`) |
| UART `rtl/uart/wb_uart.v` | divider, transmit register, shift register, answer held until the frame is out | set divider, send, read registers, reset; it has no receiver | bus, `uart_tx_o` |
| Bus multiplexer, external master `rtl/bus/{wb_mux,wb_ext}.v` | the answer to unmapped accesses; the external transaction | select the master and the slave, route acknowledgements to both masters; start, finish, clear | host, CPU, slaves |
| FPGA top and host protocol `fpga/fpga.v`, `bench/emulation`, `bench/test_drivers/default_fpga.py` | 16-bit registers; the library's copy of the control register | register accesses; halt, step, reset, upload and verify an image, print | SoC pins |
| Simulation bench `bench/rtl` | forward-progress and stall counters | tick, check, run | SoC pins |
| Allocator `bench/tools/libc/src/internals/{malloc,security}.c` | tag generator, list of headers, tags in RAM | boot, malloc, protect a pointer, free (empty) | CPU (`st`), interrupt handlers |
| libc run time `os.c`, `isr.S`, `boot.S` | handlers, timer services, console | read mtime, set mtimecmp, serve interrupts, `_putchar` | timer, UART, CSRs |
| Prototypes `models/insns`, `models/c_ext` | - | C++ models of divider and fetch unit with random tests | - |

What is hard here:

* **Late answers.** The RAM acknowledges an access before it has compared the
  tags; the interrupt is latched two or three ticks later, while the CPU is
  already somewhere else. That the CPU still stops before the next instruction
  rests on a count of ticks over two modules.
* **Shared ports.** The main machine, the trap sequencer and the MRET sequencer
  share one two-tick CSR port by priority only, and the sequencers write what
  the port read a step earlier. The enable bits exist twice.
* **Two masters.** Acknowledgements go to both masters, and the host moves the
  selector while the CPU has an access in flight.
* **Waiting on each other.** The main machine stalls on five busy flags. A write
  to the UART holds the bus until the frame is out.
* **Host control at any tick.** Halt, single step and reset arrive at any
  moment and stop some registers and not others. The host may itself be stopped
  and started again; a transaction it has given up lives on in the hardware.
* **Interrupts in library code.** The allocator has no lock.
* **Arithmetic at the edges.** Division works on magnitudes; rounding and the
  end-of-memory test of malloc are modulo 2^32; the tag generator wraps and
  skips two values.

What makes each part correct: the memory path is an atomic byte memory with
tags, and no violation is lost; the CPU executes nothing behind a violation,
saves a precise context with its cause, resumes where it trapped and never gets
stuck; the shadows agree with the CSRs; the ALU computes what the operands'
integers say; the UART is a channel that loses and repeats nothing; the host's
image arrives, nothing else is written, and a step is one instruction; the
bench gives up none but a dead hart and takes no slow program for a finished
one; the allocator
returns blocks that are large enough, disjoint, and tagged unlike their
neighbours. `PROJECT.json` lists the hazards one by one with the line where each
bites.

## 2. Modules

```
Words -- WbRam ---+
     \            +-- BusRam -- MemPath --- MCMemPath
      +- WbCpuBus +      |         \-- implements TaggedMemory
      |                  |
      +-- Csr -- Cpu ----+-- Core ------- MCCore
      |                  |      \-------- SimBench --- MCSimBench
      +-- WbMux, WbExt, WbUart           /
      |                  |              /
      |                  +-- Soc ------+
      |                       \-- FpgaTop --- FpgaHost --- MCFpgaHost
      |
      +-- WbUart + WbCpuBus --- UartPath --- MCUartPath
                                   \-- implements ByteChannel
Arith -- Alu -------+
     \-- DivModel --+--- AluPath --- MCAluPath
WbTimer --- TimeServices --- MCTimeServices
Heap ------ MCHeap
Lfsr

proofs:  BusRam_proofs -- MemPath_proofs
               \                 | (instance, with the CPU as client)
                Core_proofs ----------- SimBench_proofs
         Board_proofs (UartPath, FpgaHost, Lfsr), TimeServices_proofs,
         AluPath_proofs, Heap_proofs
```

**Words** represents a 32-bit word by the set of its one-bits: part selects,
shifts and sign extension are then set expressions, which TLC evaluates and the
provers understand.

**WbRam** is `wb_ram.v` with its two `generic_ram` instances. `RamTick(i)` is one
positive clock edge with input pins `i`: the memories and their read ports
(`MemoryPorts`), the state machine (`RamIdle`, `RamWriteWord`, `RamStop`) and the
mismatch latch (`MismatchLatch`) all read the old registers, as nonblocking
assignments do. `RamReset` is the edge with `rst_i`; memories have no reset.
`RamTop` and `GranuleLow` are the width of the RAM's address and of a granule.

**WbCpuBus** is `wb_cpu_bus.v`: `BusTick(en, op, addr, data, ack, d)`.

**BusRam** wires both together, as `soc.v` does: `BusRamTick` is one edge of the
pair, and `Handshake` is the protocol between them. Two modules use it.

**MemPath** drives the pair by a client that does what `cpu.v` does: present an access for one tick while the bus is not busy, together
with the next value of `check_tags`; wait; acknowledge the interrupt; reset.
Accesses may follow one another with any spacing.

**TaggedMemory** is the specification: bytes, tags, at most one request, a
reply, a violation that is due and an alarm. An access takes effect in one step.

**Csr** is `csr.v`: the memory, the two-tick port, the shadow registers with
their own write conditions, reset. CSRs that nothing in the CPU looks at
(`mscratch`, `misa`, the random number) are one name or left out.

**Cpu** is `cpu.v`. There is one action per state of the main machine; an
action computes the outputs `o` of the combinational block, starting from
`Defaults` like the code, and `CpuClock(x, o)` is the clock edge for all
registers: the main machine and its stall condition, the sequencers, the ALU,
the CSR port behind `CsrMux` and the bus master. The decoder appears as the
record `Insn` of control signals; an instruction carries the result, address or
target its execution computes, so the properties quantify over programs by
letting memory hold any instruction of `Insns` at each fetch. This over-
approximates real programs: a word may decode differently each time it is
fetched. The ALU is its result register, the comparison flags and a busy flag
that stays up for any number of ticks in multi-cycle operations.

**Core** connects Cpu and WbRam as `soc.v` does. The timer's interrupt line and
the host's pins are inputs that may change at every tick.
`TimerCmpAccessed` is the timer's decoder as the CPU's own accesses see it.

**SimBench** puts `tick`, `checkFWD` and the loop of `run` of `soc.py`, with its
limit and its breakpoint (`RunRaises`), around Core and Soc: the SoC in the
simulation build, with RAM and UART behind the multiplexer and the CPU as the
only master. `checkFWD` looks at the CPU before the edge, the stall counter after
it. The ALU is busy for no time or for as long as `AluPath` says it can be. The
timer's registers are not among the slaves, and the programs of the run do not
address them; its interrupt line is an input, as in Core.

**Arith**, **Alu** are words of `W` bits as numbers and `alu.v` as it is built
(multi-cycle shifts, multiplication and division): load, one step per bit, a last
tick that fixes the sign and clears busy. **AluPath** lets `cpu.v` use it: EXEC
enables it and holds the operands, the host may halt the CPU in any state, which
makes a halted EXEC start the operation again, and a reset may come at any tick
and clears `busy` only. **DivModel** is `stepdiv` of `models/insns/div.h`, the
prototype of the divider, as a pair of recursive functions.

**WbUart** is `wb_uart.v`: the register access with its two flags, the request
to the transmitter, the transmitter with divider and bit counters, the
simulation build, whose answer is a line of the log. **UartPath** drives it
through the CPU's bus master. `Putchar` and `PollOut` are `_putchar` and Zephyr's
`uart_beehive_poll_out`, called at any time; `Configure` is the write of the
divider in `boot.S`, at any time too, since `__soc_init` prints before it
(`boot.S:41`, `malloc.c:33-39`). What the model says of the divider at the start
is what the host does: `default_fpga.py:33` has written it before `run_soc`, and the
reset that starts the CPU (`cpu_rst_i`) is not the UART's. The receiver on the
line samples at the same rate. **ByteChannel** is the specification: bytes come
out once each, in order.

**WbMux**, **WbExt** are `wb_mux.v` and `wb_ext.v`; **Soc** wires CPU, external
master, RAM and UART to the multiplexer as `soc.v` does. **FpgaTop** adds the
registers of `fpga.v` with their self-clearing bits. **FpgaHost** is the driver
`default_fpga.py` with the library `fpga.py` and the image loader: its script is
a sequence of library calls (`Main`), every register access of a call is an
action, at least `MinGap` ticks lie between two accesses, and the driver may be
stopped at any access and started again (`Start`). `StepIdle` waits until the CPU
is idle; the ten attempts of `do_step` and its assertion are left out, since the
CPU of this model is idle long before the tenth. `retired` is the only variable
that is not in the code.

**WbTimer** is `wb_timer.v`: 64-bit registers written and read in halves, the
clock divider, the registered comparison, the handshake. A 64-bit value is a
number below `LoSize * HiSize`. `mtime_alw_en` is left out.

**TimeServices** runs `__mtime`, `alarm_soc_timer` and `alarm_soc_timer_stop` of
`os.c` on it. Each bus access of a service is issued, held and completed tick by
tick while the timer counts; the timer interrupt may come between any two
instructions and its handler may call the services too. `deadlines` is the only
variable that is not in the code: the alarms that were asked for.

**Heap** is the allocator. malloc is executed step by step in a frame; the main
program and the interrupt handler have one each, and an interrupt may come
between any two steps. The separate reads and writes of the tag generator, the
`st` loop and the three updates of the header list are separate steps. Sizes and
addresses are bytes, arithmetic is modulo `WordSize`, which is the untagged
address space times the number of tags, as in the code.

**Lfsr** is `lfsr_rnd.v` with its width, polynomial and seed as parameters. No
run instantiates it: its properties are proved.

## 3. Runs

Only `mempath` lists its type invariant; the `TypeOK` of the other modules says
which values the variables range over, and is proved for `Core` and `Heap`.

Passing runs:

| Run | Instance | Shows |
|---|---|---|
| `mempath` | every operation on two granules, one of them under two tags, at an odd byte, an upper half and a whole word; clear and reset at any tick | `ImplementsTaggedMemory`: the path is an atomic byte memory with tags for any spacing of accesses, each violation raises the interrupt once, before the next access takes effect, and none is invented; `Handshake`; `AccessCompletes` |
| `core_tags` | programs of short and long instructions, jumps to mistagged code, retagging, mistagged stores, enabling both checks together, acknowledging, mret | nothing executes behind a violation (`NoMistaggedExec`, `NoPendingAtExec`), no acknowledgement swallows one (`ClearWhenQuiet`) and nothing but an instruction that writes IACK acknowledges one (`OnlyTagsAcknowledge`), the trap it causes is precise and names it (`PreciseTrap`), the shadows agree with the CSRs (`ShadowsCoherent`), trapped instructions write no register, the CPU never blocks (`Progress`), violations are served (`ViolationServed`) |
| `core_traps` | ecall, ebreak and a timer line that moves freely; stores that hit the timer's decoder, branches, mret; `tags.SKIP_SP`, which a reset does not clear; single steps and resets at any tick | `PreciseTrap`, its cause included, `MretResumes`, `BranchDecides`, `TrapEntersHandler`, `ShadowsSound`, `IdleIsQuiet` |
| `alu` | words of 4 bits: all operands, all operations, two leftovers in the registers, halts and a reset at any tick | `ResultCorrect`, `FlagsCorrect`, `ImplementsPrototype`: hardware and prototype divide alike (both without REM of a negative dividend, see below); `AnswersInTime`: 34 ticks at 32 bits |
| `sim_bench` | the thresholds of the code, 50 and 75 ticks; the longest paths through the CPU with interrupts and 33-tick operations, a byte sent through the UART (10 bits of 3 ticks), reads of the registers that never answer | `BraindeadMeansDead`: only a program that waits for such a register is given up; `StallMeansSpinning` |
| `timer` | a lower half of 16 values, alarms 15 steps ahead, a divider of 3 or 1, resets | `ReadAtomic`: the time read is one that was; `NoEarlyInterrupt`: nothing rings before it is due, half-written comparators included; `AlarmRings` |
| `uart` | frames of two data bits, all bytes, three in a row, the divider written in between or not, both builds, divider 2 | `PrintsEveryByte`: the path implements `ByteChannel`, liveness included; `ReturnsWhenSent` |
| `fpga_host` | two words of RAM, two images, two starts, one step; two polls and frames of 48 ticks, longer than the polls of their call and the whole call after it | `ImageVerified`, `OnlyIntendedWrites`, `FetchesMemory`, `OneInstructionPerStep`, `DriverFinishes` |
| `heap` | three usable tags, room for several blocks, sizes around a granule, interrupts everywhere, handlers that call malloc | `BlockHoldsRequest`, `BlocksDisjoint`, `TagsSeparate`, `ListIntact`, `MallocReturns` |

Runs that show a disagreement between the code and the repository's own words
(the quotations are under "findings" in `PROJECT.json`):

| Run | Property | What happens |
|---|---|---|
| `halt_branch` | `BranchDecides` | a halt in BRANCH2 or UPDATE_PC makes a taken branch fall through when the CPU is resumed |
| `fetch_cause` | `PreciseTrap` | a mistagged fetch with `tags.LSEN` off traps with mcause 0: `cpu.v:663` selects the cause by `tags_en`; `doc/arch/memtag.md:71` names 0x8000_0010 |
| `tags_read` | `OnlyTagsAcknowledge` | IACK is stored, and `csrrs`/`csrrc` write the register back: once a handler has acknowledged, reading tags takes the next violation back (`csr.v:71`); `memtag.md:72` asks for a write of 1 |

Other disagreements, met while modelling. The passing properties leave these cases
out, and say where:

* An illegal encoding enters TRAP without `trap_occured` (`cpu.v:679`): no context and
  no cause is saved, and the CPU continues at what the CSR port read last.
  `decoder.v:5` (`TRAP_ON_ILLEGAL`) and `traps.h:29` ("Illegal instruction", 2) ask for
  a trap. The programs of the passing runs have no such encodings, and the theorems
  about traps name `LegalInsns`.
* REM of a negative dividend returns the remainder of the magnitudes
  (`alu.v:275`), except for the operand pairs answered at once
  (`alu.v:246-249`). The single-cycle variant of the same file (`alu.v:121`) and
  `tests/compliance/rv32im/src/REM.S` give it the sign of the dividend. The
  prototype returns the same magnitude; its check computes a signed remainder
  (`div.h:122`) but does not compare it. `ResultCorrect` and `ImplementsPrototype`
  both exclude these operands.
* malloc of a size above 0xfffffff0 is rounded to 0 (`malloc.c:85`), and other
  huge sizes wrap in the end-of-memory test (`malloc.c:98`): a block that is too
  small is returned instead of 0. `BlockHoldsRequest` fails if `Sizes` contains
  `WordSize - 1` or `WordSize - 32`; the run's sizes stay below, and the theorems
  about the heap assume `SizesFit`.
* A transaction that is not answered in ten polls is abandoned by `fpga.py:243`
  and not by the hardware, and `wb_ext.v:52-53` drives address and data live from
  the registers: with frames of 10 bits of 13889 ticks against ten polls, every
  character the host prints is abandoned and runs into the next call. The run has
  this relation, with frames that outlast their own polls and the next call. What
  it shows: while the next call is again a character, its start is ignored and the
  late answer passes for its own, so that characters may be lost; when the next call
  is the first write of the image, `__set_address` changes the low half of the address
  first, which turns the address of the UART's data register into that of its divider
  (0x8000000), where the abandoned write completes at once. It never reaches RAM
  (`OnlyIntendedWrites`), and the image is read back as it was written
  (`ImageVerified`). Both rest on the loader, which writes all of the
  memory from address 0 on (`image_loader.py:35`). What is not guaranteed is the divider: it may hold the code of a
  character when the CPU starts, and then what `__soc_init` prints before `boot.S:48`
  writes the divider again goes out at the wrong rate.
* The wait loops of `bench/rtl/libsim/soc.cpp:146` count an unsigned number down
  while it is not negative; nothing calls them.
* `csr.v:109`: a number that names no CSR selects `mvendorid`, for writes too,
  and every CSR is reported as existing; `tests/asm/csrr_missing.s` expects an
  exception.
* With a UART divider below 2 a frame is sent twice (`wb_uart.v:82`): the request
  is raised again in the tick in which the bus master sees the answer, and the
  transmitter is already free. The reset value is 1, but on the board the host has
  replaced it by 13889 before the CPU starts, and in simulation, where it stays, the
  output is the log, which has every byte once. A board that booted without the
  host, or Zephyr's driver on it, which sets no divider, would print twice.
* `wb_uart.v:75-81`: the register SANITY never answers, nor does DATA when it is read;
  a load from them hangs the CPU. In simulation `checkFWD` ends the run
  (`BraindeadMeansDead`).
* If the multiplexer gave each master only its own acknowledgements, a CPU whose
  access is in flight when the host takes the bus would repeat it later, with the
  program reset in between: `OnlyIntendedWrites` fails for such a multiplexer.
  That acknowledgements go to both is load-bearing.
* Halting has more effects than the run shows: with `MCHalting`, an interrupt
  that is taken in a halted DECODE starts the trap sequencer without the main
  machine following it (`TrapEntersHandler` fails).

**Bounds, and why they are enough.** The RAM has two words (`RamTop = 2`) and a
granule is one word (`GranuleLow = 2`), so there are two granules: a property
about a tag is violated by one granule and its neighbour, and the control does
not depend on the address beyond its byte offset and its granule. In `mempath`
one data value has different bytes with their sign bits set and a tag other than
0; together with the zeros of the initial memory it tells bytes, halves and
extensions apart. `PcTop = 2` lets the pc walk through both words, both parcels
of each included, so 32-bit instructions that straddle a word and a granule
occur. In `alu` 4 bits are the least that have numbers besides the special ones
of division (zero, all ones, smallest and largest) and leave every intermediate
width its own. `sim_bench` needs no scaling of time: thresholds, the ALU's 33 ticks
and the UART's frame are those of the code. `BraindeadMeansDead` already holds with a
threshold of 37, so the code has a margin of 13 ticks. A second byte
follows the first, while the transmitter repeats the frame of that (the divider
is 1 in simulation); `MaxPrinted` ends the run there. `uart`: two data bits make a frame of all its parts, a third
byte follows one that followed another. `fpga_host`: `MinGap = 4` is the longest
RAM transaction; on the board a register access takes thousands of ticks. The ratio
that matters is that of frame and polls: `BaudWord = {1, 2, 3}` (14) makes a frame of
one data bit 48 ticks, more than the polls of its call and the whole next call, as 10
bits of 13889 ticks are against ten polls on the board. Two images whose halves all
differ show redirected or half transactions and what is left of an earlier upload; a
second start finds the hardware in every state the first one leaves. In `heap` five tags
leave three usable ones when 0 and the secret are taken: two neighbours differ
and the generator's wrap falls everywhere; the arena ends in the middle of a
granule. In `timer` the lower half is just long enough for the nine ticks of
`__mtime` to fit or to be cut by a carry, and for a second alarm to replace the
first before it is due, so that every order of carry, comparison and half-writes
occurs; `MaxTime` stops mtime before its upper half reaches all ones, which
`__set_mtimecmp` uses as "never" and the hardware does not reach in the lifetime
of a device. Memories and read ports start as zero in `mempath` and `core_*`; on
hardware their content is unknown, but the properties compare content with
content. Symmetry is not used: addresses and tags are words with structure.

**Fairness.** `MemPath`, `UartPath`: a tick without a new request always happens
(the clock does not stop). `Core`: weak fairness of the tick that ends a
multi-cycle ALU operation: the clock does not stop and `alu.v` counts its cycles
down, which `AnswersInTime` shows. The host does not halt the CPU in the run that
checks liveness: a halted CPU makes no progress by design. `FpgaHost`
(`BoardFairness`): the clock runs, so that the gap before the next access ends, and the
driver then makes the access unless its script is done. The host's restarts are
bounded.
`TimeServices`: the clock runs, a service that has been entered goes on (weak
fairness of its steps), and the CPU looks at the interrupt line before every
instruction (strong fairness of `Interrupt`, which is enabled only between
accesses). `Heap`: strong fairness of the main program's steps, since interrupts
do not arrive after every instruction, and weak fairness of `mret`, since
handlers return.

## 4. Proofs

The theorems hold for every value of the constants that the named assumptions
allow. `PROJECT.json` lists them with the property each one states.

### 4.1 The memory path

`BusRam_proofs` and `MemPath_proofs`, for RAMs and granules of every size and
every set of operations, addresses and data (`RamAssumption`,
`ClientAssumption`; `NoRequestAssumption` says that the value for "no request" is
not a request):

* `TypeCorrect`: `Spec => []TypeOK`. The lemmas before it give the widths of the
  combinational outputs (`RamDataOutType`, `DataToWriteType`, `DataFromBusType`).
* `HandshakeCorrect`: `Spec => []Handshake`. `Handshake` is inductive together
  with `TypeOK`. It says more than the protocol needs to be readable, since every
  conjunct is what another one rests on: a strobe is right because the phase is
  (`PhaseStep`), the phase is right because `busy` and CYC_O agree, and the read
  ports are right because the address does not move while CYC_O is up
  (`ReadPortStep`). The step lemma `ClockHandshake` is about one clock edge with
  any client; it serves the clients of `MemPath` and the CPU of `Core`.
* `Refinement`: `Spec => ImplementsTaggedMemory`. The proof follows a transaction
  through its phases: issuing it is the abstract request, the acknowledged tick
  is the abstract access, the comparison behind it is the abstract alarm, and all
  other ticks stutter. `Handshake` supplies the phase and the content of the read
  ports; `InFlightAligned` carries the client's obligation `Aligned` to the tick
  in which the access happens.

### 4.2 CPU and RAM

`Core_proofs` proves `CoreTypeCorrect` for every program, timer and host. The
other theorems about `Core` name their hypotheses:

| Hypothesis | Says | Why |
|---|---|---|
| `NeverHalted` | the host does not pull `external_halt_i`; single steps and resets may come at any tick | `halt_branch` shows that a halt breaks a branch; the statements are false without it |
| `NeverReset` | no reset after power-up; only for `ShadowsAreCoherent` and the composition | a reset leaves the CSR memory and drops the shadows; `ShadowsAreSound` is what holds with it |
| `DecoderKeeps` | multi-cycle operations and write-back come with the next stage FETCH or a rejected encoding, and a branch does not set `exec_next_pc_from_alu` | the table of `decoder.v`; `Insn` by itself would allow any combination of control signals |
| `LegalInsns` | no encoding that ends in EXEC_TO_TRAP; only for `TrapKeepsRegisters` and `TrapsArePrecise` | such encodings enter TRAP without a trap (section 3) |
| `[]LsenWithViolation` | a violation that is pending in TRAP finds `tags.LSEN` on; only for `TrapsArePrecise` | `fetch_cause` shows the cause that is recorded otherwise |
| `[]IackNotReadBack` | a `csrrs`/`csrrc` of tags that does not itself set IACK does not find it stored; only for `AcknowledgedByTags` | `tags_read` shows what such a read does |
| `HalvesAligned` | no half access at an odd address; only for the composition | the RAM's assertion (`wb_ram.v:167`) |

The second part of `Core_proofs` has the inductive invariant `ControlInv`. The properties are
about one state of the main machine (EXEC, UPDATE_PC, CPU_IDLE), and whether they
hold there is decided many ticks before; so the invariant says for *every* state
who may be busy (`Waiting`), which phase of a transaction the memory path is in
(`Phases`), which instruction the decoder shows (`Dispatched`), what the flags of
earlier states still mean (`Flags`, `BranchPending`), what an acknowledgement in
the CSR file meets (`Acknowledging`) and that no violation is pending in EXEC
(`Unpended`). Every action is reduced to the equations of the registers
(`EdgeRegisters`), and each part of the invariant is preserved by a lemma of its own.
From it follow `CoreHandshake`, `ClearNeverRaces`, `IdleQuiet`, `ViolationStops`,
`TrapKeepsRegisters`, `BranchCorrect`, `HandlerEntered` and `AcknowledgedByTags`.

The shadows need a second layer. They change when a write is requested, the
file one tick later; `Settled(r)` is what register `r` holds once the write under
way is done, and `ShadowsFollow` compares the shadows with that, except while a
sequencer is about to write mstatus, when `irqEn` is for one tick what the port
happened to present. `ShadowsHold`, its one-sided form, also survives a reset in
the middle of a write: `ShadowsAreCoherent`, `ShadowsAreSound`.

Its third part follows the sequencers: `TrapSaved` and `MretSaved` say, for
each step, what the port has read and which of mepc, mcause and mstatus are
already settled. They give `TrapsArePrecise` and `MretReturns`. `FetchChecked`
follows the tag check of both halves of a fetch until its mismatch is latched:
`OnlyTaggedCodeRuns`.

**Composition.** `CoreUsesMemPath` shows that the CPU is a client of `MemPath`
(every tick of `Core` is an `Issue`, `Wait` or `ClearIrq` of it; that a clear comes
alone is `ClearNeverRaces`). With `Refinement` it gives `CoreMemoryIsAtomic`: what
a program's fetches, loads and stores do is what an atomic tagged memory does.

### 4.3 The allocator

`Heap_proofs`, for every arena, every granule-aligned layout of the boot data and
any number of tags from four, with interrupts at every step and handlers that
call malloc. The one hypothesis is `SizesFit`: no request is so large that
malloc's 32-bit sums wrap (in the code, below 15/16 of 2^32); for larger ones the
statements are false, as section 3 says. `BlocksFit`, `NoOverlap`,
`TagsAlwaysSeparate`, `ListAlwaysIntact`, and `HeapTypes`, by which the alignment
assertion of `_ossec_protect_ptr` never fires.

`HeapInv` is needed because malloc breaks each property's reason for several
steps. `Chain` describes the list with its last header and what lies behind it;
`Serving` what the frame of a malloc under way has computed so far, by its
program counter; `Returned` ties each block to the header in front of it; `Fresh`
says what the tag generator holds in the middle of its increments and that it has
left the tag it gave out last; `Coloured` which granules are tagged so far, and
that the last of them differs from the tag that comes next. `HandlerIdle` is the fact that makes it work without a lock: a
malloc called in a handler returns 0 before it touches anything.

### 4.4 The ALU

`AluPath_proofs`, for words of 2, 4, 8, 16 and 32 bits, every program, halts and
resets: `FlagsDecide`, `OperationsEndInTime`, `ResultsCorrect` and
`PrototypeImplemented`. The widths are enumerated (`WidthAssumption`) because the
prover evaluates powers of two one by one; the arguments do not depend on them.

`PathInv` bounds each counter by the width and the ticks spent (`Counters`,
`InTime`), says that no operation outlives its instruction, so that the next one
starts afresh (`NothingLeft`; a reset clears `busy` and leaves the counters), and
that POST_EXEC finds the flags of its operands (`Compared`).

`ResultInv` is about the values. It says what the registers of a multi-cycle
operation mean when some of its bits are done: `Shifting`, that all but
`shiftcnt` positions have been shifted; `Multiplying`, that the product register
is the product with the bits of the multiplier seen so far, over the bits not seen
yet; `Dividing`, that the dividend is quotient times divisor plus remainder, with
a remainder below the divisor at its present position. One tick preserves each
of them (`OneBitMultiplied`, `OneBitDivided`), and when the counter is 0 they say
that the result is right. The sign is treated at the end (`SignOfProduct`).

For the prototype the closed forms of its two recursive functions are proved:
normalisation stops at the first position where the divisor is not smaller than
the dividend or has reached its highest bit (`NormalizationStops`), and the main loop gives quotient and remainder
(`MainLoopDivides`). The induction is `Descent`: a set of naturals that is left by
no step down, from the well-foundedness theorem about least elements of *sets*,
which this prover can use. `StepDivAnswer` compares the result with `DivAnswer`,
which is what `ResultInv` has shown of the hardware. Like the property,
`PrototypeImplemented` says nothing of REM of a negative dividend.

### 4.5 The UART and random numbers

`Board_proofs`, for frames of one to eight data bits, every divider
from 2 and any number of bytes, in both builds, with software printing and writing
the divider in any order: `PutcharReturnsWhenSent`
(`[]ReturnsWhenSent`) and `PrintsInOrder`, the safety part of `PrintsEveryByte`
(`ByteChannel` without its fairness). That the divider is at least 2 from the
start is `UartPathAssumption` and the initial state of `UartPath`: the host writes
13889 before it starts the CPU (section 2).

`UartInv` has a part that always holds (`BusSide`: what is on the bus is what
software asked for), and then one for each build. In the simulation build
`LogSide` counts: the log has every byte but the one whose write has not been
acknowledged. On the line three parties run at their own pace: the register
access, the transmitter and the receiver. `InStep` relates the first two. The
access is acknowledged during the stop bit, and `tx_started` is raised once more
before the bus master has seen it; the invariant follows the flags tick by tick through the stop bit to
show that the second request is gone before the transmitter is free, for which
the divider must be at least 2 (section 3 says what happens below). `LineSide`
says which bit of which byte is on the line, `RxSide` that the receiver samples it
in its middle and has the bits that have gone.

For the generator, for every width, polynomial and non-empty seed (the hypothesis
`Parameters`; the 2^32 words of the code are out of TLC's reach):
`LfsrNeverStuck`, since the highest bit comes back as bit 0 (`StepNonZero`), and
`StepInjective`: no two words have the same successor, so a permutation of
finitely many words comes back to where it started.

### 4.6 The timer services

`TimeServices_proofs`, for halves of every size, every interval and rate, with the
handler calling the services and resets at any tick: `TimeReadIsReal`
(`ReadAtomic`) and `NoEarlyAlarm` (`NoEarlyInterrupt`).

`TimeInv` says by the program counter of each frame what its service knows.
`Reading` is the key to `ReadAtomic`: the lower half was read at some time `t`
since the call, and the upper half read before it is at most that of `t`; if the
second read of the upper half gives the same, the pair is `t`, because mtime only
grows during a call. `Change` is the key to `NoEarlyInterrupt`: while the comparator is being
changed its upper half is all ones (`Parked`), so that no mixture of old and new
halves is reached before `MaxTime`; the registered comparison lags by one tick,
which is why `Alarms` speaks of the interrupt line and the comparator together.
`Owned` ties the bus to the frame, with the exception of an access that a reset
leaves on it, and `Apart` keeps the frames from changing the alarm at once. That
mtime stays within `MaxTime`, below the value that parks the comparator, is a
bound of the model (section 3).

### 4.7 The simulation bench

`SimBench_proofs`, on top of `ControlInv`: `HartNeverGivenUp` (the verdict is never
"braindead") and `StallIsSpinning` (`[]StallMeansSpinning`), for every RAM and timer
and every program that keeps to the RAM (`[]KeepsToRam`). With such a program CPU and
RAM of the SoC move as those of `Core` do (`ClockIsTick`, `BenchIsCore`), so that the
theorems about `Core` apply. Programs that use the UART are only model-checked: a
register that never answers makes `HartNeverGivenUp` false, and `BraindeadMeansDead`
is what `sim_bench` says of them.
Both say that something happens within so many ticks, so `BenchInv` carries
ranking functions. `Stay` bounds how long the main machine waits in its state:
for the ALU, for the steps of the sequencers that are left, for the bus. `TillFetch`,
`TillExec` and `TillWord` bound the way from there to FETCH, to EXEC and to a new
word on the bus; an interrupt makes the way to EXEC longer, once, because it
disables the next one. Each tick lowers the rank by one or reaches the goal, and
the bench's counter plus the rank stays below the threshold.

Further hypotheses: `DecoderKeeps` (4.2); `PinsFree`, nobody pulls the control pins, since
the bench rightly gives up a CPU that is held; and `Generous`, which says of the
thresholds `LongestExec <= BraindeadAfter`, `41 <= BraindeadAfter` and
`LongestExec + 13 <= StallAfter`, where `LongestExec` is 20 ticks or four more than
the longest ALU operation. `soc.py` has 50 and 75, and an operation takes 33 ticks
(`OperationsEndInTime`), so the code satisfies it: 37, 41 and 50.

### 4.8 The FPGA's host

`Board_proofs`: `StepIsOneInstruction` (`[]OneInstructionPerStep`), for every
program, image, text, pace of the host (`MinGap`), number of polls, steps and
starts, with the driver stopped at any access and started again. It needs no
hypothesis beyond the types of the constants.

`HostInv` goes by the position in `main` of `default_fpga.py`. A start finds the
CPU anywhere and in reset (`Started`); during the upload it is halted in RESET
(`Uploading`); `run_soc` takes it through reset once more, because the first of
its two writes does so (`Restarting`); from there every instruction ends in
CPU_IDLE (`Stepping`); the last `halt_soc` freezes it wherever it is (`Halted`).
Three facts make this inductive. DO_STEP clears itself one tick after it was
written, so it must meet a CPU that leaves CPU_IDLE in that very tick: `Quiescent`
says that a CPU in CPU_IDLE waits for nothing, and `do_step` has seen CPU_IDLE
before it writes. The library's shadow register keeps the step bit, so a later
write of the control register would step again; the only such write within a run
is that of `halt_soc`, with HALT, and HALT wins in `cpu.v`. And the count: `Requested` says
that every second call after `run_soc` is a step, which `MainCalls` reads off the
concatenation that is `main`. `CpuMoves` is what the proof needs of the CPU, for any
inputs: only UPDATE_PC leads to CPU_IDLE, in single step it leads nowhere else, and
only a step leads out.

### 4.9 Only model-checked

* Liveness: `AccessCompletes`, `Progress`, `ViolationServed`, `AlarmRings`,
  `MallocReturns`, `DriverFinishes` and the fairness of `ByteChannel`. The prover
  does not handle fairness.
* `FpgaHost`. `ImageVerified`, `FetchesMemory` and `OnlyIntendedWrites` are not
  true for every value of the constants: they depend on how the gaps between
  the host's accesses, the length of a UART frame and the number of polls relate,
  on the address the loader starts at (section 3), and
  on programs that end their instruction before the host looks. A theorem would
  need a timing hypothesis that the code nowhere states.
* `BraindeadMeansDead`, and `StallMeansSpinning` of programs that use the UART.
* What halts do: by hypothesis no theorem about `Core` except `CoreTypeCorrect`
  speaks of a halted CPU, and no passing run of `core_*` halts it either.
  The theorems about `AluPath` and `FpgaHost` include halts.

## 5. What is not modelled, and known gaps

* Almost all lines of the repository are third-party code: Zephyr with its
  vendor libraries, the OVP simulator model, fdlibm, printf. They are outside
  this development. Of the Zephyr port, the console driver is in `UartPath`; the
  clock and tag initialisation files are straight-line register writes.
* The encodings of instructions and the content of the register file are
  abstracted to the control signals and results an instruction carries.
* `Core` and `SimBench` take the timer's interrupt line as a free input, `FpgaHost`
  as low, and the timer's registers are not among the slaves of `Soc`. The
  pending bit mip.MTIP with the timer's too generous decoder (`wb_timer.v:51`)
  needs `Core` composed with `WbTimer`.
* The fetch prototype `models/c_ext` is superseded by the fetch states of
  `cpu.v`, which `Cpu` models.
* Of the FPGA library, `print_ram` and the device behind `readShort` and
  `writeShort` are left out, and `get_cpu_status` appears without its halting
  form, which `halt_branch` is about. Of the simulation bench, tracing, the memory
  back doors and the exit code are left out. The test drivers' text processing
  and I/O are not modelled.
* A handler that calls `alarm_soc_timer` after interrupting another
  `alarm_soc_timer` mixes the halves of two alarms. The services are not
  re-entrant; the guard of `Call` excludes such handlers.
* `STATE_WRITE_TAG` of `wb_ram.v` is unreachable and has no action. The
  misalignment branch of UPDATE_PC is dead code in the RTL, because bit 0 of the
  next address is cleared before it is tested; it is kept in `StateUpdatePc`.
* The RAM asserts that half accesses are aligned (`wb_ram.v:167`). Nothing in the
  CPU guarantees it; `MemPath` states it as the client's obligation `Aligned`.
* A reset of a running CPU leaves the CSR memory; `ShadowsSound` says what is
  still guaranteed.

## 6. Plan

Done: the memory path with its abstract memory; CPU control, traps and tags;
timer and its services; allocator; UART with its abstract channel; both bus
masters with the FPGA's registers and the host's driver; ALU and divider
prototype; the watchdogs of the simulation bench; the theorems of section 4.

Left, in order of importance:

1. Composition of `Core` with `WbTimer` for mip.MTIP.
2. A halted CPU: what still holds of `ControlInv` when `external_halt_i` may come at
   any tick, beyond the two findings.
