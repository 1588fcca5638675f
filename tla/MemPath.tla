------------------------------- MODULE MemPath -------------------------------
(***************************************************************************)
(* The memory path: the CPU's bus master wired to the tagged RAM (soc.v),  *)
(* driven by a client that does what cpu.v does in PRE_FETCH, LOAD1 and    *)
(* STORE1: present an access for one tick, together with a new value of    *)
(* the check_tags register, and wait until the bus is no longer busy.      *)
(***************************************************************************)
EXTENDS BusRam

CONSTANTS
  Ops,         \* bus operations the program performs
  Addresses,   \* addresses the CPU uses
  DataValues,  \* values it stores
  NoRequest    \* "no access in flight" of the abstract memory

ASSUME ClientAssumption == /\ Ops \subseteq BusOp
                           /\ Addresses \subseteq Word
                           /\ DataValues \subseteq Word

\* NoRequest is told apart from every access.
ASSUME NoRequestAssumption ==
  NoRequest \notin [op : BusOp, addr : Word, data : Word, check : BOOLEAN]

VARIABLE check   \* check_tags of cpu.v

vars == <<ramVars, busVars, check>>

\* One clock edge with the current check_tags.
Clock(en, op, addr, data, clear) ==
  BusRamTick(en, op, addr, data, check, clear)

\* The RAM's own assertion: a half access has an even address.
Aligned(op, addr) == op \in {"READH", "READHU", "WRITEH"} => 0 \notin addr

\* bus_en: tag checks never apply to the lt and st operations.
Issue(op, addr, data, chk) ==
  /\ ~busy
  /\ Aligned(op, addr)
  /\ op \in {"READT", "WRITET"} => ~chk
  /\ Clock(TRUE, op, addr, data, FALSE)
  /\ check' = chk

\* The CPU waits for the bus, or does something else.
Wait ==
  /\ Clock(FALSE, "READW", adr, dat, FALSE)
  /\ UNCHANGED check

\* tags_irq_clear: the CPU writes IACK.  It is a CSR access, which the CPU
\* makes while no memory access or tag comparison is under way
\* (ClearWhenQuiet of Core).
ClearIrq ==
  /\ ~busy /\ ramState = "IDLE" /\ ~tagMismatch
  /\ Clock(FALSE, "READW", adr, dat, TRUE)
  /\ UNCHANGED check

\* rst_i: resets the RAM, the CPU's check_tags, but not the bus master.  A
\* reset that comes with a new access is in Core.
Reset ==
  /\ RamReset(RamInputs(check, FALSE))
  /\ BusTick(FALSE, "READW", adr, dat, ack, RamDataOut(RamInputs(check, FALSE)))
  /\ check' = FALSE

Init ==
  /\ mem = [w \in WordIndex |-> {}]
  /\ tagMem = [g \in Granule |-> {}]
  /\ ramData = {} /\ tagData = {}
  /\ ramState = "IDLE"
  /\ ack = FALSE /\ irq = FALSE /\ ramWe = FALSE /\ tagWe = FALSE
  /\ tagMismatch = FALSE
  /\ busOp = "READB" /\ buffer = {}
  /\ busy = FALSE /\ cyc = FALSE /\ we = FALSE
  /\ sel = "NONE" /\ adr = {} /\ dat = {}
  /\ check = FALSE

Next ==
  \/ \E op \in Ops, addr \in Addresses, data \in DataValues, chk \in BOOLEAN :
       Issue(op, addr, data, chk)
  \/ Wait
  \/ ClearIrq
  \/ Reset

\* The clock never stops: a tick without a new request always happens.
Spec == Init /\ [][Next]_vars
FairSpec == Spec /\ WF_vars(Wait)

-----------------------------------------------------------------------------
\* Every register of the memory path holds a value of its width.
TypeOK == RamTypeOK /\ BusTypeOK /\ check \in BOOLEAN

\* The tag in the address on the bus differs from the tag of the granule.
Mismatch == TagOf(adr) # tagMem[GranuleOf(adr)]

\* Every access the CPU starts is acknowledged: wb_ram.v never leaves the
\* bus master waiting, even across a reset of the RAM.
AccessCompletes == busy ~> ~busy

\* The abstract memory the path implements: the bytes of the words, the
\* access the bus master is busy with, and a violation that is due from the
\* edge that completes the access until irq is latched.
Bytes == [w \in WordIndex |-> [k \in 0..3 |-> Bits(mem[w], 8 * k + 7, 8 * k)]]
Access == [op |-> busOp, addr |-> adr, data |-> dat, check |-> check]
Request == IF busy THEN Access ELSE NoRequest
Due == tagMismatch \/ (WritingBack /\ check /\ Mismatch)

AM == INSTANCE TaggedMemory WITH
        bytes <- Bytes, tags <- tagMem, request <- Request, reply <- buffer,
        due <- Due, alarm <- irq

\* Loads, stores, lt and st through bus and RAM are atomic accesses to a
\* byte memory with tags, and each violation raises irq before the next
\* access takes effect, whatever the spacing of the accesses.  Acknowledgement
\* and reset are inputs of the memory, which may come at any time; that the
\* CPU acknowledges when it should is ClearWhenQuiet and OnlyTagsAcknowledge.
ImplementsTaggedMemory == AM!AmSpec

=============================================================================
