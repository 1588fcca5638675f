-------------------------------- MODULE WbRam --------------------------------
(***************************************************************************)
(* The tagged RAM (rtl/ram/wb_ram.v) with its two synchronous memories     *)
(* (rtl/ram/generic_ram.v): data words and one 4-bit tag per granule.      *)
(* RamTick is one positive clock edge; its argument holds the values of    *)
(* the input wires before the edge.                                        *)
(***************************************************************************)
EXTENDS Words

CONSTANTS
  RamTop,      \* highest address bit the RAM decodes: log2(WB_RAM_WORDS) + 1
  GranuleLow   \* log2(GRANULE_SIZE_BYTES); 4 in the SoC

ASSUME RamAssumption ==
  /\ RamTop \in Int /\ GranuleLow \in Int
  /\ 2 <= GranuleLow /\ GranuleLow <= RamTop /\ RamTop < 28

VARIABLES
  mem,         \* ram0.mem: the data words
  tagMem,      \* tag0.mem: the tags of the granules
  ramData,     \* ram0.data_o, registered read port
  tagData,     \* tag0.data_o, registered read port
  ramState,    \* state
  ack,         \* ack
  irq,         \* irq, driven out as tag_mismatch_o
  ramWe,       \* ram_we_r
  tagWe,       \* tag_we_r
  tagMismatch  \* tag_mismatch

ramVars == <<mem, tagMem, ramData, tagData, ramState, ack, irq, ramWe, tagWe,
             tagMismatch>>

Tag == SUBSET (0..3)
WordIndex == SUBSET (2..RamTop)
Granule == SUBSET (GranuleLow..RamTop)

\* WB_SEL_*; "NONE" is the value 0 the bus drives between transactions.
DataSel == {"BYTE", "HALF", "WORD"}
Sel == DataSel \cup {"TAG", "NONE"}

\* The parts of an address the RAM looks at.
IndexOf(addr) == addr \cap (2..RamTop)
GranuleOf(addr) == addr \cap (GranuleLow..RamTop)
TagOf(addr) == Bits(addr, 31, 28)
ByteOffset(addr) == addr \cap {0, 1}

\* wb_data_out: the addressed part of the word read on the last edge.
RamDataOut(i) ==
  LET off == ByteOffset(i.addr)
  IN  CASE ~i.cyc \/ i.sel = "NONE" -> {}
        [] i.cyc /\ i.sel = "BYTE" ->
             IF off = {} THEN Bits(ramData, 7, 0)
             ELSE IF off = {0} THEN Bits(ramData, 15, 8)
             ELSE IF off = {1} THEN Bits(ramData, 23, 16)
             ELSE Bits(ramData, 31, 24)
        [] i.cyc /\ i.sel = "HALF" ->
             IF off = {} THEN Bits(ramData, 15, 0) ELSE Bits(ramData, 31, 16)
        [] i.cyc /\ i.sel = "WORD" -> ramData
        [] i.cyc /\ i.sel = "TAG" -> tagData
\* Mutation: a byte or half store without the read-modify-write.
DataToWrite_NoMerge(i) == i.data

\* The word read on the last edge, width bits from lo replaced by data.
Merge(data, lo, width) == (ramData \ (lo .. lo + width - 1))
                            \cup Shl(data \cap (0 .. width - 1), lo)

\* data_to_write: a byte or a half is merged into the word read on the last
\* edge; a half at an odd address writes zero to the whole word.
DataToWrite(i) ==
  LET off == ByteOffset(i.addr)
  IN  CASE i.sel = "BYTE" ->
             IF off = {} THEN Merge(i.data, 0, 8)
             ELSE IF off = {0} THEN Merge(i.data, 8, 8)
             ELSE IF off = {1} THEN Merge(i.data, 16, 8)
             ELSE Merge(i.data, 24, 8)
        [] i.sel = "HALF" ->
             IF off = {} THEN Merge(i.data, 0, 16)
             ELSE IF off = {1} THEN Merge(i.data, 16, 16) ELSE {}
        [] i.sel = "WORD" -> i.data
        [] i.sel \in {"TAG", "NONE"} -> {}
\* Mutation: the tag memory takes the whole data word.
MemoryPorts_WideTag(i) ==
  /\ mem' = IF ramWe THEN [mem EXCEPT ![IndexOf(i.addr)] = DataToWrite(i)]
                     ELSE mem
  /\ tagMem' = IF tagWe THEN [tagMem EXCEPT ![GranuleOf(i.addr)] = i.data]
                        ELSE tagMem
  /\ ramData' = mem[IndexOf(i.addr)]
  /\ tagData' = tagMem[GranuleOf(i.addr)]

\* Both generic_ram instances: write port, then the registered read port,
\* which returns the contents from before the edge.
MemoryPorts(i) ==
  /\ mem' = IF ramWe THEN [mem EXCEPT ![IndexOf(i.addr)] = DataToWrite(i)]
                     ELSE mem
  /\ tagMem' = IF tagWe
               THEN [tagMem EXCEPT ![GranuleOf(i.addr)] = Bits(i.data, 3, 0)]
               ELSE tagMem
  /\ ramData' = mem[IndexOf(i.addr)]
  /\ tagData' = tagMem[GranuleOf(i.addr)]
\* Mutation: irq is a pulse instead of sticky.
MismatchLatch_Pulse(i) == irq' = (~i.clear /\ tagMismatch)

\* irq is sticky until clear_mismatch_i.
MismatchLatch(i) == irq' = (~i.clear /\ (tagMismatch \/ irq))
\* Mutation: lt and st are not acknowledged.
RamIdle_NoTagAck(i) ==
  LET ramAccessed == i.cyc /\ i.sel \in DataSel
      tagAccessed == i.cyc /\ i.sel = "TAG"
      doneInOneTick == ~(i.we /\ i.sel \in {"BYTE", "HALF"})
  IN  /\ ramState = "IDLE"
      /\ ramState' = IF ~(ramAccessed \/ tagAccessed) THEN "IDLE"
                     ELSE IF doneInOneTick THEN "STOP" ELSE "WRITE_WORD"
      /\ ack' = ramAccessed
      /\ ramWe' = (ramAccessed /\ i.we)
      /\ tagWe' = (tagAccessed /\ i.we)
      /\ tagMismatch' = FALSE

\* STATE_IDLE: accept a transaction, acknowledge it on the next tick.
RamIdle(i) ==
  LET ramAccessed == i.cyc /\ i.sel \in DataSel
      tagAccessed == i.cyc /\ i.sel = "TAG"
      doneInOneTick == ~(i.we /\ i.sel \in {"BYTE", "HALF"})
  IN  /\ ramState = "IDLE"
      /\ ramState' = IF ~(ramAccessed \/ tagAccessed) THEN "IDLE"
                     ELSE IF doneInOneTick THEN "STOP" ELSE "WRITE_WORD"
      /\ ack' = (ramAccessed \/ tagAccessed)
      /\ ramWe' = (ramAccessed /\ i.we)
      /\ tagWe' = (tagAccessed /\ i.we)
      /\ tagMismatch' = FALSE
\* Mutation: the write strobe stays up for the extra tick.
RamWriteWord_KeepsStrobe ==
  /\ ramState = "WRITE_WORD"
  /\ ramState' = "STOP"
  /\ ack' = FALSE /\ ramWe' = ramWe /\ tagWe' = FALSE /\ tagMismatch' = FALSE

\* STATE_WRITE_WORD: the extra tick of a byte or half write.
RamWriteWord ==
  /\ ramState = "WRITE_WORD"
  /\ ramState' = "STOP"
  /\ ack' = FALSE /\ ramWe' = FALSE /\ tagWe' = FALSE /\ tagMismatch' = FALSE

\* STATE_STOP: compare the tag in the address with the tag of the granule.
RamStop(i) ==
  /\ ramState = "STOP"
  /\ ramState' = "IDLE"
  /\ tagMismatch' = (i.check /\ TagOf(i.addr) # tagData)
  /\ ack' = FALSE /\ ramWe' = FALSE /\ tagWe' = FALSE

RamTick(i) ==
  /\ MemoryPorts(i)
  /\ MismatchLatch(i)
  /\ RamIdle(i) \/ RamWriteWord \/ RamStop(i)

\* wb_rst_i: the control registers are cleared, the memories are not.
RamReset(i) ==
  /\ MemoryPorts(i)
  /\ ramState' = "IDLE"
  /\ ack' = FALSE /\ irq' = FALSE /\ ramWe' = FALSE /\ tagWe' = FALSE
  /\ tagMismatch' = FALSE

RamTypeOK ==
  /\ mem \in [WordIndex -> Word]
  /\ tagMem \in [Granule -> Tag]
  /\ ramData \in Word
  /\ tagData \in Tag
  /\ ramState \in {"IDLE", "WRITE_WORD", "STOP"}
  /\ ack \in BOOLEAN /\ irq \in BOOLEAN
  /\ ramWe \in BOOLEAN /\ tagWe \in BOOLEAN
  /\ tagMismatch \in BOOLEAN

=============================================================================
