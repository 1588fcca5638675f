---------------------------- MODULE BusRam_proofs ----------------------------
(***************************************************************************)
(* Facts about one clock edge of the bus master and the tagged RAM, for    *)
(* RAMs and granules of every size, whatever drives the bus master.        *)
(***************************************************************************)
EXTENDS BusRam, TLAPS

-----------------------------------------------------------------------------
(* Words. *)

\* A part select of a word is a word.
LEMMA BitsType == ASSUME NEW w \in Word, NEW hi \in 0..31, NEW lo \in 0..31
                  PROVE  Bits(w, hi, lo) \in Word
BY SMT DEF Bits, Word

\* The part select st uses is a tag.
LEMMA NibbleType == ASSUME NEW w \in Word PROVE Bits(w, 3, 0) \in Tag
BY SMT DEF Bits, Word, Tag

\* A value of some width fits in a word at any position with that much room.
LEMMA ShlType == ASSUME NEW w, NEW width \in Nat, NEW n \in Nat,
                        w \subseteq 0 .. width - 1, n + width <= 32
                 PROVE  Shl(w, n) \in Word
BY SMT DEF Shl, Word

\* Sign extension yields a word.
LEMMA SignExtType == ASSUME NEW w \in Word, NEW top \in 0..31
                     PROVE  SignExt(w, top) \in Word
BY SMT DEF SignExt, Word

-----------------------------------------------------------------------------
(* The combinational outputs have the width of their wires. *)

\* What the RAM drives onto the data lines is a word.
LEMMA RamDataOutType ==
  ASSUME RamTypeOK, BusTypeOK, NEW chk \in BOOLEAN,
         NEW clear \in BOOLEAN
  PROVE  RamDataOut(RamInputs(chk, clear)) \in Word
<1>1. /\ ramData \in Word /\ {} \in Word /\ tagData \in Word
      /\ sel \in {"BYTE", "HALF", "WORD", "TAG", "NONE"} /\ cyc \in BOOLEAN
  BY SMT DEF RamTypeOK, BusTypeOK, Word, Tag
<1>2. /\ Bits(ramData, 7, 0) \in Word /\ Bits(ramData, 15, 8) \in Word
      /\ Bits(ramData, 23, 16) \in Word /\ Bits(ramData, 31, 24) \in Word
      /\ Bits(ramData, 15, 0) \in Word /\ Bits(ramData, 31, 16) \in Word
  BY <1>1, BitsType, SMT
<1> DEFINE i == RamInputs(chk, clear)
<1>3. i.cyc = cyc /\ i.sel = sel
  BY DEF RamInputs
<1> QED
  BY <1>1, <1>2, <1>3, SMT DEF RamDataOut

\* The word a byte or half store writes back is a word.
LEMMA MergeType ==
  ASSUME RamTypeOK, BusTypeOK, NEW lo \in Nat, NEW width \in Nat, lo + width <= 32
  PROVE  Merge(dat, lo, width) \in Word
<1>1. Shl(dat \cap (0 .. width - 1), lo) \in Word
  BY ShlType
<1>2. ramData \in Word
  BY DEF RamTypeOK
<1> QED BY <1>1, <1>2 DEF Word, Merge

\* So is the word at the RAM's write port.
LEMMA DataToWriteType ==
  ASSUME RamTypeOK, BusTypeOK, NEW chk \in BOOLEAN,
         NEW clear \in BOOLEAN
  PROVE  DataToWrite(RamInputs(chk, clear)) \in Word
<1> DEFINE i == RamInputs(chk, clear)
<1>1. i.data = dat /\ i.sel = sel
  BY DEF RamInputs
<1>2. /\ dat \in Word /\ {} \in Word
      /\ sel \in {"BYTE", "HALF", "WORD", "TAG", "NONE"}
  BY SMT DEF BusTypeOK, Word
<1>3. /\ Merge(dat, 0, 8) \in Word /\ Merge(dat, 8, 8) \in Word
      /\ Merge(dat, 16, 8) \in Word /\ Merge(dat, 24, 8) \in Word
      /\ Merge(dat, 0, 16) \in Word /\ Merge(dat, 16, 16) \in Word
  BY MergeType
<1> QED
  BY <1>1, <1>2, <1>3, SMT DEF DataToWrite

\* The bus master extends what it reads to a word.
LEMMA DataFromBusType ==
  ASSUME BusTypeOK, NEW d \in Word
  PROVE  DataFromBus(d) \in Word
<1>1. /\ d \cap (0..15) \in Word /\ d \cap (0..7) \in Word
      /\ d \cap (0..3) \in Word /\ NoSelectData \in Word
  BY SMT DEF Word, NoSelectData
<1>2. /\ SignExt(d \cap (0..15), 15) \in Word
      /\ SignExt(d \cap (0..7), 7) \in Word
  BY <1>1, SignExtType, SMT
<1> QED
  BY <1>1, <1>2, SMT DEF DataFromBus, BusTypeOK

-----------------------------------------------------------------------------
(* One edge keeps every register within its width. *)

\* Both memories and their read ports.
LEMMA MemoryPortsType ==
  ASSUME RamTypeOK, BusTypeOK, NEW chk \in BOOLEAN,
         NEW clear \in BOOLEAN,
         MemoryPorts(RamInputs(chk, clear))
  PROVE  /\ mem' \in [WordIndex -> Word] /\ tagMem' \in [Granule -> Tag]
         /\ ramData' \in Word /\ tagData' \in Tag
<1> DEFINE i == RamInputs(chk, clear)
<1>1. i.addr = adr /\ i.data = dat
  BY DEF RamInputs
<1>2. /\ mem \in [WordIndex -> Word] /\ tagMem \in [Granule -> Tag]
      /\ dat \in Word
  BY DEF RamTypeOK, BusTypeOK
<1>3. IndexOf(adr) \in WordIndex /\ GranuleOf(adr) \in Granule
  BY DEF IndexOf, GranuleOf, WordIndex, Granule
<1>4. DataToWrite(i) \in Word /\ Bits(dat, 3, 0) \in Tag
  BY <1>2, DataToWriteType, NibbleType
<1> QED
  BY <1>1, <1>2, <1>3, <1>4 DEF MemoryPorts

\* The bus master's registers.
LEMMA BusTickType ==
  ASSUME BusTypeOK, NEW en \in BOOLEAN, NEW op \in BusOp, NEW addr \in Word,
         NEW data \in Word, NEW d \in Word, ack \in BOOLEAN,
         BusTick(en, op, addr, data, ack, d)
  PROVE  BusTypeOK'
<1>1. DataFromBus(d) \in Word
  BY DataFromBusType
<1>2. MemSel(op) \in {"BYTE", "HALF", "WORD", "TAG"}
  BY DEF MemSel, BusOp, ReadOp, WriteOp
<1> QED
  BY <1>1, <1>2 DEF BusTypeOK, BusTick

\* All registers of the pair.
LEMMA ClockType ==
  ASSUME RamTypeOK, BusTypeOK, NEW en \in BOOLEAN, NEW op \in BusOp,
         NEW addr \in Word,
         NEW data \in Word, NEW chk \in BOOLEAN, NEW clear \in BOOLEAN,
         BusRamTick(en, op, addr, data, chk, clear)
  PROVE  RamTypeOK' /\ BusTypeOK'
<1> DEFINE i == RamInputs(chk, clear)
<1>1. RamDataOut(i) \in Word
  BY RamDataOutType
<1>2. BusTypeOK'
  BY <1>1, BusTickType DEF BusRamTick, RamTypeOK
<1>3. RamTick(i)
  BY DEF BusRamTick
<1>4. /\ mem' \in [WordIndex -> Word] /\ tagMem' \in [Granule -> Tag]
      /\ ramData' \in Word /\ tagData' \in Tag
  BY <1>3, MemoryPortsType DEF RamTick
<1>5. irq' \in BOOLEAN
  BY <1>3 DEF RamTick, MismatchLatch
<1>6. /\ ramState' \in {"IDLE", "WRITE_WORD", "STOP"}
      /\ ack' \in BOOLEAN /\ ramWe' \in BOOLEAN /\ tagWe' \in BOOLEAN
      /\ tagMismatch' \in BOOLEAN
  BY <1>3 DEF RamTick, RamIdle, RamWriteWord, RamStop
<1> QED
  BY <1>2, <1>4, <1>5, <1>6 DEF RamTypeOK

-----------------------------------------------------------------------------
(* The handshake.  It is inductive together with the types.  An edge of the *)
(* memory ports and of the RAM's machine is described by the phase of the  *)
(* transaction; what the client does only matters in the phases without    *)
(* CYC_O.                                                                  *)

\* CYC_O, the acknowledgement and the RAM's state before the edge determine
\* the phase after it.
LEMMA PhaseStep ==
  ASSUME RamTypeOK, BusTypeOK, Handshake, NEW en \in BOOLEAN,
         NEW op \in BusOp, NEW addr,
         NEW data, NEW chk \in BOOLEAN, NEW clear \in BOOLEAN, en => ~busy,
         BusRamTick(en, op, addr, data, chk, clear)
  PROVE  /\ busy' = cyc'
         /\ (Quiet \/ Requested \/ Acknowledged \/ WritingBack)'
         /\ cyc' => sel' = MemSel(busOp') /\ we' = (busOp' \in WriteOp)
         /\ ramWe' = (ack' /\ we' /\ sel' \in DataSel)
         /\ tagWe' = (ack' /\ we' /\ sel' = "TAG")
         /\ tagMismatch' => ~ack' /\ ramState' = "IDLE"
<1> DEFINE i == RamInputs(chk, clear)
<1>1. i.cyc = cyc /\ i.we = we /\ i.sel = sel /\ i.check = chk
  BY DEF RamInputs
<1>2. MemSel(busOp) \in DataSel \cup {"TAG"}
  BY DEF MemSel, BusTypeOK, BusOp, ReadOp, WriteOp, DataSel
<1>3. /\ busy' = (~ack /\ (en \/ busy))
      /\ cyc' = (~ack /\ (en \/ cyc))
      /\ we' = (~ack /\ IF en THEN op \in WriteOp ELSE we)
      /\ sel' = IF ack THEN "NONE" ELSE IF en THEN MemSel(op) ELSE sel
      /\ busOp' = IF en THEN op ELSE busOp
  BY DEF BusRamTick, BusTick
<1>4. RamIdle(i) \/ RamWriteWord \/ RamStop(i)
  BY DEF BusRamTick, RamTick
<1>5. /\ busy \in BOOLEAN /\ cyc \in BOOLEAN /\ we \in BOOLEAN /\ ack \in BOOLEAN
  BY DEF RamTypeOK, BusTypeOK
<1>6. CASE Quiet
  BY <1>1, <1>3, <1>4, <1>5, <1>6
     DEF Handshake, Quiet, Requested, RamIdle, RamWriteWord, RamStop
<1>7. CASE Requested
  BY <1>1, <1>2, <1>3, <1>4, <1>5, <1>7
     DEF Handshake, Requested, Acknowledged, RamIdle, RamWriteWord, RamStop, DataSel
<1>8. CASE Acknowledged
  BY <1>1, <1>3, <1>4, <1>5, <1>8
     DEF Handshake, Quiet, Acknowledged, WritingBack, RamIdle, RamWriteWord, RamStop
<1>9. CASE WritingBack
  <2>1. /\ ramState' = "IDLE" /\ ~ack' /\ ack' = FALSE /\ ramWe' = FALSE
        /\ tagWe' = FALSE
    BY <1>4, <1>9 DEF WritingBack, RamIdle, RamWriteWord, RamStop
  <2>2. /\ busy' = en /\ cyc' = en /\ busOp' = IF en THEN op ELSE busOp
        /\ en => sel' = MemSel(op) /\ we' = (op \in WriteOp)
    BY <1>3, <1>5, <1>9 DEF Handshake, WritingBack
  <2> QED BY <2>1, <2>2 DEF Quiet, Requested
<1>10. Quiet \/ Requested \/ Acknowledged \/ WritingBack
  BY DEF Handshake
<1> QED BY <1>6, <1>7, <1>8, <1>9, <1>10

\* The registered read ports follow the bus address, which only changes when
\* no transaction is acknowledged or written back.
LEMMA ReadPortStep ==
  ASSUME RamTypeOK, BusTypeOK, Handshake, NEW en \in BOOLEAN,
         NEW op \in BusOp, NEW addr,
         NEW data, NEW chk \in BOOLEAN, NEW clear \in BOOLEAN, en => ~busy,
         BusRamTick(en, op, addr, data, chk, clear)
  PROVE  /\ ack' => ramData' = mem'[IndexOf(adr')]
         /\ ack' \/ ramState' = "STOP" => tagData' = tagMem'[GranuleOf(adr')]
<1> DEFINE i == RamInputs(chk, clear)
<1>1. i.addr = adr /\ i.cyc = cyc /\ i.sel = sel
  BY DEF RamInputs
<1>2. MemoryPorts(i) /\ (RamIdle(i) \/ RamWriteWord \/ RamStop(i))
  BY DEF BusRamTick, RamTick
<1>3. adr' = IF en THEN addr ELSE adr
  BY DEF BusRamTick, BusTick
<1>4. ASSUME ack' \/ ramState' = "STOP" PROVE cyc /\ ~tagWe /\ (ack' => ~ramWe)
  BY <1>1, <1>2, <1>4
     DEF RamIdle, RamWriteWord, RamStop, Handshake, Quiet, Requested,
         Acknowledged, WritingBack
<1>5. cyc => adr' = adr
  BY <1>3 DEF Handshake
<1> QED
  BY <1>1, <1>2, <1>4, <1>5 DEF MemoryPorts

\* One clock edge preserves the handshake.
LEMMA ClockHandshake ==
  ASSUME RamTypeOK, BusTypeOK, Handshake, NEW en \in BOOLEAN,
         NEW op \in BusOp, NEW addr,
         NEW data, NEW chk \in BOOLEAN, NEW clear \in BOOLEAN, en => ~busy,
         BusRamTick(en, op, addr, data, chk, clear)
  PROVE  Handshake'
BY PhaseStep, ReadPortStep DEF Handshake, Quiet, Requested, Acknowledged, WritingBack

=============================================================================
