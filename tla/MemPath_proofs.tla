--------------------------- MODULE MemPath_proofs ---------------------------
(***************************************************************************)
(* Proofs about the memory path for RAMs and granules of every size and    *)
(* any set of operations, addresses and data: types, the handshake, and    *)
(* that the path implements the tagged memory of TaggedMemory.             *)
(***************************************************************************)
EXTENDS MemPath, BusRam_proofs

-----------------------------------------------------------------------------
\* Every register of bus master and RAM keeps its type, for every size of
\* RAM and granule.
THEOREM TypeCorrect == Spec => []TypeOK
<1>1. Init => TypeOK
  BY DEF Init, TypeOK, RamTypeOK, BusTypeOK, Word, Tag, BusOp, ReadOp, WordIndex,
         Granule
<1>2. TypeOK /\ [Next]_vars => TypeOK'
  <2> SUFFICES ASSUME TypeOK, [Next]_vars PROVE TypeOK'
    OBVIOUS
  <2>0. adr \in Word /\ dat \in Word /\ "READW" \in BusOp
    BY DEF TypeOK, BusTypeOK, BusOp, ReadOp
  <2>1. ASSUME NEW op \in Ops, NEW addr \in Addresses, NEW data \in DataValues,
               NEW chk \in BOOLEAN, Issue(op, addr, data, chk)
        PROVE  TypeOK'
    <3>1. op \in BusOp /\ addr \in Word /\ data \in Word
      BY ClientAssumption
    <3> QED BY <2>1, <3>1, ClockType DEF Issue, Clock, TypeOK
  <2>2. CASE Wait
    BY <2>0, <2>2, ClockType DEF Wait, Clock, TypeOK
  <2>3. CASE ClearIrq
    BY <2>0, <2>3, ClockType DEF ClearIrq, Clock, TypeOK
  <2>4. CASE Reset
    <3>1. RamDataOut(RamInputs(check, FALSE)) \in Word
      BY RamDataOutType DEF TypeOK
    <3>2. BusTypeOK'
      BY <2>0, <2>4, <3>1, BusTickType DEF Reset, TypeOK, RamTypeOK
    <3>3. RamTypeOK'
      BY <2>4, MemoryPortsType DEF Reset, RamReset, TypeOK, RamTypeOK
    <3> QED BY <2>4, <3>2, <3>3 DEF Reset, TypeOK
  <2>5. CASE UNCHANGED vars
    BY <2>5 DEF vars, ramVars, busVars, TypeOK, RamTypeOK, BusTypeOK
  <2> QED BY <2>1, <2>2, <2>3, <2>4, <2>5 DEF Next
<1> QED BY <1>1, <1>2, PTL DEF Spec

-----------------------------------------------------------------------------
\* For every RAM: busy and CYC_O agree, every transaction passes through its
\* phases in order, and exactly one write strobe per store is raised, with
\* the read ports holding the addressed word and tag.
THEOREM HandshakeCorrect == Spec => []Handshake
<1>1. Init => Handshake
  BY DEF Init, Handshake, Quiet, DataSel
<1>2. TypeOK /\ Handshake /\ [Next]_vars => Handshake'
  <2> SUFFICES ASSUME TypeOK, Handshake, [Next]_vars PROVE Handshake'
    OBVIOUS
  <2>0. "READW" \in BusOp
    BY DEF BusOp, ReadOp
  <2>1. ASSUME NEW op \in Ops, NEW addr \in Addresses, NEW data \in DataValues,
               NEW chk \in BOOLEAN, Issue(op, addr, data, chk)
        PROVE  Handshake'
    <3>1. op \in BusOp
      BY ClientAssumption
    <3> QED BY <2>1, <3>1, ClockHandshake DEF Issue, Clock, TypeOK
  <2>2. CASE Wait
    BY <2>0, <2>2, ClockHandshake DEF Wait, Clock, TypeOK
  <2>3. CASE ClearIrq
    BY <2>0, <2>3, ClockHandshake DEF ClearIrq, Clock, TypeOK
  <2>4. CASE Reset
    <3>1. /\ busy' = (~ack /\ busy) /\ cyc' = (~ack /\ cyc) /\ busOp' = busOp
          /\ we' = (~ack /\ we) /\ sel' = IF ack THEN "NONE" ELSE sel
      BY <2>4 DEF Reset, BusTick
    <3>2. /\ ramState' = "IDLE" /\ ack' = FALSE /\ ramWe' = FALSE
          /\ tagWe' = FALSE /\ tagMismatch' = FALSE
      BY <2>4 DEF Reset, RamReset
    <3>3. busy \in BOOLEAN /\ cyc \in BOOLEAN /\ we \in BOOLEAN /\ ack \in BOOLEAN
      BY DEF TypeOK, RamTypeOK, BusTypeOK
    <3> QED
      BY <3>1, <3>2, <3>3 DEF Handshake, Quiet, Requested, Acknowledged, WritingBack
  <2>5. CASE UNCHANGED vars
    BY <2>5 DEF vars, ramVars, busVars, Handshake, Quiet, Requested, Acknowledged,
                WritingBack
  <2> QED BY <2>1, <2>2, <2>3, <2>4, <2>5 DEF Next
<1> QED BY <1>1, <1>2, TypeCorrect, PTL DEF Spec

-----------------------------------------------------------------------------
(* Byte lanes.  Registers hold words, the abstract memory holds four bytes *)
(* per word: these lemmas say that the part selects of wb_ram.v and        *)
(* wb_cpu_bus.v are the lanes the abstract memory gathers and scatters.    *)

\* Lane k of a word.
Byte(w, k) == Bits(w, 8 * k + 7, 8 * k)

\* Membership in a part select.
LEMMA InBits ==
  ASSUME NEW w \in Word, NEW hi \in Nat, NEW lo \in Nat, NEW j
  PROVE  j \in Bits(w, hi, lo) <=> j \in Nat /\ j + lo \in w /\ j + lo <= hi
BY SMT DEF Bits, Word

\* Membership in a shifted value.
LEMMA InShl ==
  ASSUME NEW w \in SUBSET Int, NEW n \in Int, NEW m \in Int
  PROVE  m \in Shl(w, n) <=> m - n \in w
<1>1. ASSUME m \in Shl(w, n) PROVE m - n \in w
  <2>1. PICK i \in w : m = i + n
    BY <1>1 DEF Shl
  <2> QED BY <2>1, SMT
<1>2. ASSUME m - n \in w PROVE m \in Shl(w, n)
  <2>1. m = (m - n) + n
    BY SMT
  <2> QED BY <1>2, <2>1 DEF Shl
<1> QED BY <1>1, <1>2

\* Merging n bytes of data at lane l into a word replaces the lanes they
\* cover and keeps the others.
LEMMA MergeLanes ==
  ASSUME TypeOK, NEW l \in 0..3, NEW n \in 1..2, l + n <= 4, NEW k \in 0..3
  PROVE  Byte(Merge(dat, 8 * l, 8 * n), k) =
           IF l <= k /\ k < l + n THEN Byte(dat, k - l) ELSE Byte(ramData, k)
<1> DEFINE M == Merge(dat, 8 * l, 8 * n)
<1>1. dat \in Word /\ ramData \in Word
  BY DEF TypeOK, RamTypeOK, BusTypeOK
<1>2. M \in Word
  BY MergeType, SMT DEF TypeOK
<1>3. \A j : j \in Byte(M, k) <=> j \in Nat /\ j + 8 * k \in M /\ j <= 7
  BY <1>2, InBits, SMT DEF Byte
<1>4. \A m \in Int : m \in M <=>
               \/ m \in ramData /\ ~(8 * l <= m /\ m < 8 * l + 8 * n)
               \/ m - 8 * l \in dat /\ 8 * l <= m /\ m < 8 * l + 8 * n
  <2> TAKE m \in Int
  <2>1. m \in Shl(dat \cap (0 .. 8 * n - 1), 8 * l)
          <=> m - 8 * l \in dat \cap (0 .. 8 * n - 1)
    BY <1>1, InShl, SMT DEF Word
  <2> QED BY <1>1, <2>1, SMT DEF Merge, Word
<1>5. CASE l <= k /\ k < l + n
  <2>1. \A j : j \in Byte(dat, k - l) <=>
                 j \in Nat /\ j + 8 * (k - l) \in dat /\ j <= 7
    BY <1>1, <1>5, InBits, SMT DEF Byte
  <2>2. \A j : j \in Byte(M, k) <=> j \in Byte(dat, k - l)
    BY <1>1, <1>3, <1>4, <1>5, <2>1, SMT DEF Word
  <2> QED BY <1>5, <2>2
<1>6. CASE ~(l <= k /\ k < l + n)
  <2>1. \A j : j \in Byte(ramData, k) <=>
                 j \in Nat /\ j + 8 * k \in ramData /\ j <= 7
    BY <1>1, InBits, SMT DEF Byte
  <2>2. \A j : j \in Byte(M, k) <=> j \in Byte(ramData, k)
    BY <1>1, <1>3, <1>4, <1>6, <2>1, SMT DEF Word
  <2> QED BY <1>6, <2>2
<1> QED BY <1>5, <1>6

\* The lowest lane of a byte, a half and a word access.
LEMMA FirstLane ==
  /\ \A l \in 0..3 : AM!First({l}) = l /\ AM!First({l, l + 1}) = l
  /\ AM!First(0..3) = 0
<1>1. ASSUME NEW S \in SUBSET Int, NEW l \in S, \A j \in S : l <= j
      PROVE  AM!First(S) = l
  <2>1. \A k \in S : (\A j \in S : k <= j) => k = l
    BY <1>1, SMT
  <2>2. \E k \in S : \A j \in S : k <= j
    BY <1>1
  <2> QED BY <2>1, <2>2, Zenon DEF AM!First
<1>2. \A l \in 0..3 : AM!First({l}) = l /\ AM!First({l, l + 1}) = l
  BY <1>1, SMT
<1>3. AM!First(0..3) = 0
  BY <1>1, SMT
<1> QED BY <1>2, <1>3

\* Gathering the lanes of a byte, an aligned half or a word yields the part
\* select of the word that the RAM drives onto the bus.
LEMMA GatherLanes ==
  ASSUME NEW w \in Word, NEW b, b = [k \in 0..3 |-> Byte(w, k)]
  PROVE  /\ \A l \in 0..3 : AM!Gather(b, {l}) = Byte(w, l)
         /\ \A l \in 0..2 : AM!Gather(b, {l, l + 1}) = Bits(w, 8 * l + 15, 8 * l)
         /\ AM!Gather(b, 0..3) = w
<1>1. \A k \in 0..3 : b[k] = Byte(w, k)
  OBVIOUS
<1>2. \A k \in 0..3 : \A j : j \in Byte(w, k) <=> j \in Nat /\ j + 8 * k \in w /\ j <= 7
  BY InBits, SMT DEF Byte
<1>3. ASSUME NEW k \in 0..3, NEW n \in Nat, NEW m \in Int
      PROVE  m \in AM!Shl(b[k], n) <=> m >= n /\ m - n + 8 * k \in w /\ m - n <= 7
  <2>1. b[k] \in SUBSET Int
    BY <1>1, <1>2, SMT
  <2>2. AM!Shl(b[k], n) = Shl(b[k], n)
    BY DEF Shl, AM!Shl
  <2>3. m \in Shl(b[k], n) <=> m - n \in b[k]
    BY <2>1, InShl, SMT
  <2> QED BY <1>1, <1>2, <2>2, <2>3, SMT
<1>4. ASSUME NEW L \in SUBSET (0..3), NEW f \in 0..3, AM!First(L) = f,
             \A k \in L : f <= k
      PROVE  \A m : m \in AM!Gather(b, L) <=>
                      /\ m \in Nat
                      /\ \E k \in L : /\ 8 * (k - f) <= m
                                      /\ m <= 8 * (k - f) + 7
                                      /\ m + 8 * f \in w
  <2> TAKE m
  <2>1. m \in AM!Gather(b, L) <=> \E k \in L : m \in AM!Shl(b[k], 8 * (k - f))
    BY <1>4 DEF AM!Gather
  <2>2. ASSUME NEW k \in L
        PROVE  m \in AM!Shl(b[k], 8 * (k - f)) <=>
                 /\ m \in Nat
                 /\ 8 * (k - f) <= m /\ m <= 8 * (k - f) + 7
                 /\ m + 8 * f \in w
    <3>1. k \in 0..3 /\ 8 * (k - f) \in Nat
      BY <1>4, SMT
    <3>2. m \in AM!Shl(b[k], 8 * (k - f)) => m \in Int
      <4>1. b[k] \in SUBSET Int
        BY <1>1, <1>2, <3>1, SMT
      <4> QED BY <3>1, <4>1, SMT DEF AM!Shl
    <3> QED BY <1>3, <3>1, <3>2, SMT
  <2> QED BY <2>1, <2>2
<1>5. ASSUME NEW l \in 0..3 PROVE AM!Gather(b, {l}) = Byte(w, l)
  <2>1. \A m : m \in AM!Gather(b, {l}) <=> m \in Nat /\ m <= 7 /\ m + 8 * l \in w
    <3>1. AM!First({l}) = l /\ {l} \in SUBSET (0..3)
      BY FirstLane
    <3> HIDE DEF Byte
    <3> QED BY <1>4, <3>1, SMT
  <2> QED BY <1>2, <2>1
<1>6. ASSUME NEW l \in 0..2
      PROVE  AM!Gather(b, {l, l + 1}) = Bits(w, 8 * l + 15, 8 * l)
  <2>1. \A m : m \in AM!Gather(b, {l, l + 1}) <=>
                 m \in Nat /\ m <= 15 /\ m + 8 * l \in w
    <3>1. AM!First({l, l + 1}) = l /\ {l, l + 1} \in SUBSET (0..3)
      BY FirstLane, SMT
    <3>2. \A m : m \in AM!Gather(b, {l, l + 1}) <=>
                   /\ m \in Nat
                   /\ \E k \in {l, l + 1} : /\ 8 * (k - l) <= m
                                            /\ m <= 8 * (k - l) + 7
                                            /\ m + 8 * l \in w
      BY <1>4, <3>1, SMT
    <3>3. \A m \in Nat : m <= 15 <=> (m <= 7 \/ (8 <= m /\ m <= 15))
      BY SMT
    <3>4. 8 * (l - l) = 0 /\ 8 * (l + 1 - l) = 8
      BY SMT
    <3> QED BY <3>2, <3>3, <3>4, SMT
  <2>2. \A m : m \in Bits(w, 8 * l + 15, 8 * l) <=>
                 m \in Nat /\ m <= 15 /\ m + 8 * l \in w
    BY InBits, SMT
  <2> QED BY <2>1, <2>2
<1>7. AM!Gather(b, 0..3) = w
  <2>1. \A m : m \in AM!Gather(b, 0..3) <=>
                 m \in Nat /\ m + 8 * 0 \in w /\
                 \E k \in 0..3 : 8 * (k - 0) <= m /\ m <= 8 * (k - 0) + 7
    BY <1>4, FirstLane, SMT
  <2>2. ASSUME NEW m \in w
        PROVE  m \in Nat /\ \E k \in 0..3 : 8 * (k - 0) <= m /\ m <= 8 * (k - 0) + 7
    <3>1. m \in 0..31
      BY DEF Word
    <3>2. m \in 0..7 \/ m \in 8..15 \/ m \in 16..23 \/ m \in 24..31
      BY <3>1, SMT
    <3>3. CASE m \in 0..7   BY <3>3, 0 \in 0..3, SMT
    <3>4. CASE m \in 8..15  BY <3>4, 1 \in 0..3, SMT
    <3>5. CASE m \in 16..23 BY <3>5, 2 \in 0..3, SMT
    <3>6. CASE m \in 24..31 BY <3>6, 3 \in 0..3, SMT
    <3> QED BY <3>2, <3>3, <3>4, <3>5, <3>6
  <2>3. \A m \in Nat : m + 8 * 0 = m
    BY SMT
  <2>4. \A m : m \in AM!Gather(b, 0..3) <=> m \in w
    BY <2>1, <2>2, <2>3, Zenon
  <2> QED BY <2>4
<1> QED BY <1>5, <1>6, <1>7

\* The byte offset of an address selects its lane.
LEMMA LaneOfOffset ==
  ASSUME NEW a \in Word
  PROVE  /\ ByteOffset(a) = {} => AM!Lane(a) = 0
         /\ ByteOffset(a) = {0} => AM!Lane(a) = 1
         /\ ByteOffset(a) = {1} => AM!Lane(a) = 2
         /\ ByteOffset(a) \notin {{}, {0}, {1}} => AM!Lane(a) = 3
         /\ AM!Lane(a) \in 0..3
         /\ 0 \notin a => AM!Lane(a) \in {0, 2} /\ ByteOffset(a) \in {{}, {1}}
BY SMT DEF ByteOffset, AM!Lane

-----------------------------------------------------------------------------
(* What an acknowledged access returns and writes. *)

\* Abstract memory and RAM decode addresses alike.
LEMMA SameDecoding ==
  /\ AM!WordOf(adr) = IndexOf(adr) /\ IndexOf(adr) \in WordIndex
  /\ AM!GranuleIn(adr) = GranuleOf(adr) /\ GranuleOf(adr) \in Granule
  /\ AM!Bits(adr, 31, 28) = TagOf(adr)
BY DEF AM!WordOf, IndexOf, WordIndex, AM!GranuleIn, GranuleOf, Granule, AM!Bits,
       Bits, TagOf

\* Sign extension is the same in both modules.
LEMMA SameSignExt == \A w, t : AM!SignExt(w, t) = SignExt(w, t)
BY DEF AM!SignExt, SignExt

\* A load returns the value of the lanes it covers, extended as the operation
\* says; lt returns the tag of the granule.
LEMMA ReadsValue ==
  ASSUME TypeOK, Handshake, Aligned(busOp, adr), cyc, ack, busOp \in ReadOp,
         NEW clear \in BOOLEAN
  PROVE  DataFromBus(RamDataOut(RamInputs(check, clear))) = AM!Value(Access)
<1> DEFINE i == RamInputs(check, clear)
           w == ramData
           b == [k \in 0..3 |-> Byte(w, k)]
           v == RamDataOut(i)
           L == AM!Lane(adr)
<1>1. /\ w \in Word /\ adr \in Word /\ w = mem[IndexOf(adr)]
      /\ tagData = tagMem[GranuleOf(adr)] /\ tagData \in Tag
      /\ sel = MemSel(busOp)
  BY DEF TypeOK, RamTypeOK, BusTypeOK, Handshake
<1>2. i.cyc = TRUE /\ i.sel = sel /\ i.addr = adr
  BY DEF RamInputs, TypeOK, BusTypeOK
<1>3. Bytes[AM!WordOf(adr)] = b
  BY <1>1, SameDecoding DEF Byte, Bytes
<1>4. Access.op = busOp /\ Access.addr = adr
  BY DEF Access
<1>5. /\ \A l \in 0..3 : AM!Gather(b, {l}) = Byte(w, l)
      /\ \A l \in 0..2 : AM!Gather(b, {l, l + 1}) = Bits(w, 8 * l + 15, 8 * l)
      /\ AM!Gather(b, 0..3) = w
  BY <1>1, GatherLanes
<1>6. CASE busOp \in {"READB", "READBU"}
  <2>1. sel = "BYTE"
    BY <1>1, <1>6 DEF MemSel
  <2>2. v = Byte(w, L) 
    BY <1>1, <1>2, <2>1, LaneOfOffset, SMT DEF RamDataOut, Byte
  <2>3. v \cap (0..7) = v
    <3>1. 8 * L \in Nat /\ 8 * L + 7 \in Nat
      BY <1>1, LaneOfOffset, SMT
    <3>2. \A j : j \in v => j \in Nat /\ j + 8 * L <= 8 * L + 7
      BY <1>1, <2>2, <3>1, InBits DEF Byte
    <3>3. \A j : j \in v => j \in 0..7
      BY <3>1, <3>2, SMT
    <3> QED BY <3>3, Zenon
  <2>4. AM!Gather(b, AM!Lanes(busOp, adr)) = v
    BY <1>1, <1>5, <1>6, <2>2, LaneOfOffset DEF AM!Lanes
  <2> QED
    BY <1>3, <1>4, <1>6, <2>1, <2>3, <2>4, SameSignExt DEF DataFromBus, AM!Value
<1>7. CASE busOp \in {"READH", "READHU"}
  <2>1. sel = "HALF" /\ 0 \notin adr
    BY <1>1, <1>7 DEF MemSel, Aligned
  <2>2. v = Bits(w, 8 * L + 15, 8 * L)
    <3>1. \/ L = 0 /\ ByteOffset(adr) = {}
          \/ L = 2 /\ ByteOffset(adr) = {1}
      BY <1>1, <2>1, LaneOfOffset
    <3>2. v = IF ByteOffset(adr) = {} THEN Bits(w, 15, 0) ELSE Bits(w, 31, 16)
      BY <1>2, <2>1 DEF RamDataOut
    <3> QED BY <3>1, <3>2, SMT
  <2>3. v \cap (0..15) = v
    <3>1. 8 * L \in Nat /\ 8 * L + 15 \in Nat
      BY <1>1, LaneOfOffset, SMT
    <3>2. \A j : j \in v => j \in Nat /\ j + 8 * L <= 8 * L + 15
      BY <1>1, <2>2, <3>1, InBits
    <3>3. \A j : j \in v => j \in 0..15
      BY <3>1, <3>2, SMT
    <3> QED BY <3>3, Zenon
  <2>4. AM!Gather(b, AM!Lanes(busOp, adr)) = v
    <3>1. L \in 0..2 /\ AM!Lanes(busOp, adr) = {L, L + 1}
      BY <1>1, <1>7, <2>1, LaneOfOffset DEF AM!Lanes
    <3> QED BY <1>5, <2>2, <3>1
  <2> QED
    BY <1>3, <1>4, <1>7, <2>1, <2>3, <2>4, SameSignExt DEF DataFromBus, AM!Value
<1>8. CASE busOp = "READW"
  <2>1. sel = "WORD"
    BY <1>1, <1>8 DEF MemSel
  <2>2. v = w
    BY <1>2, <2>1 DEF RamDataOut
  <2>3. AM!Gather(b, AM!Lanes(busOp, adr)) = w
    BY <1>5, <1>8 DEF AM!Lanes
  <2> QED
    BY <1>3, <1>4, <1>8, <2>1, <2>2, <2>3 DEF DataFromBus, AM!Value
<1>9. CASE busOp = "READT"
  <2>1. sel = "TAG"
    BY <1>1, <1>9 DEF MemSel
  <2>2. v = tagData /\ v \cap (0..3) = v
    BY <1>1, <1>2, <2>1 DEF RamDataOut, Tag
  <2> QED
    BY <1>1, <1>4, <1>9, <2>1, <2>2, SameDecoding DEF DataFromBus, AM!Value
<1> QED
  BY <1>6, <1>7, <1>8, <1>9 DEF ReadOp

\* The word a store writes holds the new data in the lanes the store covers
\* and the old data in the others, so the read-modify-write loses nothing.
LEMMA StoresLanes ==
  ASSUME TypeOK, Handshake, Aligned(busOp, adr), cyc, ack,
         busOp \in {"WRITEB", "WRITEH", "WRITEW"}, NEW clear \in BOOLEAN
  PROVE  [k \in 0..3 |-> Byte(DataToWrite(RamInputs(check, clear)), k)]
           = AM!Scatter([k \in 0..3 |-> Byte(ramData, k)], AM!Lanes(busOp, adr), dat)
<1> DEFINE i == RamInputs(check, clear)
           w == ramData
           b == [k \in 0..3 |-> Byte(w, k)]
           L == AM!Lane(adr)
           S == AM!Scatter(b, AM!Lanes(busOp, adr), dat)
           d == DataToWrite(i)
<1>1. w \in Word /\ adr \in Word /\ dat \in Word /\ sel = MemSel(busOp)
  BY DEF TypeOK, RamTypeOK, BusTypeOK, Handshake
<1>2. i.sel = sel /\ i.addr = adr /\ i.data = dat
  BY DEF RamInputs
<1>3. \A f \in 0..3, k \in 0..3 :
        AM!Bits(dat, 8 * (k - f) + 7, 8 * (k - f)) = Byte(dat, k - f)
  BY DEF AM!Bits, Bits, Byte
<1>4. L \in 0..3
  BY <1>1, LaneOfOffset
<1>5. CASE busOp = "WRITEB"
  <2>1. sel = "BYTE" /\ AM!Lanes(busOp, adr) = {L} /\ AM!First({L}) = L
    BY <1>1, <1>4, <1>5, FirstLane DEF MemSel, AM!Lanes
  <2>2. d = Merge(dat, 8 * L, 8 * 1)
    <3>1. d = IF ByteOffset(adr) = {} THEN Merge(dat, 0, 8)
              ELSE IF ByteOffset(adr) = {0} THEN Merge(dat, 8, 8)
              ELSE IF ByteOffset(adr) = {1} THEN Merge(dat, 16, 8)
              ELSE Merge(dat, 24, 8)
      BY <1>2, <2>1 DEF DataToWrite
    <3>2. /\ 8 * 0 = 0 /\ 8 * 1 = 8 /\ 8 * 2 = 16 /\ 8 * 3 = 24
      BY SMT
    <3> QED BY <1>1, <3>1, <3>2, LaneOfOffset
  <2>3. ASSUME NEW k \in 0..3 PROVE Byte(d, k) = S[k]
    <3>1. Byte(d, k) = IF L <= k /\ k < L + 1 THEN Byte(dat, k - L) ELSE Byte(w, k)
      BY <1>4, <2>2, MergeLanes, SMT
    <3>2. S[k] = IF k = L THEN Byte(dat, k - L) ELSE Byte(w, k)
      BY <1>3, <1>4, <2>1 DEF AM!Scatter
    <3> QED BY <1>4, <3>1, <3>2, SMT
  <2> QED BY <2>3 DEF AM!Scatter
<1>6. CASE busOp = "WRITEH"
  <2>1. /\ sel = "HALF" /\ AM!Lanes(busOp, adr) = {L, L + 1}
        /\ AM!First({L, L + 1}) = L /\ 0 \notin adr
    BY <1>1, <1>4, <1>6, FirstLane DEF MemSel, AM!Lanes, Aligned
  <2>2. /\ L \in {0, 2}
        /\ d = Merge(dat, 8 * L, 8 * 2)
    <3>1. d = IF ByteOffset(adr) = {} THEN Merge(dat, 0, 16)
              ELSE IF ByteOffset(adr) = {1} THEN Merge(dat, 16, 16) ELSE {}
      BY <1>2, <2>1 DEF DataToWrite
    <3>2. /\ 8 * 0 = 0 /\ 8 * 2 = 16
      BY SMT
    <3> QED BY <1>1, <2>1, <3>1, <3>2, LaneOfOffset
  <2>3. ASSUME NEW k \in 0..3 PROVE Byte(d, k) = S[k]
    <3>1. Byte(d, k) = IF L <= k /\ k < L + 2 THEN Byte(dat, k - L) ELSE Byte(w, k)
      BY <1>4, <2>2, MergeLanes, SMT
    <3>2. S[k] = IF k \in {L, L + 1} THEN Byte(dat, k - L) ELSE Byte(w, k)
      BY <1>3, <1>4, <2>1 DEF AM!Scatter
    <3> QED BY <1>4, <3>1, <3>2, SMT
  <2> QED BY <2>3 DEF AM!Scatter
<1>7. CASE busOp = "WRITEW"
  <2>1. sel = "WORD" /\ AM!Lanes(busOp, adr) = 0..3 /\ AM!First(0..3) = 0
    BY <1>1, <1>7, FirstLane DEF MemSel, AM!Lanes
  <2>2. d = dat
    BY <1>2, <2>1 DEF DataToWrite
  <2>3. ASSUME NEW k \in 0..3 PROVE Byte(d, k) = S[k]
    <3>1. S[k] = Byte(dat, k - 0)
      BY <1>3, <2>1 DEF AM!Scatter
    <3>2. k - 0 = k
      BY SMT
    <3> QED BY <2>2, <3>1, <3>2
  <2> QED BY <2>3 DEF AM!Scatter
<1> QED BY <1>5, <1>6, <1>7

\* The edge that acknowledges a transaction writes the lanes of a store, the
\* tag of an st, and nothing else.
LEMMA WritesOnce ==
  ASSUME TypeOK, Handshake, Aligned(busOp, adr), cyc, ack,
         NEW clear \in BOOLEAN, MemoryPorts(RamInputs(check, clear))
  PROVE  /\ Bytes' = IF busOp \in {"WRITEB", "WRITEH", "WRITEW"}
                     THEN [Bytes EXCEPT ![AM!WordOf(adr)] =
                             AM!Scatter(@, AM!Lanes(busOp, adr), dat)]
                     ELSE Bytes
         /\ tagMem' = IF busOp = "WRITET"
                      THEN [tagMem EXCEPT ![AM!GranuleIn(adr)] = dat \cap (0..3)]
                      ELSE tagMem
<1> DEFINE i == RamInputs(check, clear)
           x == IndexOf(adr)
<1>1. /\ i.addr = adr /\ i.data = dat
  BY DEF RamInputs
<1>2. /\ mem' = IF ramWe THEN [mem EXCEPT ![x] = DataToWrite(i)] ELSE mem
      /\ tagMem' = IF tagWe THEN [tagMem EXCEPT ![GranuleOf(adr)] = Bits(dat, 3, 0)]
                            ELSE tagMem
  BY <1>1 DEF MemoryPorts
<1>3. /\ ramWe <=> busOp \in {"WRITEB", "WRITEH", "WRITEW"}
      /\ tagWe <=> busOp = "WRITET"
  <2>1. /\ sel = MemSel(busOp) /\ (we <=> busOp \in WriteOp) /\ busOp \in BusOp
        /\ ramWe <=> we /\ sel \in DataSel
        /\ tagWe <=> we /\ sel = "TAG"
    BY DEF Handshake, TypeOK, BusTypeOK
  <2> QED BY <2>1 DEF MemSel, DataSel, WriteOp, BusOp, ReadOp
<1>4. Bits(dat, 3, 0) = dat \cap (0..3)
  <2>1. dat \in Word
    BY DEF TypeOK, BusTypeOK
  <2>2. \A j : j \in Bits(dat, 3, 0) <=> j \in dat \cap (0..3)
    BY <2>1, InBits, SMT DEF Word
  <2> QED BY <2>2, Zenon
<1>5. tagMem' = IF busOp = "WRITET"
                THEN [tagMem EXCEPT ![AM!GranuleIn(adr)] = dat \cap (0..3)]
                ELSE tagMem
  BY <1>2, <1>3, <1>4, SameDecoding
<1>6. /\ mem \in [WordIndex -> Word] /\ ramData = mem[x] /\ x \in WordIndex
      /\ AM!WordOf(adr) = x
  BY SameDecoding DEF TypeOK, RamTypeOK, Handshake
<1>7. CASE busOp \in {"WRITEB", "WRITEH", "WRITEW"}
  <2>1. mem' = [mem EXCEPT ![x] = DataToWrite(i)]
    BY <1>2, <1>3, <1>7
  <2>2. Bytes[x] = [k \in 0..3 |-> Byte(ramData, k)]
    BY <1>6 DEF Bytes, Byte
  <2>3. [k \in 0..3 |-> Byte(DataToWrite(i), k)]
          = AM!Scatter(Bytes[x], AM!Lanes(busOp, adr), dat)
    BY <1>7, <2>2, StoresLanes
  <2>4. Bytes' = [Bytes EXCEPT ![x] = [k \in 0..3 |-> Byte(DataToWrite(i), k)]]
    BY <1>6, <2>1 DEF Bytes, Byte
  <2>5. [Bytes EXCEPT ![x] = AM!Scatter(@, AM!Lanes(busOp, adr), dat)]
          = [Bytes EXCEPT ![x] = AM!Scatter(Bytes[x], AM!Lanes(busOp, adr), dat)]
    BY DEF Bytes
  <2> QED BY <1>5, <1>6, <1>7, <2>3, <2>4, <2>5
<1>8. CASE busOp \notin {"WRITEB", "WRITEH", "WRITEW"}
  BY <1>2, <1>3, <1>5, <1>8 DEF Bytes
<1> QED BY <1>7, <1>8

-----------------------------------------------------------------------------
(* The refinement.  Besides TypeOK and Handshake it rests on the alignment *)
(* of the access in flight.  A clock edge completes an access when it is   *)
(* acknowledged, reports a violation when tag_mismatch is up, and is a     *)
(* stuttering step otherwise.                                              *)

\* A half access on the bus has an even address.
InFlightAligned == busy => Aligned(busOp, adr)

\* An access on the bus is not NoRequest.
LEMMA AccessIsRequest == ASSUME TypeOK PROVE Access # NoRequest
BY NoRequestAssumption DEF Access, TypeOK, BusTypeOK

\* What a reset leaves of an access in flight.
LEMMA AccessUnchecked ==
  ASSUME TypeOK
  PROVE  [Access EXCEPT !.check = FALSE]
           = [op |-> busOp, addr |-> adr, data |-> dat, check |-> FALSE]
<1> DEFINE R == [op : BusOp, addr : Word, data : Word, check : BOOLEAN]
           s == [op |-> busOp, addr |-> adr, data |-> dat, check |-> FALSE]
           t == [Access EXCEPT !.check = FALSE]
<1>1. Access \in R /\ s \in R
  BY DEF Access, TypeOK, BusTypeOK
<1>2. /\ Access.op = busOp /\ Access.addr = adr /\ Access.data = dat
      /\ s.op = busOp /\ s.addr = adr /\ s.data = dat /\ s.check = FALSE
  BY DEF Access
<1>3. /\ t \in R /\ t.op = Access.op /\ t.addr = Access.addr
      /\ t.data = Access.data /\ t.check = FALSE
  BY <1>1
<1>4. \A x, y \in R : /\ x.op = y.op /\ x.addr = y.addr
                      /\ x.data = y.data /\ x.check = y.check
                      => x = y
  OBVIOUS
<1> HIDE DEF R, s, t
<1>5. t = s
  BY <1>1, <1>2, <1>3, <1>4
<1> QED BY <1>5 DEF s, t

\* The edge that takes the acknowledgement completes the access.
LEMMA CompleteStep ==
  ASSUME TypeOK, Handshake, InFlightAligned, Acknowledged, NEW clear \in BOOLEAN,
         MemoryPorts(RamInputs(check, clear)),
         BusTick(FALSE, "READW", adr, dat, ack, RamDataOut(RamInputs(check, clear))),
         \/ Due' = (check /\ Mismatch) /\ irq' = irq
         \/ Due' = FALSE /\ irq' = FALSE
  PROVE  AM!Complete
<1>1. /\ busy /\ cyc /\ ack /\ busy \in BOOLEAN /\ ack \in BOOLEAN
      /\ Aligned(busOp, adr)
  BY DEF Acknowledged, Handshake, InFlightAligned, TypeOK, RamTypeOK, BusTypeOK
<1>2. Request = Access /\ Request # NoRequest /\ Request' = NoRequest
  BY <1>1, AccessIsRequest DEF Request, BusTick
<1>3. ~Due
  BY <1>1 DEF Due, Handshake, WritingBack
<1>4. /\ Access.op = busOp /\ Access.addr = adr /\ Access.data = dat
      /\ Access.check = check
  BY DEF Access
<1>5. /\ Bytes' = IF busOp \in {"WRITEB", "WRITEH", "WRITEW"}
                  THEN [Bytes EXCEPT ![AM!WordOf(adr)] =
                          AM!Scatter(@, AM!Lanes(busOp, adr), dat)]
                  ELSE Bytes
      /\ tagMem' = IF busOp = "WRITET"
                   THEN [tagMem EXCEPT ![AM!GranuleIn(adr)] = dat \cap (0..3)]
                   ELSE tagMem
  BY <1>1, WritesOnce
<1>6. /\ buffer' = DataFromBus(RamDataOut(RamInputs(check, clear))) /\ buffer' \in Word
  BY <1>1, RamDataOutType, DataFromBusType DEF BusTick, TypeOK
<1>7. IF busOp \in {"WRITEB", "WRITEH", "WRITEW", "WRITET"}
      THEN buffer' \in AM!Word ELSE buffer' = AM!Value(Access)
  <2>1. busOp \in ReadOp \/ busOp \in {"WRITEB", "WRITEH", "WRITEW", "WRITET"}
    BY DEF TypeOK, BusTypeOK, BusOp, WriteOp
  <2>2. busOp \in ReadOp => buffer' = AM!Value(Access)
    BY <1>1, <1>6, ReadsValue
  <2> QED BY <1>6, <2>1, <2>2 DEF AM!Word, Word
<1>8. AM!Violation(Request) = (check /\ Mismatch)
  BY <1>2, <1>4, SameDecoding DEF AM!Violation, Mismatch
<1>9. \/ Due' = AM!Violation(Request) /\ irq' = irq
      \/ Due' = FALSE /\ irq' = FALSE
  BY <1>8, Zenon
<1> QED
  BY <1>2, <1>3, <1>4, <1>5, <1>7, <1>9, Zenon DEF AM!Complete

\* An edge without an acknowledgement changes neither memory nor buffer.
LEMMA NoAckStep ==
  ASSUME Handshake, ack = FALSE, NEW clear \in BOOLEAN, NEW en, NEW op, NEW addr,
         NEW data, NEW d, MemoryPorts(RamInputs(check, clear)),
         BusTick(en, op, addr, data, ack, d)
  PROVE  Bytes' = Bytes /\ tagMem' = tagMem /\ buffer' = buffer
<1>1. ramWe = FALSE /\ tagWe = FALSE
  BY DEF Handshake
<1>2. mem' = mem /\ tagMem' = tagMem
  BY <1>1 DEF MemoryPorts
<1> QED BY <1>2 DEF Bytes, BusTick

\* The RAM's half of an edge without a clear, by phase: what becomes of a
\* violation that is due, and of irq.
LEMMA DueStep ==
  ASSUME TypeOK, Handshake, NEW en \in BOOLEAN, NEW op \in BusOp, NEW addr,
         NEW data, en => ~busy, Clock(en, op, addr, data, FALSE),
         ~en => check' = check
  PROVE  /\ ack => Due' = (check /\ Mismatch) /\ irq' = irq
         /\ ~ack => \/ Due' = Due /\ irq' = irq
                    \/ Due /\ Due' = FALSE /\ irq' = TRUE
<1> DEFINE i == RamInputs(check, FALSE)
<1>1. i.cyc = cyc /\ i.check = check /\ i.addr = adr /\ i.clear = FALSE
  BY DEF RamInputs
<1>2. /\ MismatchLatch(i) /\ MemoryPorts(i)
      /\ RamIdle(i) \/ RamWriteWord \/ RamStop(i)
  BY DEF Clock, BusRamTick, RamTick
<1>3. /\ cyc \in BOOLEAN /\ ack \in BOOLEAN /\ irq \in BOOLEAN
      /\ tagMismatch \in BOOLEAN /\ check \in BOOLEAN /\ we \in BOOLEAN
  BY DEF TypeOK, RamTypeOK, BusTypeOK
<1>4. irq' = (tagMismatch \/ irq)
  BY <1>1, <1>2, <1>3 DEF MismatchLatch
<1>5. cyc' = (~ack /\ (en \/ cyc)) /\ adr' = IF en THEN addr ELSE adr
  BY DEF Clock, BusRamTick, BusTick
<1>6. CASE ramState = "IDLE"
  <2>1. tagMismatch' = FALSE /\ ramState' \in {"IDLE", "STOP", "WRITE_WORD"} /\ ~ack
    BY <1>2, <1>6 DEF RamIdle, RamWriteWord, RamStop, Handshake, Quiet, Requested,
                      Acknowledged, WritingBack
  <2>2. Due = tagMismatch
    BY <1>3, <1>6 DEF Due, WritingBack
  <2>3. ramState' = "STOP" => cyc'
    BY <1>1, <1>2, <1>5, <1>6, <2>1 DEF RamIdle, RamWriteWord, RamStop
  <2>4. Due' = FALSE
    BY <2>1, <2>3 DEF Due, WritingBack
  <2> QED BY <1>3, <1>4, <2>1, <2>2, <2>4
<1>7. CASE ramState = "WRITE_WORD"
  <2>1. ack /\ cyc /\ ~tagMismatch /\ tagWe = FALSE /\ ~en
    BY <1>3, <1>7 DEF Handshake, Quiet, Requested, Acknowledged, WritingBack
  <2>2. ramState' = "STOP" /\ ack' = FALSE /\ tagMismatch' = FALSE /\ cyc' = FALSE
    BY <1>2, <1>3, <1>5, <1>7, <2>1 DEF RamIdle, RamWriteWord, RamStop
  <2>3. tagMem' = tagMem /\ adr' = adr /\ check' = check
    BY <1>2, <1>5, <2>1 DEF MemoryPorts
  <2>4. Due' = (check /\ Mismatch)
    BY <2>2, <2>3 DEF Due, WritingBack, Mismatch
  <2> QED BY <1>3, <1>4, <2>1, <2>4
<1>8. CASE ramState = "STOP"
  <2>1. ~tagMismatch /\ tagData = tagMem[GranuleOf(adr)]
    BY <1>8 DEF Handshake
  <2>2. ramState' = "IDLE" /\ tagMismatch' = (check /\ Mismatch)
    BY <1>1, <1>2, <1>8, <2>1 DEF RamIdle, RamWriteWord, RamStop, Mismatch
  <2>3. Due' = (check /\ Mismatch)
    BY <2>2 DEF Due, WritingBack
  <2>4. ~ack => Due = (check /\ Mismatch)
    BY <1>3, <1>8, <2>1 DEF Due, WritingBack, Handshake, Quiet, Requested, Acknowledged
  <2> QED BY <1>3, <1>4, <2>1, <2>3, <2>4
<1> QED BY <1>6, <1>7, <1>8 DEF TypeOK, RamTypeOK

\* Half accesses in flight are aligned: the address only changes with a new
\* request, which the client aligns.
LEMMA AlignedInFlight == Spec => []InFlightAligned
<1>1. Init => InFlightAligned
  BY DEF Init, InFlightAligned
<1>2. TypeOK /\ InFlightAligned /\ [Next]_vars => InFlightAligned'
  <2> SUFFICES ASSUME TypeOK, InFlightAligned, [Next]_vars PROVE InFlightAligned'
    OBVIOUS
  <2>1. ASSUME NEW op \in Ops, NEW addr \in Addresses, NEW data \in DataValues,
               NEW chk \in BOOLEAN, Issue(op, addr, data, chk)
        PROVE  InFlightAligned'
    BY <2>1 DEF Issue, Clock, BusRamTick, BusTick, InFlightAligned, Aligned
  <2>2. CASE Wait \/ ClearIrq \/ Reset
    <3>1. busy' = (~ack /\ busy) /\ adr' = adr /\ busOp' = busOp
      BY <2>2 DEF Wait, ClearIrq, Reset, Clock, BusRamTick, BusTick, TypeOK, BusTypeOK
    <3> QED BY <3>1 DEF InFlightAligned, Aligned
  <2>3. CASE UNCHANGED vars
    BY <2>3 DEF vars, busVars, InFlightAligned, Aligned
  <2> QED BY <2>1, <2>2, <2>3 DEF Next
<1> QED BY <1>1, <1>2, TypeCorrect, PTL DEF Spec

\* Each edge of the memory path is a step of the abstract memory.
LEMMA StepRefines ==
  ASSUME TypeOK, Handshake, InFlightAligned, [Next]_vars
  PROVE  [AM!AmNext]_(AM!amVars)
<1>0. /\ "READW" \in BusOp /\ busy = cyc
      /\ busy \in BOOLEAN /\ ack \in BOOLEAN /\ check \in BOOLEAN /\ irq \in BOOLEAN
  BY DEF BusOp, ReadOp, Handshake, TypeOK, BusTypeOK, RamTypeOK
<1>1. ack <=> Acknowledged
  BY <1>0 DEF Handshake, Quiet, Requested, Acknowledged, WritingBack
<1>2. ASSUME NEW op \in Ops, NEW addr \in Addresses, NEW data \in DataValues,
             NEW chk \in BOOLEAN, Issue(op, addr, data, chk)
      PROVE  AM!AmNext
  <2>1. /\ ack = FALSE /\ ~busy /\ op \in BusOp
    BY <1>0, <1>1, <1>2, ClientAssumption DEF Issue, Acknowledged
  <2>2. Clock(TRUE, op, addr, data, FALSE)
    BY <1>2 DEF Issue
  <2>3. Bytes' = Bytes /\ tagMem' = tagMem /\ buffer' = buffer
    BY <2>1, <2>2, NoAckStep DEF Clock, BusRamTick, RamTick
  <2>4. \/ Due' = Due /\ irq' = irq
        \/ Due /\ Due' = FALSE /\ irq' = TRUE
    BY <2>1, <2>2, DueStep
  <2>5. /\ Request = NoRequest
        /\ Request' = [op |-> op, addr |-> addr, data |-> data, check |-> chk]
    <3>1. /\ busy' /\ busOp' = op /\ adr' = addr /\ dat' = data /\ check' = chk
      BY <1>2, <2>1, <2>2 DEF Issue, Clock, BusRamTick, BusTick
    <3> QED BY <2>1, <3>1 DEF Request, Access
  <2>6. AM!Start(op, addr, data, chk)
    BY <2>3, <2>4, <2>5, Zenon DEF AM!Start, AM!Settle
  <2>7. op \in {"READB", "READBU", "READH", "READHU", "READW", "READT",
                "WRITEB", "WRITEH", "WRITEW", "WRITET"}
    BY <2>1 DEF BusOp, ReadOp, WriteOp
  <2> QED BY <2>6, <2>7, Zenon DEF AM!AmNext
<1>3. CASE Wait
  <2>1. Clock(FALSE, "READW", adr, dat, FALSE) /\ check' = check
    BY <1>3 DEF Wait
  <2>2. CASE ack
    <3>1. Due' = (check /\ Mismatch) /\ irq' = irq
      BY <1>0, <2>1, <2>2, DueStep
    <3>2. AM!Complete
      BY <1>1, <2>1, <2>2, <3>1, CompleteStep DEF Clock, BusRamTick, RamTick
    <3> QED BY <3>2, Zenon DEF AM!AmNext
  <2>3. CASE ~ack
    <3>1. Bytes' = Bytes /\ tagMem' = tagMem /\ buffer' = buffer
      BY <1>0, <2>1, <2>3, NoAckStep DEF Clock, BusRamTick, RamTick
    <3>2. \/ Due' = Due /\ irq' = irq
          \/ Due /\ Due' = FALSE /\ irq' = TRUE
      BY <1>0, <2>1, <2>3, DueStep
    <3>3. Request' = Request
      BY <1>0, <2>1, <2>3 DEF Clock, BusRamTick, BusTick, Request, Access
    <3>4. AM!Report \/ UNCHANGED AM!amVars
      BY <3>1, <3>2, <3>3, Zenon DEF AM!Report, AM!amVars
    <3> QED BY <3>4, Zenon DEF AM!AmNext
  <2> QED BY <2>2, <2>3
<1>4. CASE ClearIrq
  <2>1. ~busy /\ ramState = "IDLE" /\ ~tagMismatch /\ ack = FALSE /\ check' = check
    BY <1>0, <1>1, <1>4 DEF ClearIrq, Acknowledged
  <2>2. Clock(FALSE, "READW", adr, dat, TRUE)
    BY <1>4 DEF ClearIrq
  <2>3. Bytes' = Bytes /\ tagMem' = tagMem /\ buffer' = buffer
    BY <2>1, <2>2, NoAckStep DEF Clock, BusRamTick, RamTick
  <2>4. Request' = Request
    BY <1>0, <2>1, <2>2 DEF Clock, BusRamTick, BusTick, Request, Access
  <2>5. irq' = FALSE
    BY <2>2 DEF Clock, BusRamTick, RamTick, MismatchLatch, RamInputs
  <2>6. Due = FALSE /\ Due' = FALSE
    <3>1. tagMismatch' = FALSE /\ ramState' = "IDLE"
      BY <1>0, <2>1, <2>2
         DEF Clock, BusRamTick, RamTick, RamIdle, RamWriteWord, RamStop, RamInputs
    <3> QED BY <2>1, <3>1 DEF Due, WritingBack
  <2>7. AM!Acknowledge
    BY <2>3, <2>4, <2>5, <2>6, Zenon DEF AM!Acknowledge
  <2> QED BY <2>7, Zenon DEF AM!AmNext
<1>5. CASE Reset
  <2>1. /\ MemoryPorts(RamInputs(check, FALSE)) /\ ramState' = "IDLE"
        /\ tagMismatch' = FALSE /\ irq' = FALSE /\ check' = FALSE
        /\ BusTick(FALSE, "READW", adr, dat, ack, RamDataOut(RamInputs(check, FALSE)))
    BY <1>5 DEF Reset, RamReset
  <2>2. Due' = FALSE
    BY <2>1 DEF Due, WritingBack
  <2>3. CASE ack
    <3>1. AM!Complete
      BY <1>1, <2>1, <2>2, <2>3, CompleteStep
    <3> QED BY <3>1, Zenon DEF AM!AmNext
  <2>4. CASE ~ack
    <3>1. Bytes' = Bytes /\ tagMem' = tagMem /\ buffer' = buffer
      BY <1>0, <2>1, <2>4, NoAckStep
    <3>2. /\ busy' = busy /\ busOp' = busOp /\ adr' = adr /\ dat' = dat
      BY <1>0, <2>1, <2>4 DEF BusTick
    <3>3. Request' = IF Request = NoRequest THEN NoRequest
                     ELSE [Request EXCEPT !.check = FALSE]
      <4>1. [Access EXCEPT !.check = FALSE] = Access'
        BY <2>1, <3>2, AccessUnchecked DEF Access
      <4> QED BY <1>0, <3>2, <4>1, AccessIsRequest DEF Request
    <3>4. AM!AmReset
      BY <2>1, <2>2, <3>1, <3>3, Zenon DEF AM!AmReset
    <3> QED BY <3>4, Zenon DEF AM!AmNext
  <2> QED BY <2>3, <2>4
<1>6. CASE UNCHANGED vars
  <2>1. /\ Bytes' = Bytes /\ tagMem' = tagMem /\ Request' = Request
        /\ buffer' = buffer /\ Due' = Due /\ irq' = irq
    BY <1>6 DEF vars, ramVars, busVars, Bytes, Request, Access, Due, WritingBack,
                Mismatch
  <2> QED BY <2>1 DEF AM!amVars
<1> QED BY <1>2, <1>3, <1>4, <1>5, <1>6 DEF Next

\* For every RAM, granule, address and data: what the CPU's bus master and
\* the tagged RAM do together is a behaviour of the atomic tagged memory, so
\* loads and stores of every width hit exactly their bytes, and a violation
\* raises irq before the next access takes effect.
THEOREM Refinement == Spec => ImplementsTaggedMemory
<1>1. Init => AM!AmInit
  BY DEF Init, AM!AmInit, Request, Due, WritingBack
<1>2. TypeOK /\ Handshake /\ InFlightAligned /\ [Next]_vars
        => [AM!AmNext]_(AM!amVars)
  BY StepRefines
<1> QED
  BY <1>1, <1>2, TypeCorrect, HandshakeCorrect, AlignedInFlight, PTL
     DEF Spec, ImplementsTaggedMemory, AM!AmSpec

=============================================================================
