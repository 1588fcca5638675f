----------------------------- MODULE Heap_proofs -----------------------------
(***************************************************************************)
(* Proofs about the tagging allocator for every number of tags from four,  *)
(* every size and place of the arena, and all request sizes that do not    *)
(* wrap malloc's 32-bit sums.                                              *)
(***************************************************************************)
EXTENDS Heap, TLAPS

\* No sum of malloc wraps: what is asked for, rounded up, and a header fit
\* above the untagged addresses.  In the code: less than 15/16 of 2^32.
SizesFit == \A size \in Sizes : size + 31 < WordSize - AddrSpace

-----------------------------------------------------------------------------
(* The inductive invariant. *)

m == frame["main"]

\* The address behind the block of header a.
Behind(a) == a + HeaderSize + headers[a].alloc_size

\* What malloc is doing: placing a header and its tag, or tagging the block.
Placing == m.at \notin {"idle", "find"} /\ m.part = "header"
Filling == m.at \notin {"idle", "find"} /\ m.part = "block"

\* The first granule that has no tag yet.
Frontier ==
  IF Placing THEN m.loc + HeaderSize - GRANULE_SIZE * m.left
  ELSE IF Filling THEN m.loc + HeaderSize + m.size - GRANULE_SIZE * m.left
  ELSE Behind(tail)

\* mstatus.MIE tells a handler from the main program, so handlers never
\* allocate.
HandlerIdle == inIsr = ~mie /\ frame["isr"] = Idle

\* The headers and their blocks lie one behind the other.
Chain ==
  /\ \A a \in DOMAIN headers :
       /\ ArenaStart <= a /\ Behind(a) <= ArenaEnd
       /\ headers[a].alloc_size % GRANULE_SIZE = 0 /\ ~headers[a].is_free
       /\ a <= tail \/ (a = m.loc /\ Placing)
  /\ \A a, b \in DOMAIN headers : a < b => Behind(a) <= b
  /\ \A a \in DOMAIN headers :
       a < tail => headers[a].next_ptr = Behind(a)

\* The request being served.
Serving ==
  /\ m.at # "idle" => /\ GRANULE_SIZE <= m.size /\ m.size % GRANULE_SIZE = 0
                      /\ m.asked <= m.size
                      /\ m.size + HeaderSize < WordSize - AddrSpace
  /\ Placing => /\ m.loc = Behind(tail) /\ m.loc + HeaderSize + m.size <= ArenaEnd
                /\ m.addr = Frontier
                /\ m.left = 1 \/ m.left = 0
                /\ m.at \in {"gen", "bump"} => m.left = 1
                /\ m.at \in {"link", "publish"} =>
                     /\ m.left = 0 /\ m.loc \in DOMAIN headers
                     /\ headers[m.loc].alloc_size = m.size
                /\ m.at = "publish" => headers[tail].next_ptr = m.loc
  /\ Filling => /\ m.at \in {"gen", "bump", "st"}
                /\ m.loc = tail /\ headers[tail].alloc_size = m.size
                /\ GRANULE_SIZE * m.left <= m.size
                /\ m.left > 0 => m.addr = Frontier
                /\ m.at # "st" => GRANULE_SIZE * m.left = m.size
  /\ m.at = "find" => m.part = "header"

\* Every block malloc has returned is the block of a header of its own.
Returned ==
  /\ \A b \in blocks :
       /\ b.addr - HeaderSize \in DOMAIN headers
       /\ b.addr - HeaderSize <= tail /\ (Filling => b.addr - HeaderSize # tail)
       /\ b.size = headers[b.addr - HeaderSize].alloc_size
       /\ GRANULE_SIZE <= b.size /\ b.asked <= b.size
  /\ \A b, c \in blocks : b.addr = c.addr => b = c

Inc(t) == (t + 1) % TagCount

\* The tag that is being given out differs from the one before it, and the
\* next one from both.
Fresh ==
  /\ secTag # 0
  /\ m.at # "bump" => ~Reserved(tagGen)
  /\ m.at \in {"bump", "st"} => ~Reserved(m.tag)
  /\ m.at = "bump" => \/ tagGen = m.tag
                      \/ Reserved(tagGen) /\ tagGen = Inc(m.tag)
                      \/ Reserved(tagGen) /\ Reserved(Inc(m.tag)) /\ tagGen = Inc(Inc(m.tag))
  /\ m.at = "st" => tagGen # m.tag

\* How the tags in memory relate to the tag that comes next.
Coloured ==
  /\ \A a \in Locations : a >= Frontier => tagMem[a] = 0
  /\ m.at \in {"idle", "find", "gen", "link", "publish"}
       => tagMem[Frontier - GRANULE_SIZE] # tagGen
  /\ m.at = "bump" => tagMem[Frontier - GRANULE_SIZE] # m.tag
  /\ m.at = "st" /\ Placing =>
       IF m.left = 0 THEN tagMem[m.loc] = m.tag
       ELSE tagMem[m.loc - GRANULE_SIZE] # m.tag
  /\ m.at = "st" /\ Filling =>
       /\ tagMem[m.loc] # m.tag
       /\ \A a \in Locations : m.loc + HeaderSize <= a /\ a < Frontier => tagMem[a] = m.tag

HeapInv ==
  TypeOK /\ HandlerIdle /\ Chain /\ Serving /\ Returned /\ Fresh /\ Coloured /\ TagsSeparate

-----------------------------------------------------------------------------
(* Arithmetic. *)

\* A value below the modulus is its own remainder.
LEMMA Small ==
  ASSUME NEW n \in Nat, NEW k \in 0 .. n - 1
  PROVE  k % n = k
BY SMT

\* Adding one to a tag.
LEMMA IncValue ==
  ASSUME NEW t \in Tags
  PROVE  Inc(t) = (IF t + 1 = TagCount THEN 0 ELSE t + 1) /\ Inc(t) \in Tags
<1>1. TagCount \in Nat /\ TagCount >= 4 /\ t \in 0 .. TagCount - 1
  BY HeapAssumption DEF Tags
<1>2. CASE t + 1 = TagCount
  <2>1. TagCount % TagCount = 0
    BY <1>1, SMT
  <2> QED BY <1>1, <1>2, <2>1 DEF Inc, Tags
<1>3. CASE t + 1 # TagCount
  <2>1. (t + 1) % TagCount = t + 1
    BY <1>1, <1>3, Small
  <2> QED BY <1>1, <1>3, <2>1 DEF Inc, Tags
<1> QED BY <1>2, <1>3

\* The word holds the untagged addresses at least four times.
LEMMA Sizing ==
  /\ AddrSpace \in Nat /\ WordSize \in Nat /\ 4 * AddrSpace <= WordSize
  /\ AddrSpace % 16 = 0 /\ ArenaStart \in Locations /\ ArenaEnd \in Nat
  /\ ArenaStart + 16 <= ArenaEnd /\ ArenaEnd <= AddrSpace
<1>1. /\ AddrSpace \in Nat /\ AddrSpace % 16 = 0 /\ TagCount \in Nat /\ TagCount >= 4
      /\ ArenaStart \in Locations /\ ArenaEnd \in ArenaStart + 16 .. AddrSpace
  BY HeapAssumption DEF GRANULE_SIZE, HeaderSize
<1>2. TagCount * AddrSpace \in Nat /\ 4 * AddrSpace <= TagCount * AddrSpace
  BY <1>1, SMT
<1> QED BY <1>1, <1>2 DEF WordSize, Locations

\* Sums within the word do not wrap.
LEMMA AddValue ==
  ASSUME NEW a \in Nat, NEW b \in Nat, a + b < WordSize
  PROVE  Add(a, b) = a + b
BY Sizing, Small DEF Add

\* The tag generator always moves on to another tag that is not reserved.
LEMMA NextTagFresh ==
  ASSUME NEW g \in Tags, NEW sec \in Tags, sec # 0, g # 0, g # sec
  PROVE  /\ NextTag(g, sec) \in Tags /\ NextTag(g, sec) # g
         /\ NextTag(g, sec) # 0 /\ NextTag(g, sec) # sec
<1> DEFINE a == Inc(g)
           b == Inc(a)
           c == Inc(b)
<1>1. NextTag(g, sec) = IF ~(a = 0 \/ a = sec) THEN a ELSE IF ~(b = 0 \/ b = sec) THEN b ELSE c
  BY DEF NextTag, Inc
<1>2. a \in Tags /\ a = IF g + 1 = TagCount THEN 0 ELSE g + 1
  BY IncValue
<1>3. b \in Tags /\ b = IF a + 1 = TagCount THEN 0 ELSE a + 1
  BY <1>2, IncValue
<1>4. c \in Tags /\ c = IF b + 1 = TagCount THEN 0 ELSE b + 1
  BY <1>3, IncValue
<1> HIDE DEF a, b, c
<1>5. TagCount \in Nat /\ TagCount >= 4
  BY HeapAssumption
<1> QED BY <1>1, <1>2, <1>3, <1>4, <1>5 DEF Tags

-----------------------------------------------------------------------------
(* Steps. *)

\* Only the main program executes malloc.
LEMMA StepIsMain ==
  ASSUME HandlerIdle, me.at # "idle"
  PROVE  ~inIsr
BY DEF HandlerIdle, me, Active, Idle

\* What the main program's frame becomes.
LEMMA Acting ==
  ASSUME TypeOK, HandlerIdle, ~inIsr
  PROVE  /\ me = m
         /\ \A f \in FrameType : Goto(f) =>
              m' = f /\ frame'["isr"] = Idle /\ frame' \in [Frames -> FrameType]
<1>1. frame \in [Frames -> FrameType] /\ "main" \in Frames /\ "isr" \in Frames
  BY DEF TypeOK, Frames
<1>2. Active = "main"
  BY DEF Active
<1> QED BY <1>1, <1>2 DEF me, m, Goto, HandlerIdle, Frames

\* The invariant holds when boot has set up the heap.
LEMMA Initially == Init => HeapInv
<1> SUFFICES ASSUME Init PROVE HeapInv
  OBVIOUS
<1>1. PICK first \in Tags \ {0, secTag} :
        LET second == NextTag(first, secTag)
        IN  /\ tagGen = NextTag(second, secTag)
            /\ tagMem = [a \in Locations |-> IF a = SecCntx THEN secTag
                                             ELSE IF a = MemInfo THEN first
                                             ELSE IF a = ArenaStart THEN second
                                             ELSE 0]
  BY DEF Init
<1> DEFINE second == NextTag(first, secTag)
<1>2. secTag \in Tags /\ secTag # 0
  BY DEF Init
<1>3. second \in Tags /\ second # 0 /\ second # secTag
  BY <1>1, <1>2, NextTagFresh
<1>4. tagGen \in Tags /\ tagGen # second /\ tagGen # 0 /\ tagGen # secTag
  BY <1>1, <1>2, <1>3, NextTagFresh
<1>5. tagMem = [a \in Locations |-> IF a = SecCntx THEN secTag
                                    ELSE IF a = MemInfo THEN first
                                    ELSE IF a = ArenaStart THEN second ELSE 0]
  BY <1>1
<1> HIDE DEF second
<1>6. m = Idle /\ frame["isr"] = Idle /\ Idle.at = "idle"
  BY DEF Init, m, Idle, Frames
<1>7. /\ DOMAIN headers = {ArenaStart} /\ tail = ArenaStart /\ blocks = {}
      /\ headers[ArenaStart].alloc_size = 0 /\ headers[ArenaStart].next_ptr = 0
      /\ ~headers[ArenaStart].is_free /\ headers[ArenaStart].is_free \in BOOLEAN
  BY DEF Init
<1>8. 0 \in Tags /\ 0 \in Locations /\ 0 \in 0 .. WordSize - 1
  BY HeapAssumption, Sizing DEF Tags, Locations, GRANULE_SIZE
<1>9. Idle \in FrameType
  BY <1>8 DEF Idle, FrameType
<1>10. TypeOK
  <2>1. tagMem \in [Locations -> Tags]
    BY <1>1, <1>2, <1>3, <1>5, <1>8
  <2>2. frame \in [Frames -> FrameType]
    BY <1>9 DEF Init
  <2>3. headers[ArenaStart] \in [alloc_size : 0 .. WordSize - 1, next_ptr : Locations,
                                 is_free : BOOLEAN]
    BY <1>8 DEF Init
  <2>4. mie = TRUE /\ inIsr = FALSE
    BY DEF Init
  <2>5. mie \in BOOLEAN /\ inIsr \in BOOLEAN
    BY <2>4
  <2>6. \A a \in DOMAIN headers :
          headers[a] \in [alloc_size : 0 .. WordSize - 1, next_ptr : Locations,
                          is_free : BOOLEAN]
    BY <1>7, <2>3
  <2>7. tail \in DOMAIN headers /\ DOMAIN headers \subseteq Locations
    BY <1>7, Sizing
  <2>8. blocks \subseteq [addr : Locations, size : 0 .. WordSize - 1,
                          asked : 0 .. WordSize - 1, tag : Tags]
    BY <1>7
  <2> QED BY <1>2, <1>4, <2>1, <2>2, <2>5, <2>6, <2>7, <2>8 DEF TypeOK
<1>11. HandlerIdle
  BY <1>6 DEF HandlerIdle, Init
<1>12. ~Placing /\ ~Filling /\ Frontier = ArenaStart + 16
  BY <1>6, <1>7, Sizing DEF Placing, Filling, Frontier, Behind, HeaderSize, Locations
<1>13. Chain
  BY <1>7, Sizing DEF Chain, Behind, HeaderSize, GRANULE_SIZE, Locations
<1>14. Serving /\ Returned /\ TagsSeparate
  BY <1>6, <1>7, <1>12 DEF Serving, Returned, TagsSeparate
<1>15. Fresh
  BY <1>2, <1>4, <1>6 DEF Fresh, Reserved
<1>16. Coloured
  <2>1. tagMem[ArenaStart] # tagGen
    BY <1>4, <1>5, HeapAssumption DEF Locations
  <2>2. \A a \in Locations : a >= ArenaStart + 16 => tagMem[a] = 0
    BY <1>5, HeapAssumption DEF Locations
  <2>3. Frontier - 16 = ArenaStart
    BY <1>12, Sizing DEF Locations
  <2>4. m.at = "idle"
    BY <1>6
  <2> QED BY <1>12, <2>1, <2>2, <2>3, <2>4 DEF Coloured, GRANULE_SIZE
<1> QED BY <1>10, <1>11, <1>13, <1>14, <1>15, <1>16 DEF HeapInv

\* Where things are: the facts about numbers the steps need.
LEMMA Here ==
  ASSUME HeapInv
  PROVE  /\ tail \in Nat /\ tail % 16 = 0 /\ ArenaStart <= tail /\ tail \in Locations
         /\ Behind(tail) \in Nat /\ Behind(tail) % 16 = 0
         /\ tail + 16 <= Behind(tail) /\ Behind(tail) <= ArenaEnd
         /\ m \in FrameType
         /\ m.loc \in Nat /\ m.loc % 16 = 0 /\ m.loc < AddrSpace
         /\ m.left \in Nat /\ m.size \in Nat /\ m.asked \in Nat
         /\ Frontier \in Nat /\ Frontier % 16 = 0
         /\ ArenaStart + 16 <= Frontier /\ Frontier <= ArenaEnd
         /\ Frontier - 16 \in Locations
<1>1. /\ tail \in DOMAIN headers /\ DOMAIN headers \subseteq Locations
      /\ headers[tail].alloc_size \in Nat
  BY Sizing DEF HeapInv, TypeOK
<1>2. /\ ArenaStart <= tail /\ Behind(tail) <= ArenaEnd
      /\ headers[tail].alloc_size % 16 = 0
  BY <1>1 DEF HeapInv, Chain, GRANULE_SIZE
<1>3. m \in FrameType
  BY DEF HeapInv, TypeOK, m, Frames
<1>4. /\ tail \in Nat /\ tail % 16 = 0 /\ tail \in Locations
      /\ Behind(tail) \in Nat /\ Behind(tail) % 16 = 0 /\ tail + 16 <= Behind(tail)
  BY <1>1, <1>2 DEF Locations, Behind, HeaderSize, GRANULE_SIZE
<1>5. /\ m.loc \in Nat /\ m.loc % 16 = 0 /\ m.loc < AddrSpace
      /\ m.left \in Nat /\ m.size \in Nat /\ m.asked \in Nat
  BY <1>3, Sizing DEF FrameType, Locations, GRANULE_SIZE
<1>6. /\ Frontier \in Nat /\ Frontier % 16 = 0
      /\ ArenaStart + 16 <= Frontier /\ Frontier <= ArenaEnd
  <2>1. ArenaStart \in Nat /\ ArenaEnd \in Nat
    BY Sizing DEF Locations
  <2>2. CASE Placing
    <3>1. /\ m.loc = Behind(tail) /\ m.loc + 16 + m.size <= ArenaEnd
          /\ m.left = 0 \/ m.left = 1
      BY <2>2 DEF HeapInv, Serving, HeaderSize
    <3>2. Frontier = IF m.left = 0 THEN m.loc + 16 ELSE m.loc
      BY <1>5, <2>2, <3>1 DEF Frontier, HeaderSize, GRANULE_SIZE
    <3> HIDE DEF Frontier
    <3>3. ArenaStart + 16 <= m.loc /\ m.loc + 16 <= ArenaEnd
      BY <1>2, <1>4, <1>5, <2>1, <3>1
    <3> QED BY <1>5, <2>1, <3>2, <3>3
  <2>3. CASE Filling
    <3>1. /\ m.loc = tail /\ headers[tail].alloc_size = m.size /\ 16 * m.left <= m.size
      BY <2>3 DEF HeapInv, Serving, GRANULE_SIZE
    <3>2. ~Placing
      BY <2>3 DEF Filling, Placing
    <3> QED BY <1>2, <1>4, <1>5, <2>1, <2>3, <3>1, <3>2
            DEF Frontier, Behind, HeaderSize, GRANULE_SIZE
  <2>4. CASE ~Placing /\ ~Filling
    BY <1>2, <1>4, <2>1, <2>4 DEF Frontier
  <2> QED BY <2>2, <2>3, <2>4
<1>7. Frontier - 16 \in Locations
  BY <1>6, Sizing DEF Locations, GRANULE_SIZE
<1> QED BY <1>1, <1>2, <1>3, <1>4, <1>5, <1>6, <1>7

\* A step that changes neither headers nor blocks.
LEMMA ListKept ==
  ASSUME HeapInv, headers' = headers, tail' = tail, blocks' = blocks,
         Placing => Placing' /\ m'.loc = m.loc, Filling' => Filling
  PROVE  Chain' /\ Returned'
<1>1. Chain'
  BY DEF HeapInv, Chain, Behind
<1>2. Returned'
  BY DEF HeapInv, Returned
<1> QED BY <1>1, <1>2

\* A step that changes no tags either.
LEMMA FrameOnly ==
  ASSUME HeapInv, tagMem' = tagMem, headers' = headers, tail' = tail,
         blocks' = blocks, secTag' = secTag,
         Placing => Placing' /\ m'.loc = m.loc, Filling' => Filling
  PROVE  Chain' /\ Returned' /\ TagsSeparate'
<1>1. Chain' /\ Returned'
  BY ListKept
<1>2. TagsSeparate'
  BY DEF HeapInv, TagsSeparate, Reserved, Extent
<1> QED BY <1>1, <1>2

\* Interrupts and mret.
LEMMA Elsewhere ==
  ASSUME HeapInv, Interrupt \/ Mret \/ UNCHANGED vars
  PROVE  HeapInv'
<1>1. /\ tagGen' = tagGen /\ secTag' = secTag /\ tagMem' = tagMem /\ headers' = headers
      /\ tail' = tail /\ blocks' = blocks /\ frame' = frame
  BY DEF Interrupt, Mret, vars
<1>2. m' = m /\ Placing' = Placing /\ Filling' = Filling
  BY <1>1 DEF m, Placing, Filling
<1>3. mie \in BOOLEAN /\ inIsr \in BOOLEAN /\ inIsr = ~mie
  BY DEF HeapInv, TypeOK, HandlerIdle
<1>4. mie' \in BOOLEAN /\ inIsr' \in BOOLEAN /\ inIsr' = ~mie'
  <2>1. CASE Interrupt
    BY <2>1 DEF Interrupt
  <2>2. CASE Mret
    BY <2>2 DEF Mret
  <2>3. CASE UNCHANGED vars
    BY <1>3, <2>3 DEF vars
  <2> QED BY <2>1, <2>2, <2>3
<1>5. TypeOK' /\ HandlerIdle'
  BY <1>1, <1>4 DEF HeapInv, TypeOK, HandlerIdle
<1>6. Chain' /\ Returned' /\ TagsSeparate'
  BY <1>1, <1>2, FrameOnly
<1>7. Frontier' = Frontier
  BY <1>1, <1>2 DEF Frontier, Behind
<1>8. Serving'
  BY <1>1, <1>2, <1>7 DEF HeapInv, Serving, Behind
<1>9. Fresh' /\ Coloured'
  BY <1>1, <1>2, <1>7 DEF HeapInv, Fresh, Coloured, Reserved
<1> QED BY <1>5, <1>6, <1>8, <1>9 DEF HeapInv

\* A call: the size is rounded up to granules.
LEMMA CallStep ==
  ASSUME HeapInv, SizesFit, NEW size \in Sizes, Call(size)
  PROVE  HeapInv'
<1> DEFINE aligned == (Add(size, 15) \div 16) * 16
<1>1. size \in Nat /\ size # 0 /\ size + 31 < WordSize - AddrSpace
  BY HeapAssumption, Sizing DEF SizesFit, Call
<1>2. Add(size, 15) = size + 15
  BY <1>1, Sizing, AddValue
<1>3. /\ aligned \in Nat /\ size <= aligned /\ aligned <= size + 15 /\ aligned % 16 = 0
      /\ 16 <= aligned
  BY <1>1, <1>2
<1> HIDE DEF aligned
<1>4. ~inIsr /\ me.at = "idle"
  BY DEF HeapInv, HandlerIdle, Call
<1>5. me = m
  BY <1>4, Acting DEF HeapInv
<1>6. Goto([Idle EXCEPT !.at = "find", !.asked = size, !.size = aligned])
  BY DEF Call, aligned, GRANULE_SIZE
<1>7. [Idle EXCEPT !.at = "find", !.asked = size, !.size = aligned] \in FrameType
  <2>1. 0 \in Tags /\ 0 \in Locations
    BY HeapAssumption, Sizing DEF Tags, Locations, GRANULE_SIZE
  <2>2. size \in 0 .. WordSize - 1 /\ aligned \in 0 .. WordSize - 1 /\ 0 \in Nat
    BY <1>1, <1>3, Sizing
  <2> QED BY <2>1, <2>2 DEF Idle, FrameType
<1>8. /\ m' = [Idle EXCEPT !.at = "find", !.asked = size, !.size = aligned]
      /\ frame'["isr"] = Idle /\ frame' \in [Frames -> FrameType]
  BY <1>4, <1>6, <1>7, Acting DEF HeapInv
<1>9. m'.at = "find" /\ m'.asked = size /\ m'.size = aligned /\ m'.part = "header"
  BY <1>8 DEF Idle
<1>10. /\ tagGen' = tagGen /\ secTag' = secTag /\ tagMem' = tagMem /\ headers' = headers
       /\ tail' = tail /\ blocks' = blocks /\ mie' = mie /\ inIsr' = inIsr
  BY DEF Call
<1>11. ~Placing /\ ~Filling /\ ~Placing' /\ ~Filling' /\ Frontier' = Frontier
  BY <1>4, <1>5, <1>9, <1>10 DEF Placing, Filling, Frontier, Behind
<1>12. TypeOK' /\ HandlerIdle'
  BY <1>8, <1>10 DEF HeapInv, TypeOK, HandlerIdle
<1>13. Chain' /\ Returned' /\ TagsSeparate'
  BY <1>10, <1>11, FrameOnly
<1>14. Serving'
  BY <1>1, <1>3, <1>9, <1>11, Sizing DEF Serving, HeaderSize, GRANULE_SIZE
<1>15. Fresh' /\ Coloured'
  BY <1>4, <1>5, <1>9, <1>10, <1>11 DEF HeapInv, Fresh, Coloured, Reserved
<1> QED BY <1>12, <1>13, <1>14, <1>15 DEF HeapInv

\* Placing a header behind the last block, unless the arena is full.
LEMMA LocateStep ==
  ASSUME HeapInv, Locate
  PROVE  HeapInv'
<1> DEFINE loc == Behind(tail)
           next == [m EXCEPT !.at = "gen", !.loc = loc, !.addr = loc, !.left = 1]
<1>1. ~inIsr /\ me = m /\ m.at = "find" /\ m.part = "header"
  BY StepIsMain, Acting DEF HeapInv, Locate, Serving
<1>2. /\ loc \in Nat /\ loc % 16 = 0 /\ loc <= ArenaEnd /\ tail + 16 <= loc /\ tail \in Nat
      /\ m \in FrameType /\ m.size \in Nat
  BY Here
<1>3. /\ 16 <= m.size /\ m.size % 16 = 0 /\ m.asked <= m.size
      /\ m.size + 16 < WordSize - AddrSpace
  BY <1>1 DEF HeapInv, Serving, HeaderSize, GRANULE_SIZE
<1>4. headers[tail].alloc_size \in Nat /\ loc = tail + 16 + headers[tail].alloc_size
  BY Sizing DEF HeapInv, TypeOK, Behind, HeaderSize
<1>5. Add(Add(tail, headers[tail].alloc_size), 16) = loc
  <2>1. Add(tail, headers[tail].alloc_size) = tail + headers[tail].alloc_size
    <3>1. tail + headers[tail].alloc_size < WordSize
      BY <1>2, <1>4, Sizing DEF Locations
    <3> QED BY <1>2, <1>4, <3>1, AddValue
  <2>2. tail + headers[tail].alloc_size \in Nat /\ tail + headers[tail].alloc_size + 16 < WordSize
    BY <1>2, <1>4, Sizing DEF Locations
  <2>3. Add(tail + headers[tail].alloc_size, 16) = tail + headers[tail].alloc_size + 16
    BY <2>2, AddValue
  <2> QED BY <1>2, <1>4, <2>1, <2>3
<1>6. Add(Add(loc, m.size), 16) = loc + m.size + 16
  <2>1. Add(loc, m.size) = loc + m.size
    <3>1. loc + m.size < WordSize
      BY <1>2, <1>3, Sizing
    <3> QED BY <1>2, <3>1, AddValue
  <2>2. loc + m.size \in Nat /\ loc + m.size + 16 < WordSize
    BY <1>2, <1>3, Sizing
  <2> QED BY <2>1, <2>2, AddValue
<1> HIDE DEF loc, next
<1>7. Goto(IF loc + m.size + 16 > ArenaEnd THEN Idle
           ELSE [m EXCEPT !.at = "gen", !.loc = loc % AddrSpace, !.addr = loc % AddrSpace,
                          !.left = 1])
  <2> DEFINE nl == Add(Add(tail, headers[tail].alloc_size), HeaderSize)
  <2>1. Goto(IF Add(Add(nl, me.size), HeaderSize) > ArenaEnd THEN Idle
             ELSE [me EXCEPT !.at = "gen", !.loc = nl % AddrSpace, !.addr = nl % AddrSpace,
                             !.left = HeaderSize \div GRANULE_SIZE])
    BY DEF Locate
  <2>2. nl = loc /\ HeaderSize = 16 /\ HeaderSize \div GRANULE_SIZE = 1
    BY <1>5 DEF HeaderSize, GRANULE_SIZE
  <2> HIDE DEF nl
  <2> QED BY <1>1, <1>6, <2>1, <2>2, Zenon
<1>8. /\ tagGen' = tagGen /\ secTag' = secTag /\ tagMem' = tagMem /\ headers' = headers
      /\ tail' = tail /\ blocks' = blocks /\ mie' = mie /\ inIsr' = inIsr
  BY DEF Locate
<1>9. ~Placing /\ ~Filling /\ Frontier = loc
  BY <1>1 DEF Placing, Filling, Frontier, loc
<1>10. Behind(tail)' = loc
  BY <1>8 DEF Behind, loc
<1>11. CASE loc + m.size + 16 > ArenaEnd
  <2>1. Idle \in FrameType /\ Idle.at = "idle"
    <3>1. 0 \in Tags /\ 0 \in Locations /\ 0 \in 0 .. WordSize - 1 /\ 0 \in Nat
      BY HeapAssumption, Sizing DEF Tags, Locations, GRANULE_SIZE
    <3> QED BY <3>1 DEF Idle, FrameType
  <2>2. m' = Idle /\ frame'["isr"] = Idle /\ frame' \in [Frames -> FrameType]
    BY <1>1, <1>7, <1>11, <2>1, Acting DEF HeapInv
  <2>3. m'.at = "idle"
    BY <2>1, <2>2
  <2>4. ~Placing' /\ ~Filling' /\ Frontier' = Frontier
    BY <1>9, <1>10, <2>3 DEF Placing, Filling, Frontier
  <2>5. TypeOK' /\ HandlerIdle'
    BY <1>8, <2>2 DEF HeapInv, TypeOK, HandlerIdle
  <2>6. Chain' /\ Returned' /\ TagsSeparate'
    BY <1>8, <1>9, <2>4, FrameOnly
  <2>7. Serving' /\ Fresh' /\ Coloured'
    BY <1>1, <1>8, <2>3, <2>4 DEF HeapInv, Serving, Fresh, Coloured, Reserved
  <2> QED BY <2>5, <2>6, <2>7 DEF HeapInv
<1>12. CASE ~(loc + m.size + 16 > ArenaEnd)
  <2>1. loc + 16 + m.size <= ArenaEnd /\ loc < AddrSpace /\ loc % AddrSpace = loc
    <3>1. loc + 16 + m.size <= ArenaEnd /\ loc < AddrSpace
      BY <1>2, <1>3, <1>12, Sizing
    <3>2. loc \in 0 .. AddrSpace - 1
      BY <1>2, <3>1, Sizing
    <3> QED BY <3>1, <3>2, Small, Sizing
  <2>2. Goto(next)
    BY <1>7, <1>12, <2>1 DEF next
  <2>3. next \in FrameType
    <3>1. loc \in Locations /\ 1 \in Nat
      BY <1>2, <2>1, Sizing DEF Locations, GRANULE_SIZE
    <3> QED BY <1>2, <3>1 DEF next, FrameType
  <2>4. m' = next /\ frame'["isr"] = Idle /\ frame' \in [Frames -> FrameType]
    BY <1>1, <2>2, <2>3, Acting DEF HeapInv
  <2>5. /\ m'.at = "gen" /\ m'.loc = loc /\ m'.addr = loc /\ m'.left = 1 /\ m'.part = "header"
        /\ m'.size = m.size /\ m'.asked = m.asked
    BY <1>1, <1>2, <2>4 DEF next, FrameType
  <2>6. Placing' /\ ~Filling'
    BY <2>5 DEF Placing, Filling
  <2>7. Frontier' = loc
    BY <1>2, <2>5, <2>6 DEF Frontier, HeaderSize, GRANULE_SIZE
  <2>8. TypeOK' /\ HandlerIdle'
    BY <1>8, <2>4 DEF HeapInv, TypeOK, HandlerIdle
  <2>9. Chain' /\ Returned' /\ TagsSeparate'
    BY <1>8, <1>9, <2>6, FrameOnly
  <2>10. Serving'
    BY <1>3, <1>10, <2>1, <2>5, <2>6, <2>7 DEF Serving, HeaderSize, GRANULE_SIZE
  <2>11. Fresh' /\ Coloured'
    BY <1>1, <1>8, <1>9, <2>5, <2>6, <2>7 DEF HeapInv, Fresh, Coloured, Reserved
  <2> QED BY <2>8, <2>9, <2>10, <2>11 DEF HeapInv
<1> QED BY <1>11, <1>12

\* Reading the tag generator.
LEMMA GenerateTagStep ==
  ASSUME HeapInv, GenerateTag
  PROVE  HeapInv'
<1>1. ~inIsr /\ me = m /\ m.at = "gen"
  BY StepIsMain, Acting DEF HeapInv, GenerateTag
<1>2. m \in FrameType /\ tagGen \in Tags
  BY Here DEF HeapInv, TypeOK
<1>3. [m EXCEPT !.at = "bump", !.tag = tagGen] \in FrameType
  BY <1>2 DEF FrameType
<1>4. /\ m' = [m EXCEPT !.at = "bump", !.tag = tagGen]
      /\ frame'["isr"] = Idle /\ frame' \in [Frames -> FrameType]
  BY <1>1, <1>3, Acting DEF HeapInv, GenerateTag
<1>5. /\ m'.at = "bump" /\ m'.tag = tagGen /\ m'.loc = m.loc /\ m'.addr = m.addr
      /\ m'.left = m.left /\ m'.part = m.part /\ m'.size = m.size /\ m'.asked = m.asked
  BY <1>2, <1>4 DEF FrameType
<1>6. /\ tagGen' = tagGen /\ secTag' = secTag /\ tagMem' = tagMem /\ headers' = headers
      /\ tail' = tail /\ blocks' = blocks /\ mie' = mie /\ inIsr' = inIsr
  BY DEF GenerateTag
<1>7. Placing' = Placing /\ Filling' = Filling
  BY <1>1, <1>5 DEF Placing, Filling
<1>8. Frontier' = Frontier
  BY <1>5, <1>6, <1>7 DEF Frontier, Behind
<1>9. TypeOK' /\ HandlerIdle'
  BY <1>4, <1>6 DEF HeapInv, TypeOK, HandlerIdle
<1>10. Chain' /\ Returned' /\ TagsSeparate'
  BY <1>5, <1>6, <1>7, FrameOnly
<1>11. Serving'
  BY <1>1, <1>5, <1>6, <1>7, <1>8 DEF HeapInv, Serving, Behind
<1>12. Fresh' /\ Coloured'
  BY <1>1, <1>5, <1>6, <1>7, <1>8 DEF HeapInv, Fresh, Coloured, Reserved
<1> QED BY <1>9, <1>10, <1>11, <1>12 DEF HeapInv

\* Advancing the tag generator: the loop ends with a tag that is not
\* reserved and not the one given out.
LEMMA BumpTagStep ==
  ASSUME HeapInv, BumpTag
  PROVE  HeapInv'
<1> DEFINE next == [m EXCEPT !.at = IF Reserved(tagGen)' THEN "bump" ELSE "st"]
<1>1. ~inIsr /\ me = m /\ m.at = "bump"
  BY StepIsMain, Acting DEF HeapInv, BumpTag
<1>2. m \in FrameType /\ tagGen \in Tags /\ m.tag \in Tags /\ secTag \in Tags
  BY Here DEF HeapInv, TypeOK, FrameType
<1>3. next \in FrameType
  BY <1>2 DEF FrameType
<1>4. /\ secTag' = secTag /\ tagMem' = tagMem /\ headers' = headers
      /\ tail' = tail /\ blocks' = blocks /\ mie' = mie /\ inIsr' = inIsr
      /\ tagGen' = Inc(tagGen)
  BY DEF BumpTag, Inc
<1>5. m' = next /\ frame'["isr"] = Idle /\ frame' \in [Frames -> FrameType]
  <2>1. Goto(next)
    BY <1>1, <1>4 DEF BumpTag, Reserved
  <2> HIDE DEF next
  <2> QED BY <1>1, <1>3, <2>1, Acting DEF HeapInv
<1>6. /\ m'.at = (IF Reserved(tagGen)' THEN "bump" ELSE "st")
      /\ m'.tag = m.tag /\ m'.loc = m.loc /\ m'.addr = m.addr
      /\ m'.left = m.left /\ m'.part = m.part /\ m'.size = m.size /\ m'.asked = m.asked
  BY <1>2, <1>5 DEF FrameType
<1> HIDE DEF next
<1>7. Placing' = Placing /\ Filling' = Filling
  BY <1>1, <1>6 DEF Placing, Filling
<1>8. Frontier' = Frontier
  BY <1>4, <1>6, <1>7 DEF Frontier, Behind
<1>9. Inc(tagGen) \in Tags /\ Inc(tagGen) = IF tagGen + 1 = TagCount THEN 0 ELSE tagGen + 1
  BY <1>2, IncValue
<1>10. TypeOK' /\ HandlerIdle'
  BY <1>4, <1>5, <1>9 DEF HeapInv, TypeOK, HandlerIdle
<1>11. Chain' /\ Returned' /\ TagsSeparate'
  BY <1>4, <1>6, <1>7, FrameOnly
<1>12. Serving'
  <2>1. m'.at \in {"bump", "st"}
    BY <1>6
  <2> QED BY <1>1, <1>4, <1>6, <1>7, <1>8, <2>1 DEF HeapInv, Serving, Behind
<1>13. Fresh'
  <2> DEFINE a == Inc(m.tag)
             b == Inc(a)
  <2>1. a \in Tags /\ a = IF m.tag + 1 = TagCount THEN 0 ELSE m.tag + 1
    BY <1>2, IncValue
  <2>2. b \in Tags /\ b = IF a + 1 = TagCount THEN 0 ELSE a + 1
    BY <2>1, IncValue
  <2>3. /\ secTag # 0 /\ m.tag # 0 /\ m.tag # secTag
        /\ \/ tagGen = m.tag
           \/ (tagGen = 0 \/ tagGen = secTag) /\ tagGen = a
           \/ /\ tagGen = 0 \/ tagGen = secTag
              /\ a = 0 \/ a = secTag
              /\ tagGen = b
    BY <1>1 DEF HeapInv, Fresh, Reserved
  <2> HIDE DEF a, b
  <2>4. TagCount \in Nat /\ TagCount >= 4
    BY HeapAssumption
  <2>5. tagGen = m.tag => tagGen' = a
    BY <1>4 DEF a
  <2>6. tagGen = a => tagGen' = b
    BY <1>4 DEF b
  <2>7. tagGen' # m.tag
    BY <1>2, <1>4, <1>9, <2>1, <2>2, <2>3, <2>4 DEF Tags
  <2>8. Reserved(tagGen)' <=> tagGen' = 0 \/ tagGen' = secTag
    BY <1>4 DEF Reserved
  <2>9. Reserved(tagGen)' => \/ tagGen' = a
                             \/ (a = 0 \/ a = secTag) /\ tagGen' = b
    BY <1>2, <1>4, <1>9, <2>1, <2>2, <2>3, <2>4, <2>5, <2>6, <2>8 DEF Tags
  <2>10. /\ Reserved(Inc(m.tag))' <=> a = 0 \/ a = secTag
         /\ Reserved(m.tag)' <=> m.tag = 0 \/ m.tag = secTag
    BY <1>4, <1>6 DEF Reserved, Inc, a
  <2>11. Inc(m.tag)' = a /\ Inc(Inc(m.tag))' = b
    BY <1>6 DEF Inc, a, b
  <2> QED BY <1>4, <1>6, <2>3, <2>7, <2>8, <2>9, <2>10, <2>11 DEF Fresh, Reserved
<1>14. Coloured'
  <2>1. tagMem[Frontier - 16] # m.tag /\ m'.at \in {"bump", "st"}
    BY <1>1, <1>6 DEF HeapInv, Coloured, GRANULE_SIZE
  <2>2. /\ m.loc \in Nat /\ m.size \in Nat /\ m.left \in Nat
    BY Here
  <2>3. Placing => m.left = 1 /\ Frontier = m.loc
    BY <1>1, <2>2 DEF HeapInv, Serving, Frontier, HeaderSize, GRANULE_SIZE
  <2>4. Filling => ~Placing /\ Frontier = m.loc + 16 /\ Frontier - 16 = m.loc
    BY <1>1, <2>2 DEF HeapInv, Serving, Frontier, Filling, Placing, HeaderSize, GRANULE_SIZE
  <2>5. \A a \in Locations : a >= Frontier => tagMem[a] = 0
    BY DEF HeapInv, Coloured
  <2>6. Placing' => m'.left # 0 /\ tagMem[m'.loc - 16] # m'.tag
    BY <1>6, <1>7, <2>1, <2>3
  <2>7. Filling' => /\ tagMem[m'.loc] # m'.tag
                    /\ \A a \in Locations : ~(m'.loc + 16 <= a /\ a < Frontier)
    BY <1>6, <1>7, <2>1, <2>2, <2>4 DEF Locations
  <2> QED BY <1>4, <1>6, <1>8, <2>1, <2>5, <2>6, <2>7 DEF Coloured, HeaderSize, GRANULE_SIZE
<1> QED BY <1>10, <1>11, <1>12, <1>13, <1>14 DEF HeapInv

\* Where the blocks are that malloc has returned.
LEMMA BlockPlace ==
  ASSUME HeapInv, NEW b \in blocks
  PROVE  /\ b.addr \in Nat /\ b.addr % 16 = 0 /\ b.size \in Nat /\ b.size % 16 = 0
         /\ 16 <= b.size /\ b.addr - 16 \in Locations /\ b.addr - 16 \in DOMAIN headers
         /\ ArenaStart + 16 <= b.addr /\ b.addr + b.size = Behind(b.addr - 16)
         /\ b.addr + b.size <= ArenaEnd /\ b.addr + b.size <= Frontier
         /\ b.addr - 16 <= tail /\ b.addr + b.size <= Behind(tail)
         /\ Filling => b.addr + b.size <= tail
<1> DEFINE h == b.addr - 16
<1>1. /\ h \in DOMAIN headers /\ h <= tail /\ (Filling => h # tail)
      /\ b.size = headers[h].alloc_size /\ 16 <= b.size
  BY DEF HeapInv, Returned, HeaderSize, GRANULE_SIZE
<1>2. b.addr \in Locations /\ b.size \in Nat /\ DOMAIN headers \subseteq Locations
  BY Sizing DEF HeapInv, TypeOK
<1>3. /\ ArenaStart <= h /\ Behind(h) <= ArenaEnd /\ headers[h].alloc_size % 16 = 0
  BY <1>1 DEF HeapInv, Chain, GRANULE_SIZE
<1>4. /\ b.addr \in Nat /\ b.addr % 16 = 0 /\ h \in Nat /\ ArenaStart \in Nat
  BY <1>1, <1>2, Sizing DEF Locations, GRANULE_SIZE
<1>5. Behind(h) = b.addr + b.size
  BY <1>1, <1>2, <1>4 DEF Behind, HeaderSize
<1>6. tail \in DOMAIN headers /\ (h < tail => Behind(h) <= tail)
  BY <1>1 DEF HeapInv, TypeOK, Chain
<1>7. /\ tail \in Nat /\ Behind(tail) \in Nat /\ tail + 16 <= Behind(tail)
      /\ m.loc \in Nat /\ m.left \in Nat /\ m.size \in Nat
  BY Here
<1>8. Behind(h) <= Behind(tail) /\ (Filling => Behind(h) <= tail)
  <2>1. CASE h = tail
    BY <1>1, <1>7, <2>1
  <2>2. CASE h # tail
    <3>1. h < tail
      BY <1>1, <1>4, <1>7, <2>2
    <3>2. Behind(h) <= tail /\ Behind(h) \in Nat
      BY <1>2, <1>4, <1>5, <1>6, <3>1
    <3> HIDE DEF h
    <3> QED BY <1>7, <3>2
  <2> QED BY <2>1, <2>2
<1>9. Behind(h) <= Frontier
  <2>1. CASE Placing
    <3>1. m.loc = Behind(tail) /\ (m.left = 0 \/ m.left = 1)
      BY <2>1 DEF HeapInv, Serving
    <3>2. m.loc <= Frontier
      BY <1>7, <2>1, <3>1 DEF Frontier, HeaderSize, GRANULE_SIZE
    <3> QED BY <1>2, <1>4, <1>5, <1>7, <1>8, <3>1, <3>2, Here
  <2>2. CASE Filling
    <3>1. m.loc = tail /\ 16 * m.left <= m.size /\ ~Placing
      BY <2>2 DEF HeapInv, Serving, Filling, Placing, GRANULE_SIZE
    <3>2. tail <= Frontier
      BY <1>7, <2>2, <3>1 DEF Frontier, HeaderSize, GRANULE_SIZE
    <3> QED BY <1>2, <1>4, <1>5, <1>7, <1>8, <2>2, <3>2, Here
  <2>3. CASE ~Placing /\ ~Filling
    BY <1>8, <2>3 DEF Frontier
  <2> QED BY <2>1, <2>2, <2>3
<1> QED BY <1>1, <1>2, <1>3, <1>4, <1>5, <1>8, <1>9

\* One st instruction: the granule at the frontier gets the tag.
LEMMA StoreTagStep ==
  ASSUME HeapInv, StoreTag
  PROVE  HeapInv'
<1> DEFINE F == Frontier
           wrapped == (F + 16) % AddrSpace
           next == [m EXCEPT !.addr = wrapped, !.left = m.left - 1]
<1>1. ~inIsr /\ me = m /\ m.at = "st" /\ m.left > 0
  BY StepIsMain, Acting DEF HeapInv, StoreTag
<1>2. /\ m \in FrameType /\ m.loc \in Nat /\ m.loc % 16 = 0 /\ m.left \in Nat /\ m.size \in Nat
      /\ F \in Nat /\ F % 16 = 0 /\ ArenaStart + 16 <= F /\ F - 16 \in Locations
      /\ tail \in Nat
  BY Here
<1>3. Placing \/ Filling
  BY <1>1, <1>2 DEF Placing, Filling, FrameType
<1>4. 16 <= m.size
  BY <1>1 DEF HeapInv, Serving, GRANULE_SIZE
<1>5. Placing => /\ m.addr = F /\ m.left = 1 /\ F = m.loc /\ m.loc = Behind(tail)
                 /\ m.loc + 16 + m.size <= ArenaEnd
  BY <1>1, <1>2 DEF HeapInv, Serving, Frontier, HeaderSize, GRANULE_SIZE
<1>6. Filling => /\ ~Placing /\ m.addr = F /\ m.loc = tail /\ 16 * m.left <= m.size
                 /\ F = m.loc + 16 + m.size - 16 * m.left /\ m.loc + 16 + m.size <= ArenaEnd
  <2>1. Filling => m.loc = tail /\ headers[tail].alloc_size = m.size
    BY DEF HeapInv, Serving
  <2>2. Behind(tail) <= ArenaEnd
    BY Here
  <2> QED BY <1>1, <1>2, <2>1, <2>2 DEF HeapInv, Serving, Frontier, Filling, Placing, Behind,
             HeaderSize, GRANULE_SIZE
<1>7. F + 16 <= AddrSpace /\ F \in Locations
  BY <1>1, <1>2, <1>3, <1>4, <1>5, <1>6, Sizing DEF Locations, GRANULE_SIZE
<1>8. m.addr = F
  BY <1>3, <1>5, <1>6
<1>9. wrapped \in Locations /\ (F + 16 < AddrSpace => wrapped = F + 16)
  <2>1. CASE F + 16 < AddrSpace
    <3>1. F + 16 \in 0 .. AddrSpace - 1
      BY <1>2, <2>1, Sizing
    <3>2. wrapped = F + 16
      BY <3>1, Small, Sizing
    <3> HIDE DEF F, wrapped
    <3>3. (F + 16) % 16 = 0
      BY <1>2
    <3> QED BY <3>1, <3>2, <3>3 DEF Locations, GRANULE_SIZE
  <2>2. CASE F + 16 = AddrSpace
    <3>1. AddrSpace % AddrSpace = 0
      BY <1>2, <2>2, SMT
    <3> QED BY <1>2, <2>2, <3>1, Sizing DEF Locations, GRANULE_SIZE
  <2> QED BY <1>2, <1>7, <2>1, <2>2, Sizing
<1>10. next \in FrameType /\ next.left \in Nat
  <2>1. m.left - 1 \in Nat
    BY <1>1, <1>2
  <2> HIDE DEF wrapped
  <2> QED BY <1>2, <1>9, <2>1 DEF FrameType
<1>11. /\ tagGen' = tagGen /\ secTag' = secTag /\ headers' = headers
       /\ tail' = tail /\ blocks' = blocks /\ mie' = mie /\ inIsr' = inIsr
       /\ tagMem' = [tagMem EXCEPT ![F] = m.tag]
  BY <1>1, <1>8 DEF StoreTag
<1>12. m' = next /\ frame'["isr"] = Idle /\ frame' \in [Frames -> FrameType]
  <2>1. Goto([m EXCEPT !.addr = (m.addr + 16) % AddrSpace, !.left = m.left - 1])
    BY <1>1 DEF StoreTag, GRANULE_SIZE
  <2>2. Goto(next)
    BY <1>8, <2>1
  <2> HIDE DEF next
  <2> QED BY <1>1, <1>10, <2>2, Acting DEF HeapInv
<1>13. /\ m'.at = "st" /\ m'.left = m.left - 1 /\ m'.addr = wrapped /\ m'.tag = m.tag
       /\ m'.loc = m.loc /\ m'.part = m.part /\ m'.size = m.size /\ m'.asked = m.asked
  <2> HIDE DEF wrapped
  <2> QED BY <1>1, <1>2, <1>12 DEF FrameType
<1> HIDE DEF F, wrapped, next
<1>14. Placing' = Placing /\ Filling' = Filling
  BY <1>1, <1>13 DEF Placing, Filling
<1>15. Frontier' = F + 16
  <2>1. CASE Placing
    BY <1>2, <1>5, <1>13, <1>14, <2>1 DEF Frontier, HeaderSize, GRANULE_SIZE
  <2>2. CASE Filling
    <3>1. ~Placing' /\ Filling'
      BY <1>6, <1>14, <2>2
    <3>2. Frontier' = m.loc + 16 + m.size - 16 * (m.left - 1)
      BY <1>13, <3>1 DEF Frontier, HeaderSize, GRANULE_SIZE
    <3> QED BY <1>2, <1>6, <2>2, <3>2
  <2> QED BY <1>3, <2>1, <2>2
<1>16. tagMem \in [Locations -> Tags] /\ m.tag \in Tags
  BY <1>2 DEF HeapInv, TypeOK, FrameType
<1>17. \A a \in Locations : tagMem'[a] = IF a = F THEN m.tag ELSE tagMem[a]
  BY <1>7, <1>11, <1>16
<1>18. TypeOK' /\ HandlerIdle'
  <2>1. tagMem' \in [Locations -> Tags]
    BY <1>11, <1>16
  <2> QED BY <1>11, <1>12, <2>1 DEF HeapInv, TypeOK, HandlerIdle
<1>19. Chain' /\ Returned'
  BY <1>11, <1>13, <1>14, ListKept
<1>20. Serving'
  <2>1. Placing => m'.addr = F + 16 /\ m'.left = 0
    BY <1>2, <1>4, <1>5, <1>9, <1>13, Sizing
  <2>2. Filling /\ m'.left > 0 => m'.addr = F + 16
    BY <1>2, <1>6, <1>9, <1>13, Sizing
  <2>3. Filling => 16 * m'.left <= m.size
    BY <1>1, <1>2, <1>6, <1>13
  <2>4. Behind(tail)' = Behind(tail)
    BY <1>11 DEF Behind
  <2>5. m.at # "idle" /\ m'.at # "idle"
    BY <1>1, <1>13
  <2> QED BY <1>1, <1>5, <1>6, <1>11, <1>13, <1>14, <1>15, <2>1, <2>2, <2>3, <2>4, <2>5
          DEF HeapInv, Serving, HeaderSize, GRANULE_SIZE
<1>21. Fresh'
  BY <1>1, <1>11, <1>13 DEF HeapInv, Fresh, Reserved
<1>22. Coloured'
  <2>1. \A a \in Locations : a >= F + 16 => tagMem'[a] = 0
    BY <1>2, <1>17 DEF HeapInv, Coloured, F, Locations
  <2>2. Placing => m'.left = 0 /\ tagMem'[m.loc] = m.tag
    BY <1>2, <1>5, <1>7, <1>13, <1>17
  <2>3. Filling => m.loc \in Locations /\ m.loc < F
    <3>1. Filling => m.loc < F
      BY <1>1, <1>2, <1>6
    <3> QED BY <1>2, <3>1, Here, Sizing DEF Locations, GRANULE_SIZE
  <2>4. Filling => tagMem'[m.loc] # m.tag
    BY <1>1, <1>2, <1>17, <2>3 DEF HeapInv, Coloured
  <2>5. Filling => \A a \in Locations : m.loc + 16 <= a /\ a < F + 16 => tagMem'[a] = m.tag
    <3> SUFFICES ASSUME Filling, NEW a \in Locations, m.loc + 16 <= a, a < F + 16
                 PROVE  tagMem'[a] = m.tag
      OBVIOUS
    <3>1. a \in Nat /\ a % 16 = 0
      BY DEF Locations, GRANULE_SIZE
    <3>2. a <= F
      BY <1>2, <3>1
    <3>3. a < F => tagMem[a] = m.tag
      BY <1>1 DEF HeapInv, Coloured, F, HeaderSize
    <3> QED BY <1>2, <1>17, <3>1, <3>2, <3>3
  <2> QED BY <1>13, <1>14, <1>15, <2>1, <2>2, <2>4, <2>5 DEF Coloured, HeaderSize, GRANULE_SIZE
<1>23. TagsSeparate'
  <2> SUFFICES ASSUME NEW b \in blocks
               PROVE  /\ ~Reserved(b.tag)
                      /\ \A a \in Extent(b) : tagMem'[a] = b.tag
                      /\ tagMem'[b.addr - 16] # b.tag
                      /\ b.addr + b.size < AddrSpace => tagMem'[b.addr + b.size] # b.tag
    BY <1>11 DEF TagsSeparate, Reserved, Extent, GRANULE_SIZE
  <2>1. /\ ~Reserved(b.tag)
        /\ \A a \in Extent(b) : tagMem[a] = b.tag
        /\ tagMem[b.addr - 16] # b.tag
        /\ b.addr + b.size < AddrSpace => tagMem[b.addr + b.size] # b.tag
    BY DEF HeapInv, TagsSeparate, GRANULE_SIZE
  <2>2. /\ b.addr \in Nat /\ b.addr % 16 = 0 /\ b.size \in Nat /\ b.size % 16 = 0
        /\ 16 <= b.size /\ b.addr - 16 \in Locations /\ b.addr + b.size <= F
        /\ Filling => b.addr + b.size <= tail
    BY BlockPlace DEF F
  <2>3. \A a \in Extent(b) : a \in Locations /\ a # F
    BY <1>2, <2>2 DEF Extent, Locations
  <2>4. b.addr - 16 # F
    BY <1>2, <2>2
  <2>5. ASSUME b.addr + b.size < AddrSpace PROVE tagMem'[b.addr + b.size] # b.tag
    <3>1. b.addr + b.size \in Locations
      <4>1. b.addr + b.size \in 0 .. AddrSpace - 1 /\ (b.addr + b.size) % 16 = 0
        BY <2>2, <2>5, Sizing
      <4> QED BY <4>1 DEF Locations, GRANULE_SIZE
    <3>2. CASE b.addr + b.size = F
      <4>1. Placing
        BY <1>1, <1>2, <1>3, <1>6, <2>2, <3>2
      <4>2. tagMem[F - 16] # m.tag
        BY <1>1, <1>5, <4>1 DEF HeapInv, Coloured, GRANULE_SIZE
      <4>3. F - 16 \in Extent(b)
        BY <1>2, <2>2, <3>2 DEF Extent
      <4> QED BY <1>7, <1>17, <2>1, <3>2, <4>2, <4>3
    <3>3. CASE b.addr + b.size # F
      BY <1>17, <2>1, <2>5, <3>1, <3>3
    <3> QED BY <3>2, <3>3
  <2> QED BY <1>17, <2>1, <2>2, <2>3, <2>4, <2>5
<1> QED BY <1>18, <1>19, <1>20, <1>21, <1>22, <1>23 DEF HeapInv

\* Filling in the new header, which is not linked yet.
LEMMA FillHeaderStep ==
  ASSUME HeapInv, FillHeader
  PROVE  HeapInv'
<1> DEFINE new == [alloc_size |-> m.size, next_ptr |-> 0, is_free |-> FALSE]
<1>1. ~inIsr /\ me = m /\ m.at = "st" /\ m.left = 0 /\ m.part = "header"
  BY StepIsMain, Acting DEF HeapInv, FillHeader
<1>2. /\ m \in FrameType /\ m.loc \in Nat /\ m.size \in Nat /\ tail \in Nat
      /\ tail + 16 <= Behind(tail) /\ ArenaStart <= tail /\ Behind(tail) \in Nat
  BY Here
<1>3. Placing /\ ~Filling
  BY <1>1 DEF Placing, Filling
<1>4. /\ m.loc = Behind(tail) /\ m.loc + 16 + m.size <= ArenaEnd /\ m.size % 16 = 0
      /\ m.addr = Frontier /\ Frontier = m.loc + 16
  BY <1>1, <1>2, <1>3 DEF HeapInv, Serving, Frontier, HeaderSize, GRANULE_SIZE
<1>5. m' = [m EXCEPT !.at = "link"] /\ frame'["isr"] = Idle /\ frame' \in [Frames -> FrameType]
  <2>1. [m EXCEPT !.at = "link"] \in FrameType
    BY <1>2 DEF FrameType
  <2> QED BY <1>1, <2>1, Acting DEF HeapInv, FillHeader
<1>6. /\ m'.at = "link" /\ m'.left = 0 /\ m'.addr = m.addr /\ m'.tag = m.tag
      /\ m'.loc = m.loc /\ m'.part = "header" /\ m'.size = m.size /\ m'.asked = m.asked
  BY <1>1, <1>2, <1>5 DEF FrameType
<1>7. /\ tagGen' = tagGen /\ secTag' = secTag /\ tagMem' = tagMem
      /\ tail' = tail /\ blocks' = blocks /\ mie' = mie /\ inIsr' = inIsr
      /\ headers' = [a \in DOMAIN headers \cup {m.loc} |-> IF a = m.loc THEN new ELSE headers[a]]
  BY <1>1 DEF FillHeader
<1>8. DOMAIN headers' = DOMAIN headers \cup {m.loc} /\ headers'[m.loc] = new
  BY <1>7
<1>9. \A a \in DOMAIN headers : a # m.loc => headers'[a] = headers[a]
  BY <1>7
<1>10. tail \in DOMAIN headers /\ DOMAIN headers \subseteq Locations /\ tail < m.loc
  BY <1>2, <1>4 DEF HeapInv, TypeOK
<1>11. headers'[tail] = headers[tail] /\ Behind(tail)' = Behind(tail)
  BY <1>2, <1>7, <1>9, <1>10 DEF Behind
<1>12. Placing' /\ ~Filling' /\ Frontier' = Frontier
  BY <1>1, <1>3, <1>6 DEF Placing, Filling, Frontier
<1>13. TypeOK' /\ HandlerIdle'
  <2>1. m.loc \in Locations /\ 0 \in Locations /\ m.size \in 0 .. WordSize - 1
    BY <1>2, HeapAssumption, Sizing DEF FrameType, Locations, GRANULE_SIZE
  <2>2. \A a \in DOMAIN headers' :
          headers'[a] \in [alloc_size : 0 .. WordSize - 1, next_ptr : Locations,
                           is_free : BOOLEAN]
    <3>1. new \in [alloc_size : 0 .. WordSize - 1, next_ptr : Locations, is_free : BOOLEAN]
      BY <2>1
    <3>2. \A a \in DOMAIN headers :
            headers[a] \in [alloc_size : 0 .. WordSize - 1, next_ptr : Locations,
                            is_free : BOOLEAN]
      BY DEF HeapInv, TypeOK
    <3> HIDE DEF new
    <3> QED BY <1>8, <1>9, <3>1, <3>2
  <2>3. tail' \in DOMAIN headers' /\ DOMAIN headers' \subseteq Locations
    BY <1>7, <1>8, <1>10, <2>1
  <2> QED BY <1>5, <1>7, <2>2, <2>3 DEF HeapInv, TypeOK, HandlerIdle
<1>14. Chain'
  <2>1. \A a \in DOMAIN headers : a \in Nat /\ (a <= tail \/ a = m.loc)
    BY <1>10 DEF HeapInv, Chain, Locations
  <2>2. \A a \in DOMAIN headers' :
          headers'[a].alloc_size = IF a = m.loc THEN m.size ELSE headers[a].alloc_size
    BY <1>8, <1>9
  <2>3. \A a \in DOMAIN headers' :
          /\ ArenaStart <= a /\ a + 16 + headers'[a].alloc_size <= ArenaEnd
          /\ headers'[a].alloc_size % 16 = 0 /\ ~headers'[a].is_free
          /\ a <= tail \/ a = m.loc
    <3> SUFFICES ASSUME NEW a \in DOMAIN headers'
                 PROVE  /\ ArenaStart <= a /\ a + 16 + headers'[a].alloc_size <= ArenaEnd
                        /\ headers'[a].alloc_size % 16 = 0 /\ ~headers'[a].is_free
                        /\ a <= tail \/ a = m.loc
      OBVIOUS
    <3>1. CASE a = m.loc
      <4>1. ArenaStart <= m.loc
        BY <1>2, <1>10, Sizing DEF Locations
      <4> QED BY <1>4, <1>8, <3>1, <4>1
    <3>2. CASE a # m.loc
      <4>1. a \in DOMAIN headers /\ headers'[a] = headers[a]
        BY <1>8, <1>9, <3>2
      <4> QED BY <2>1, <3>2, <4>1 DEF HeapInv, Chain, Behind, HeaderSize, GRANULE_SIZE
    <3> QED BY <3>1, <3>2
  <2>4. ASSUME NEW a \in DOMAIN headers', NEW b \in DOMAIN headers', a < b
        PROVE  a + 16 + headers'[a].alloc_size <= b
    <3>1. a # m.loc
      BY <1>2, <1>8, <1>10, <2>1, <2>4
    <3>2. a \in DOMAIN headers /\ headers'[a] = headers[a] /\ a <= tail
      BY <1>8, <1>9, <2>1, <3>1
    <3>3. CASE b # m.loc
      <4>1. b \in DOMAIN headers
        BY <1>8, <3>3
      <4> QED BY <2>4, <3>2, <4>1 DEF HeapInv, Chain, Behind, HeaderSize
    <3>4. CASE b = m.loc
      <4>1. CASE a = tail
        BY <1>2, <1>4, <3>2, <3>4, <4>1 DEF Behind, HeaderSize
      <4>2. CASE a # tail
        <5>1. a < tail
          BY <1>2, <2>1, <3>2, <4>2
        <5>2. Behind(a) <= tail
          BY <1>10, <3>2, <5>1 DEF HeapInv, Chain
        <5>3. headers[a].alloc_size \in Nat /\ a \in Nat
          BY <2>1, <3>2, Sizing DEF HeapInv, TypeOK
        <5>4. a + 16 + headers[a].alloc_size <= tail
          BY <5>2 DEF Behind, HeaderSize
        <5> QED BY <1>2, <1>10, <3>2, <3>4, <5>3, <5>4
      <4> QED BY <4>1, <4>2
    <3> QED BY <3>3, <3>4
  <2>5. ASSUME NEW a \in DOMAIN headers', a < tail
        PROVE  headers'[a].next_ptr = a + 16 + headers'[a].alloc_size
    <3>1. a \in DOMAIN headers /\ headers'[a] = headers[a]
      BY <1>2, <1>8, <1>9, <1>10, <2>5
    <3> QED BY <2>5, <3>1 DEF HeapInv, Chain, Behind, HeaderSize
  <2> QED BY <1>6, <1>7, <1>12, <2>3, <2>4, <2>5 DEF Chain, Behind, HeaderSize, GRANULE_SIZE
<1>15. Serving'
  <2>1. m.at # "idle" /\ m'.at # "idle" /\ m'.at # "publish" /\ m'.at # "find"
    BY <1>1, <1>6
  <2>2. headers'[m.loc].alloc_size = m.size /\ m.loc \in DOMAIN headers'
    BY <1>8
  <2> QED BY <1>3, <1>4, <1>6, <1>11, <1>12, <2>1, <2>2 DEF HeapInv, Serving, HeaderSize, GRANULE_SIZE
<1>16. Returned'
  <2> SUFFICES ASSUME NEW b \in blocks
               PROVE  /\ b.addr - 16 \in DOMAIN headers' /\ b.addr - 16 <= tail
                      /\ b.size = headers'[b.addr - 16].alloc_size
                      /\ 16 <= b.size /\ b.asked <= b.size
    BY <1>7, <1>12 DEF HeapInv, Returned, HeaderSize, GRANULE_SIZE
  <2>1. /\ b.addr - 16 \in DOMAIN headers /\ b.addr - 16 <= tail
        /\ b.size = headers[b.addr - 16].alloc_size /\ 16 <= b.size /\ b.asked <= b.size
    BY DEF HeapInv, Returned, HeaderSize, GRANULE_SIZE
  <2>2. b.addr - 16 # m.loc
    BY <1>2, <1>10, <2>1, BlockPlace
  <2> QED BY <1>8, <1>9, <2>1, <2>2
<1>17. Fresh'
  BY <1>1, <1>6, <1>7 DEF HeapInv, Fresh, Reserved
<1>18. Coloured'
  <2>1. tagMem[m.loc] = m.tag /\ tagGen # m.tag
    BY <1>1, <1>3 DEF HeapInv, Coloured, Fresh
  <2>2. Frontier - 16 = m.loc
    BY <1>2, <1>4
  <2>3. \A a \in Locations : a >= Frontier => tagMem[a] = 0
    BY DEF HeapInv, Coloured
  <2> QED BY <1>6, <1>7, <1>12, <2>1, <2>2, <2>3 DEF Coloured, GRANULE_SIZE
<1>19. TagsSeparate'
  BY <1>7 DEF HeapInv, TagsSeparate, Reserved, Extent
<1> QED BY <1>13, <1>14, <1>15, <1>16, <1>17, <1>18, <1>19 DEF HeapInv

\* Linking the new header behind the tail.
LEMMA LinkHeaderStep ==
  ASSUME HeapInv, LinkHeader
  PROVE  HeapInv'
<1>1. ~inIsr /\ me = m /\ m.at = "link"
  BY StepIsMain, Acting DEF HeapInv, LinkHeader
<1>2. m \in FrameType /\ tail \in Nat /\ m.loc \in Locations
  BY Here DEF FrameType
<1>3. Placing /\ ~Filling /\ m.part = "header"
  BY <1>1, <1>2 DEF HeapInv, Serving, Placing, Filling, FrameType
<1>4. /\ m.loc = Behind(tail) /\ m.loc \in DOMAIN headers /\ headers[m.loc].alloc_size = m.size
      /\ m.left = 0
  BY <1>1, <1>3 DEF HeapInv, Serving
<1>5. m' = [m EXCEPT !.at = "publish"] /\ frame'["isr"] = Idle /\ frame' \in [Frames -> FrameType]
  <2>1. [m EXCEPT !.at = "publish"] \in FrameType
    BY <1>2 DEF FrameType
  <2> QED BY <1>1, <2>1, Acting DEF HeapInv, LinkHeader
<1>6. /\ m'.at = "publish" /\ m'.left = 0 /\ m'.addr = m.addr /\ m'.tag = m.tag
      /\ m'.loc = m.loc /\ m'.part = "header" /\ m'.size = m.size /\ m'.asked = m.asked
  BY <1>2, <1>3, <1>4, <1>5 DEF FrameType
<1>7. /\ tagGen' = tagGen /\ secTag' = secTag /\ tagMem' = tagMem
      /\ tail' = tail /\ blocks' = blocks /\ mie' = mie /\ inIsr' = inIsr
      /\ headers' = [headers EXCEPT ![tail].next_ptr = m.loc]
  BY <1>1 DEF LinkHeader
<1>8. /\ tail \in DOMAIN headers
      /\ \A a \in DOMAIN headers :
           headers[a] \in [alloc_size : 0 .. WordSize - 1, next_ptr : Locations,
                           is_free : BOOLEAN]
  BY DEF HeapInv, TypeOK
<1>9. /\ DOMAIN headers' = DOMAIN headers
      /\ \A a \in DOMAIN headers : /\ headers'[a].alloc_size = headers[a].alloc_size
                                   /\ headers'[a].is_free = headers[a].is_free
                                   /\ a # tail => headers'[a] = headers[a]
      /\ headers'[tail].next_ptr = m.loc
  BY <1>7, <1>8
<1>10. Placing' /\ ~Filling' /\ Frontier' = Frontier
  BY <1>1, <1>3, <1>4, <1>6 DEF Placing, Filling, Frontier
<1>11. TypeOK' /\ HandlerIdle'
  <2>1. \A a \in DOMAIN headers' :
          headers'[a] \in [alloc_size : 0 .. WordSize - 1, next_ptr : Locations,
                           is_free : BOOLEAN]
    BY <1>2, <1>7, <1>8
  <2> QED BY <1>5, <1>7, <1>9, <2>1 DEF HeapInv, TypeOK, HandlerIdle
<1>12. Chain'
  <2>1. \A a \in DOMAIN headers : a < tail => headers'[a].next_ptr = headers[a].next_ptr
    BY <1>2, <1>9
  <2> QED BY <1>6, <1>7, <1>9, <1>10, <2>1 DEF HeapInv, Chain, Behind
<1>13. Serving'
  <2>1. Behind(tail)' = Behind(tail)
    BY <1>7, <1>8, <1>9 DEF Behind
  <2>2. m.at # "idle" /\ m'.at # "idle" /\ m'.at = "publish" /\ m'.at # "find"
    BY <1>1, <1>6
  <2> QED BY <1>1, <1>3, <1>4, <1>6, <1>7, <1>9, <1>10, <2>1, <2>2 DEF HeapInv, Serving
<1>14. Returned'
  BY <1>7, <1>9, <1>10 DEF HeapInv, Returned
<1>15. Fresh' /\ Coloured'
  BY <1>1, <1>6, <1>7, <1>10 DEF HeapInv, Fresh, Coloured, Reserved
<1>16. TagsSeparate'
  BY <1>7 DEF HeapInv, TagsSeparate, Reserved, Extent
<1> QED BY <1>11, <1>12, <1>13, <1>14, <1>15, <1>16 DEF HeapInv

\* The new header becomes the tail.
LEMMA PublishHeaderStep ==
  ASSUME HeapInv, PublishHeader
  PROVE  HeapInv'
<1> DEFINE next == [m EXCEPT !.at = "gen", !.part = "block", !.left = m.size \div 16]
<1>1. ~inIsr /\ me = m /\ m.at = "publish"
  BY StepIsMain, Acting DEF HeapInv, PublishHeader
<1>2. /\ m \in FrameType /\ tail \in Nat /\ m.loc \in Nat /\ m.size \in Nat
      /\ tail + 16 <= Behind(tail)
  BY Here
<1>3. Placing /\ ~Filling
  BY <1>1, <1>2 DEF HeapInv, Serving, Placing, Filling, FrameType
<1>4. /\ m.loc = Behind(tail) /\ m.loc \in DOMAIN headers /\ headers[m.loc].alloc_size = m.size
      /\ m.left = 0 /\ headers[tail].next_ptr = m.loc /\ m.addr = Frontier
      /\ m.size % 16 = 0
  BY <1>1, <1>3 DEF HeapInv, Serving, GRANULE_SIZE
<1>5. m.size \div 16 \in Nat /\ 16 * (m.size \div 16) = m.size
  BY <1>2, <1>4
<1>6. m' = next /\ frame'["isr"] = Idle /\ frame' \in [Frames -> FrameType]
  <2>1. next \in FrameType
    BY <1>2, <1>5 DEF FrameType
  <2>2. Goto(next)
    BY <1>1 DEF PublishHeader, GRANULE_SIZE
  <2> HIDE DEF next
  <2> QED BY <1>1, <2>1, <2>2, Acting DEF HeapInv
<1>7. /\ m'.at = "gen" /\ m'.left = m.size \div 16 /\ m'.addr = m.addr /\ m'.tag = m.tag
      /\ m'.loc = m.loc /\ m'.part = "block" /\ m'.size = m.size /\ m'.asked = m.asked
  BY <1>2, <1>6 DEF FrameType
<1> HIDE DEF next
<1>8. /\ tagGen' = tagGen /\ secTag' = secTag /\ tagMem' = tagMem /\ headers' = headers
      /\ tail' = m.loc /\ blocks' = blocks /\ mie' = mie /\ inIsr' = inIsr
  BY <1>1 DEF PublishHeader
<1>9. ~Placing' /\ Filling'
  BY <1>7 DEF Placing, Filling
<1>10. Frontier' = Frontier /\ Frontier = m.loc + 16
  <2>1. Frontier' = m.loc + 16 + m.size - 16 * (m.size \div 16)
    BY <1>7, <1>9 DEF Frontier, HeaderSize, GRANULE_SIZE
  <2>2. Frontier = m.loc + 16 - 16 * 0
    BY <1>3, <1>4 DEF Frontier, HeaderSize, GRANULE_SIZE
  <2> QED BY <1>2, <1>5, <2>1, <2>2
<1>11. TypeOK' /\ HandlerIdle'
  BY <1>4, <1>6, <1>8 DEF HeapInv, TypeOK, HandlerIdle
<1>12. tail < m.loc /\ tail \in DOMAIN headers /\ \A a \in DOMAIN headers : a \in Nat
  BY <1>2, <1>4 DEF HeapInv, TypeOK, Locations
<1>13. Chain'
  <2>1. \A a \in DOMAIN headers : a <= m.loc /\ (a < m.loc => a <= tail)
    BY <1>2, <1>12 DEF HeapInv, Chain
  <2>2. \A a \in DOMAIN headers : a < m.loc => headers[a].next_ptr = Behind(a)
    <3> SUFFICES ASSUME NEW a \in DOMAIN headers, a < m.loc PROVE headers[a].next_ptr = Behind(a)
      OBVIOUS
    <3>1. a = tail \/ a < tail
      BY <1>2, <1>12, <2>1
    <3> QED BY <1>4, <3>1 DEF HeapInv, Chain
  <2> QED BY <1>8, <2>1, <2>2 DEF HeapInv, Chain, Behind
<1>14. Serving'
  <2>1. m.at # "idle" /\ m'.at # "idle" /\ m'.at # "find"
    BY <1>1, <1>7
  <2> QED BY <1>4, <1>5, <1>7, <1>8, <1>9, <1>10, <2>1 DEF HeapInv, Serving, GRANULE_SIZE
<1>15. Returned'
  <2>1. \A b \in blocks : b.addr - 16 \in DOMAIN headers /\ b.addr - 16 <= tail
    BY DEF HeapInv, Returned, HeaderSize
  <2>2. \A b \in blocks : b.addr - 16 <= m.loc /\ b.addr - 16 # m.loc
    BY <1>2, <1>12, <2>1
  <2> QED BY <1>8, <2>2 DEF HeapInv, Returned, HeaderSize
<1>16. Fresh' /\ Coloured'
  BY <1>1, <1>7, <1>8, <1>9, <1>10 DEF HeapInv, Fresh, Coloured, Reserved
<1>17. TagsSeparate'
  BY <1>8 DEF HeapInv, TagsSeparate, Reserved, Extent
<1> QED BY <1>11, <1>13, <1>14, <1>15, <1>16, <1>17 DEF HeapInv

\* malloc returns the block.
LEMMA ReturnStep ==
  ASSUME HeapInv, Return
  PROVE  HeapInv'
<1> DEFINE addr == m.loc + 16
           new == [addr |-> addr, size |-> m.size, asked |-> m.asked, tag |-> m.tag]
<1>1. ~inIsr /\ me = m /\ m.at = "st" /\ m.left = 0 /\ m.part = "block"
  BY StepIsMain, Acting DEF HeapInv, Return
<1>2. /\ m \in FrameType /\ tail \in Nat /\ m.loc \in Nat /\ m.loc % 16 = 0 /\ m.size \in Nat
      /\ Behind(tail) <= ArenaEnd /\ m.asked \in Nat
  BY Here
<1>3. Filling /\ ~Placing
  BY <1>1 DEF Placing, Filling
<1>4. /\ m.loc = tail /\ headers[tail].alloc_size = m.size /\ 16 <= m.size /\ m.size % 16 = 0
      /\ m.asked <= m.size
  BY <1>1, <1>3 DEF HeapInv, Serving, GRANULE_SIZE
<1>5. Behind(tail) = addr + m.size /\ Frontier = addr + m.size
  <2>1. Behind(tail) = m.loc + 16 + m.size
    BY <1>4 DEF Behind, HeaderSize
  <2>2. Frontier = m.loc + 16 + m.size - 16 * 0
    BY <1>1, <1>3 DEF Frontier, HeaderSize, GRANULE_SIZE
  <2> QED BY <1>2, <2>1, <2>2
<1>6. addr \in Locations /\ addr % AddrSpace = addr /\ addr \in Nat
  <2>1. addr \in 0 .. AddrSpace - 1 /\ addr % 16 = 0
    BY <1>2, <1>4, <1>5, Sizing
  <2> HIDE DEF addr
  <2> QED BY <2>1, Sizing, Small DEF Locations, GRANULE_SIZE
<1>7. /\ tagGen' = tagGen /\ secTag' = secTag /\ tagMem' = tagMem /\ headers' = headers
      /\ tail' = tail /\ mie' = mie /\ inIsr' = inIsr /\ blocks' = blocks \cup {new}
  <2>1. (me.loc + HeaderSize) % AddrSpace = addr
    BY <1>1, <1>6 DEF HeaderSize
  <2> HIDE DEF addr
  <2> QED BY <1>1, <2>1 DEF Return
<1>8. m' = Idle /\ frame'["isr"] = Idle /\ frame' \in [Frames -> FrameType] /\ m'.at = "idle"
  <2>1. 0 \in Tags /\ 0 \in Locations /\ 0 \in 0 .. WordSize - 1 /\ 0 \in Nat
    BY HeapAssumption, Sizing DEF Tags, Locations, GRANULE_SIZE
  <2>2. Idle \in FrameType /\ Idle.at = "idle"
    BY <2>1 DEF Idle, FrameType
  <2> QED BY <1>1, <2>2, Acting DEF HeapInv, Return
<1>9. ~Placing' /\ ~Filling' /\ Frontier' = Frontier
  <2>1. ~Placing' /\ ~Filling'
    BY <1>8 DEF Placing, Filling
  <2>2. Frontier' = Behind(tail)
    BY <1>7, <2>1 DEF Frontier, Behind
  <2> QED BY <1>5, <2>1, <2>2
<1>10. new \in [addr : Locations, size : 0 .. WordSize - 1, asked : 0 .. WordSize - 1, tag : Tags]
  <2> HIDE DEF addr
  <2> QED BY <1>2, <1>6 DEF FrameType
<1>11. TypeOK' /\ HandlerIdle'
  <2> HIDE DEF new
  <2> QED BY <1>7, <1>8, <1>10 DEF HeapInv, TypeOK, HandlerIdle
<1>12. Chain'
  BY <1>3, <1>7 DEF HeapInv, Chain, Behind
<1>13. Serving'
  BY <1>8, <1>9 DEF Serving
<1>14. Returned'
  <2>1. addr - 16 = tail /\ tail \in DOMAIN headers
    BY <1>2, <1>4 DEF HeapInv, TypeOK
  <2>2. /\ new.addr - 16 \in DOMAIN headers /\ new.addr - 16 <= tail
        /\ new.size = headers[new.addr - 16].alloc_size /\ 16 <= new.size
        /\ new.asked <= new.size
    BY <1>2, <1>4, <2>1
  <2>3. \A b \in blocks : b.addr # new.addr
    <3> SUFFICES ASSUME NEW b \in blocks, b.addr = addr PROVE FALSE
      BY DEF new
    <3>1. b.addr - 16 # tail
      BY <1>3 DEF HeapInv, Returned, HeaderSize
    <3> QED BY <2>1, <3>1
  <2> HIDE DEF new
  <2>4. \A b \in blocks : /\ b.addr - 16 \in DOMAIN headers /\ b.addr - 16 <= tail
                          /\ b.size = headers[b.addr - 16].alloc_size
                          /\ 16 <= b.size /\ b.asked <= b.size
    BY DEF HeapInv, Returned, HeaderSize, GRANULE_SIZE
  <2>5. \A b, c \in blocks : b.addr = c.addr => b = c
    BY DEF HeapInv, Returned
  <2>6. \A b \in blocks' : b \in blocks \/ b = new
    BY <1>7
  <2>7. \A b, c \in blocks' : b.addr = c.addr => b = c
    BY <2>3, <2>5, <2>6
  <2> QED BY <1>7, <1>9, <2>2, <2>4, <2>6, <2>7 DEF Returned, HeaderSize, GRANULE_SIZE
<1>15. Fresh'
  BY <1>1, <1>7, <1>8 DEF HeapInv, Fresh, Reserved
<1>16. /\ tagMem[m.loc] # m.tag /\ ~Reserved(m.tag) /\ tagGen # m.tag
       /\ \A a \in Locations : addr <= a /\ a < Frontier => tagMem[a] = m.tag
       /\ \A a \in Locations : a >= Frontier => tagMem[a] = 0
  BY <1>1, <1>3 DEF HeapInv, Coloured, Fresh, HeaderSize
<1>17. Coloured'
  <2>1. Frontier - 16 \in Locations /\ addr <= Frontier - 16 /\ Frontier - 16 < Frontier
    BY <1>2, <1>4, <1>5, Here
  <2>2. tagMem[Frontier - 16] # tagGen
    <3> HIDE DEF addr
    <3> QED BY <1>16, <2>1
  <2> QED BY <1>7, <1>8, <1>9, <1>16, <2>2 DEF Coloured, GRANULE_SIZE
<1>18. TagsSeparate'
  <2>1. ASSUME NEW b \in blocks
        PROVE  /\ ~Reserved(b.tag)
               /\ \A a \in Extent(b) : tagMem[a] = b.tag
               /\ tagMem[b.addr - 16] # b.tag
               /\ b.addr + b.size < AddrSpace => tagMem[b.addr + b.size] # b.tag
    BY DEF HeapInv, TagsSeparate, GRANULE_SIZE
  <2>2. /\ ~Reserved(new.tag)
        /\ \A a \in Extent(new) : tagMem[a] = new.tag
        /\ tagMem[new.addr - 16] # new.tag
        /\ new.addr + new.size < AddrSpace => tagMem[new.addr + new.size] # new.tag
    <3>1. new.addr = addr /\ new.size = m.size /\ new.tag = m.tag
      OBVIOUS
    <3>2. \A a \in Extent(new) : tagMem[a] = new.tag
      <4> HIDE DEF new, addr
      <4> QED BY <1>5, <1>16, <3>1 DEF Extent
    <3>3. tagMem[new.addr - 16] # new.tag
      <4>1. addr - 16 = m.loc
        BY <1>2
      <4> QED BY <1>16, <3>1, <4>1
    <3>4. ASSUME new.addr + new.size < AddrSpace PROVE tagMem[new.addr + new.size] # new.tag
      <4>1. Frontier \in Locations
        <5>1. Frontier \in 0 .. AddrSpace - 1 /\ Frontier % 16 = 0
          BY <1>2, <1>4, <1>5, <3>1, <3>4, Here, Sizing
        <5> QED BY <5>1 DEF Locations, GRANULE_SIZE
      <4>2. tagMem[Frontier] = 0
        BY <1>16, <4>1, Here
      <4>3. m.tag # 0
        BY <1>16 DEF Reserved
      <4> QED BY <1>5, <3>1, <4>2, <4>3
    <3> QED BY <1>16, <3>1, <3>2, <3>3, <3>4
  <2> HIDE DEF new
  <2> QED BY <1>7, <2>1, <2>2 DEF TagsSeparate, Reserved, Extent, GRANULE_SIZE
<1> QED BY <1>11, <1>12, <1>13, <1>14, <1>15, <1>17, <1>18 DEF HeapInv

-----------------------------------------------------------------------------
(* The theorems. *)

\* The invariant is inductive as long as no size wraps.
LEMMA HeapHolds ==
  ASSUME SizesFit
  PROVE  Spec => []HeapInv
<1>1. HeapInv /\ [Next]_vars => HeapInv'
  <2> SUFFICES ASSUME HeapInv, [Next]_vars PROVE HeapInv'
    OBVIOUS
  <2>1. CASE \E size \in Sizes : Call(size)
    BY <2>1, CallStep
  <2>2. CASE Step
    BY <2>2, LocateStep, GenerateTagStep, BumpTagStep, StoreTagStep, FillHeaderStep,
       LinkHeaderStep, PublishHeaderStep, ReturnStep DEF Step
  <2>3. CASE Interrupt \/ Mret \/ UNCHANGED vars
    BY <2>3, Elsewhere
  <2> QED BY <2>1, <2>2, <2>3 DEF Next
<1> QED BY <1>1, Initially, PTL DEF Spec

\* Every register, header and local variable of the allocator keeps its type:
\* in particular the alignment assertion of _ossec_protect_ptr never fires.
THEOREM HeapTypes ==
  ASSUME SizesFit
  PROVE  Spec => []TypeOK
BY HeapHolds, PTL DEF HeapInv

\* A block holds what was asked for and lies inside the arena, however large
\* the arena is and however full.
THEOREM BlocksFit ==
  ASSUME SizesFit
  PROVE  Spec => []BlockHoldsRequest
<1>1. HeapInv => BlockHoldsRequest
  BY BlockPlace DEF HeapInv, Returned, BlockHoldsRequest
<1> QED BY <1>1, HeapHolds, PTL

\* Blocks overlap neither each other nor a header, although handlers call
\* malloc in the middle of a malloc.
THEOREM NoOverlap ==
  ASSUME SizesFit
  PROVE  Spec => []BlocksDisjoint
<1>1. HeapInv => BlocksDisjoint
  <2> SUFFICES ASSUME HeapInv, NEW b \in blocks
               PROVE  /\ Extent(b) \cap DOMAIN headers = {}
                      /\ \A c \in blocks \ {b} : Extent(b) \cap Extent(c) = {}
    BY DEF BlocksDisjoint
  <2>1. \A h \in DOMAIN headers : h \in Nat
    BY DEF HeapInv, TypeOK, Locations
  <2>2. \A g, h \in DOMAIN headers : g < h => Behind(g) <= h
    BY DEF HeapInv, Chain
  <2>3. ASSUME NEW c \in blocks
        PROVE  /\ c.addr \in Nat /\ c.size \in Nat /\ c.addr - 16 \in DOMAIN headers
               /\ Behind(c.addr - 16) = c.addr + c.size /\ 16 <= c.size
    BY BlockPlace
  <2>4. ASSUME NEW a \in Extent(b), a \in DOMAIN headers PROVE FALSE
    <3>1. b.addr <= a /\ a < b.addr + b.size
      BY DEF Extent
    <3>2. b.addr - 16 < a
      BY <2>1, <2>3, <2>4, <3>1
    <3>3. b.addr + b.size <= a
      BY <2>2, <2>3, <2>4, <3>2
    <3> QED BY <2>1, <2>3, <2>4, <3>1, <3>3
  <2>5. ASSUME NEW c \in blocks \ {b}, NEW a \in Extent(b), a \in Extent(c) PROVE FALSE
    <3>1. /\ b.addr <= a /\ a < b.addr + b.size /\ c.addr <= a /\ a < c.addr + c.size
          /\ a \in Nat
      BY <2>5 DEF Extent, Locations
    <3>2. b.addr # c.addr
      BY <2>5 DEF HeapInv, Returned
    <3>3. CASE b.addr < c.addr
      <4>1. b.addr + b.size <= c.addr - 16
        BY <2>2, <2>3, <3>3
      <4> QED BY <2>3, <3>1, <4>1
    <3>4. CASE c.addr < b.addr
      <4>1. c.addr + c.size <= b.addr - 16
        BY <2>2, <2>3, <3>4
      <4> QED BY <2>3, <3>1, <4>1
    <3> QED BY <2>3, <3>2, <3>3, <3>4
  <2> QED BY <2>4, <2>5
<1> QED BY <1>1, HeapHolds, PTL

\* A block has its own tag from end to end, neither neighbour has it, and it
\* is not one of the reserved tags: running over either end of a block is a
\* tag mismatch, with any number of tags from four.
THEOREM TagsAlwaysSeparate ==
  ASSUME SizesFit
  PROVE  Spec => []TagsSeparate
BY HeapHolds, PTL DEF HeapInv

\* The headers form one list in address order, at every step of malloc.
THEOREM ListAlwaysIntact ==
  ASSUME SizesFit
  PROVE  Spec => []ListIntact
<1>1. HeapInv => ListIntact
  BY DEF HeapInv, Chain, ListIntact, Behind
<1> QED BY <1>1, HeapHolds, PTL

=============================================================================
