-------------------------------- MODULE Heap --------------------------------
(***************************************************************************)
(* The tagging allocator of the bench libc: malloc.c on top of the tag     *)
(* generator and _ossec_protect_ptr of security.c.  The library has no     *)
(* locks; malloc refuses to run in an interrupt handler instead, which it  *)
(* recognises by mstatus.MIE.  The main program and the handler each have  *)
(* a frame that executes malloc step by step; an interrupt may come between*)
(* any two steps.  Addresses and sizes are bytes.                          *)
(***************************************************************************)
EXTENDS Integers

CONSTANTS
  TagCount,    \* number of tags; 16 in the code (mask 0xf)
  AddrSpace,   \* untagged addresses; 2^28 in the code
  SecCntx, MemInfo, ArenaStart, ArenaEnd,  \* where the linker put things
  Sizes        \* sizes the program asks for

GRANULE_SIZE == 16
HeaderSize == 16      \* sizeof(alloc_header_t)

\* unsigned is the untagged address with the tag on top of it.
WordSize == TagCount * AddrSpace
Add(a, b) == (a + b) % WordSize

Tags == 0 .. TagCount - 1
Locations == {a \in 0 .. AddrSpace - 1 : a % GRANULE_SIZE = 0}
Frames == {"main", "isr"}

ASSUME HeapAssumption ==
  /\ TagCount \in Nat /\ TagCount >= 4
  /\ AddrSpace \in Nat /\ AddrSpace % GRANULE_SIZE = 0
  /\ {SecCntx, MemInfo, ArenaStart} \subseteq Locations
  /\ SecCntx < MemInfo /\ MemInfo < ArenaStart
  /\ ArenaEnd \in ArenaStart + HeaderSize .. AddrSpace
  /\ Sizes \subseteq 0 .. WordSize - 1

VARIABLES
  tagGen, secTag,  \* sec_cntx
  tagMem,          \* the RAM's tag of every granule
  headers,         \* alloc_header_t by location: alloc_size, next_ptr, is_free
  tail,            \* mem_info.tail, without its tag
  blocks,          \* what malloc has returned: address, tag, size asked for
  mie, inIsr,      \* mstatus.MIE; an interrupt handler is running
  frame            \* the malloc call of each frame

vars == <<tagGen, secTag, tagMem, headers, tail, blocks, mie, inIsr, frame>>

Reserved(t) == t = 0 \/ t = secTag

\* One frame's progress through malloc and its local variables: size as
\* asked for (asked) and aligned (size); next_location without tag bits
\* (loc); what _ossec_protect_ptr is called for (part), the granules it has
\* still to tag (addr, left), and new_tag (tag).
Idle == [at |-> "idle", asked |-> 0, size |-> 0, loc |-> 0, part |-> "header",
         addr |-> 0, left |-> 0, tag |-> 0]
Active == IF inIsr THEN "isr" ELSE "main"
me == frame[Active]
Goto(f) == frame' = [frame EXCEPT ![Active] = f]

-----------------------------------------------------------------------------
(* Boot: _ossec_init, then malloc_init, with interrupts off. *)

\* The value _ossec_generate_tag leaves in tag_gen; at most two tags are
\* reserved.
NextTag(g, sec) ==
  LET inc(t) == (t + 1) % TagCount
      bad(t) == t = 0 \/ t = sec
  IN  IF ~bad(inc(g)) THEN inc(g)
      ELSE IF ~bad(inc(inc(g))) THEN inc(inc(g)) ELSE inc(inc(inc(g)))

Init ==
  /\ secTag \in Tags \ {0}
  /\ \E first \in Tags \ {0, secTag} :
       LET second == NextTag(first, secTag)
       IN  /\ tagGen = NextTag(second, secTag)
           /\ tagMem = [a \in Locations |-> IF a = SecCntx THEN secTag
                                            ELSE IF a = MemInfo THEN first
                                            ELSE IF a = ArenaStart THEN second
                                            ELSE 0]
  /\ headers = [a \in {ArenaStart} |-> [alloc_size |-> 0, next_ptr |-> 0,
                                        is_free |-> FALSE]]
  /\ tail = ArenaStart
  /\ blocks = {}
  /\ mie = TRUE /\ inIsr = FALSE
  /\ frame = [f \in Frames |-> Idle]

-----------------------------------------------------------------------------
(* malloc *)

\* Mutation: handlers may allocate.
Call_InIsr(size) ==
  /\ me.at = "idle"
  /\ size # 0
  /\ Goto([Idle EXCEPT
       !.at = "find", !.asked = size,
       !.size = (Add(size, GRANULE_SIZE - 1) \div GRANULE_SIZE) * GRANULE_SIZE])
  /\ UNCHANGED <<tagGen, secTag, tagMem, headers, tail, blocks, mie, inIsr>>

\* malloc(size): zero and calls from a handler are refused; the size is
\* rounded up to a granule, in 32 bits.
Call(size) ==
  /\ me.at = "idle"
  /\ size # 0
  /\ mie                                            \* ~_os_is_serving_isr()
  /\ Goto([Idle EXCEPT
       !.at = "find", !.asked = size,
       !.size = (Add(size, GRANULE_SIZE - 1) \div GRANULE_SIZE) * GRANULE_SIZE])
  /\ UNCHANGED <<tagGen, secTag, tagMem, headers, tail, blocks, mie, inIsr>>

\* find_free_block: only the last block is looked at (and free() never sets
\* is_free).
FindFreeBlock(size) == headers[tail].is_free /\ headers[tail].alloc_size >= size
\* Mutation: the OOM test forgets the header.
Locate_NoHeader ==
  LET next_location == Add(Add(tail, headers[tail].alloc_size), HeaderSize)
      loc == next_location % AddrSpace
  IN  /\ me.at = "find"
      /\ ~FindFreeBlock(me.size)
      /\ Goto(IF Add(next_location, me.size) > ArenaEnd THEN Idle
              ELSE [me EXCEPT !.at = "gen", !.loc = loc, !.addr = loc,
                              !.left = HeaderSize \div GRANULE_SIZE])
      /\ UNCHANGED <<tagGen, secTag, tagMem, headers, tail, blocks, mie, inIsr>>

\* Place the new block behind the last one, or give up (OOM).
Locate ==
  LET next_location == Add(Add(tail, headers[tail].alloc_size), HeaderSize)
      sz_allocation == Add(Add(next_location, me.size), HeaderSize)
      loc == next_location % AddrSpace
  IN  /\ me.at = "find"
      /\ ~FindFreeBlock(me.size)
      /\ Goto(IF sz_allocation > ArenaEnd THEN Idle
              ELSE [me EXCEPT !.at = "gen", !.loc = loc, !.addr = loc,
                              !.left = HeaderSize \div GRANULE_SIZE])
      /\ UNCHANGED <<tagGen, secTag, tagMem, headers, tail, blocks, mie, inIsr>>

\* _ossec_generate_tag: read tag_gen ...
GenerateTag ==
  /\ me.at = "gen"
  /\ Goto([me EXCEPT !.at = "bump", !.tag = tagGen])
  /\ UNCHANGED <<tagGen, secTag, tagMem, headers, tail, blocks, mie, inIsr>>
\* Mutation: the reserved tags are not skipped.
BumpTag_Once ==
  /\ me.at = "bump"
  /\ tagGen' = (tagGen + 1) % TagCount
  /\ Goto([me EXCEPT !.at = "st"])
  /\ UNCHANGED <<secTag, tagMem, headers, tail, blocks, mie, inIsr>>

\* ... and advance it in memory until it is a usable tag.
BumpTag ==
  /\ me.at = "bump"
  /\ tagGen' = (tagGen + 1) % TagCount
  /\ Goto([me EXCEPT !.at = IF Reserved(tagGen') THEN "bump" ELSE "st"])
  /\ UNCHANGED <<secTag, tagMem, headers, tail, blocks, mie, inIsr>>
\* Mutation: the loop counts bytes down, not granules.
StoreTag_Bytes ==
  /\ me.at = "st" /\ me.left > 0
  /\ tagMem' = [tagMem EXCEPT ![me.addr] = me.tag]
  /\ Goto([me EXCEPT !.addr = (@ + GRANULE_SIZE) % AddrSpace,
                     !.left = @ - GRANULE_SIZE])
  /\ UNCHANGED <<tagGen, secTag, headers, tail, blocks, mie, inIsr>>

\* The st loop of _ossec_protect_ptr.
StoreTag ==
  /\ me.at = "st" /\ me.left > 0
  /\ tagMem' = [tagMem EXCEPT ![me.addr] = me.tag]
  /\ Goto([me EXCEPT !.addr = (@ + GRANULE_SIZE) % AddrSpace, !.left = @ - 1])
  /\ UNCHANGED <<tagGen, secTag, headers, tail, blocks, mie, inIsr>>

\* The new header is filled in,
FillHeader ==
  /\ me.at = "st" /\ me.left = 0 /\ me.part = "header"
  /\ headers' = [a \in DOMAIN headers \cup {me.loc} |->
                   IF a = me.loc THEN [alloc_size |-> me.size, next_ptr |-> 0,
                                       is_free |-> FALSE]
                   ELSE headers[a]]
  /\ Goto([me EXCEPT !.at = "link"])
  /\ UNCHANGED <<tagGen, secTag, tagMem, tail, blocks, mie, inIsr>>
\* Mutation: the new header links to the old tail instead.
LinkHeader_Backwards ==
  /\ me.at = "link"
  /\ headers' = [headers EXCEPT ![me.loc].next_ptr = tail]
  /\ Goto([me EXCEPT !.at = "publish"])
  /\ UNCHANGED <<tagGen, secTag, tagMem, tail, blocks, mie, inIsr>>

\* linked behind the old tail,
LinkHeader ==
  /\ me.at = "link"
  /\ headers' = [headers EXCEPT ![tail].next_ptr = me.loc]
  /\ Goto([me EXCEPT !.at = "publish"])
  /\ UNCHANGED <<tagGen, secTag, tagMem, tail, blocks, mie, inIsr>>

\* and becomes the tail; next, the block itself is protected.
PublishHeader ==
  /\ me.at = "publish"
  /\ tail' = me.loc
  /\ Goto([me EXCEPT !.at = "gen", !.part = "block",
                     !.left = me.size \div GRANULE_SIZE])
  /\ UNCHANGED <<tagGen, secTag, tagMem, headers, blocks, mie, inIsr>>

Return ==
  /\ me.at = "st" /\ me.left = 0 /\ me.part = "block"
  /\ blocks' = blocks \cup {[addr |-> (me.loc + HeaderSize) % AddrSpace,
                             size |-> me.size, asked |-> me.asked,
                             tag |-> me.tag]}
  /\ Goto(Idle)
  /\ UNCHANGED <<tagGen, secTag, tagMem, headers, tail, mie, inIsr>>

-----------------------------------------------------------------------------
\* The CPU enters the handler with MIE cleared and mret restores it.
Interrupt ==
  /\ mie
  /\ mie' = FALSE /\ inIsr' = TRUE
  /\ UNCHANGED <<tagGen, secTag, tagMem, headers, tail, blocks, frame>>

Mret ==
  /\ inIsr /\ me.at = "idle"
  /\ mie' = TRUE /\ inIsr' = FALSE
  /\ UNCHANGED <<tagGen, secTag, tagMem, headers, tail, blocks, frame>>

Step == \/ Locate \/ GenerateTag \/ BumpTag \/ StoreTag \/ FillHeader
        \/ LinkHeader \/ PublishHeader \/ Return

Next == (\E size \in Sizes : Call(size)) \/ Step \/ Interrupt \/ Mret

Spec == Init /\ [][Next]_vars

\* Code runs, and interrupts do not come after every single instruction.
FairSpec == Spec /\ SF_vars(Step /\ ~inIsr) /\ WF_vars(Mret)

-----------------------------------------------------------------------------
FrameType ==
  [at : {"idle", "find", "gen", "bump", "st", "link", "publish"},
   asked : 0 .. WordSize - 1, size : 0 .. WordSize - 1, loc : Locations,
   part : {"header", "block"}, addr : Locations, left : Nat, tag : Tags]

\* Locations are granule-aligned (the alignment assertion of
\* _ossec_protect_ptr never fires), tags are 4-bit values.
TypeOK ==
  /\ tagGen \in Tags /\ secTag \in Tags
  /\ tagMem \in [Locations -> Tags]
  /\ tail \in DOMAIN headers /\ DOMAIN headers \subseteq Locations
  /\ \A a \in DOMAIN headers :
       headers[a] \in [alloc_size : 0 .. WordSize - 1, next_ptr : Locations,
                       is_free : BOOLEAN]
  /\ blocks \subseteq [addr : Locations, size : 0 .. WordSize - 1,
                       asked : 0 .. WordSize - 1, tag : Tags]
  /\ mie \in BOOLEAN /\ inIsr \in BOOLEAN
  /\ frame \in [Frames -> FrameType]

Extent(b) == {a \in Locations : b.addr <= a /\ a < b.addr + b.size}

\* A pointer malloc returned addresses at least the bytes asked for, inside
\* the arena; otherwise malloc reports OOM.
BlockHoldsRequest ==
  \A b \in blocks : b.asked <= b.size /\ b.addr + b.size <= ArenaEnd

\* No granule of a block belongs to another block or to an allocator header,
\* although an interrupt handler may call malloc in the middle of a malloc.
BlocksDisjoint ==
  \A b \in blocks :
    /\ Extent(b) \cap DOMAIN headers = {}
    /\ \A c \in blocks \ {b} : Extent(b) \cap Extent(c) = {}

\* The pointer's tag is the tag of every granule of its block and of neither
\* neighbour, so that an access that runs over either end of a block is a
\* tag mismatch; and it is neither 0 nor the tag of security.c's own context.
\* (The allocator's mem_info has a tag of the generator, like any block.)
TagsSeparate ==
  \A b \in blocks :
    /\ ~Reserved(b.tag)
    /\ \A a \in Extent(b) : tagMem[a] = b.tag
    /\ tagMem[b.addr - GRANULE_SIZE] # b.tag
    /\ b.addr + b.size < AddrSpace => tagMem[b.addr + b.size] # b.tag

\* The headers form one list from the head to the tail in address order,
\* each linked to the header right behind its block.
ListIntact ==
  \A a \in DOMAIN headers :
    a < tail => headers[a].next_ptr = a + HeaderSize + headers[a].alloc_size

\* The main program's malloc returns: the search for an unreserved tag and
\* the st loop end.
MallocReturns == frame["main"].at # "idle" ~> frame["main"].at = "idle"

=============================================================================
