---------------------------- MODULE TaggedMemory ----------------------------
(***************************************************************************)
(* What the CPU may rely on when it uses memory (doc/arch/memtag.md): a    *)
(* byte-addressed memory with one tag per granule, in which every access   *)
(* happens atomically, and an alarm for accesses whose address carries the *)
(* wrong tag.  The alarm may be late, but never by a whole access: it is   *)
(* up before the next access takes effect.                                 *)
(***************************************************************************)
EXTENDS Words

CONSTANTS RamTop, GranuleLow, Addresses, DataValues, NoRequest

VARIABLES
  bytes,    \* bytes[w][k]: byte k of word w
  tags,     \* tags[g]: tag of granule g
  request,  \* the access the CPU waits for, or NoRequest
  reply,    \* what the last access returned
  due,      \* the last checked access carried a wrong tag, not yet reported
  alarm     \* the mismatch interrupt

amVars == <<bytes, tags, request, reply, due, alarm>>

WordOf(addr) == addr \cap (2..RamTop)
GranuleIn(addr) == addr \cap (GranuleLow..RamTop)

\* The byte lanes of its word that an access covers.
Lane(addr) == (IF 0 \in addr THEN 1 ELSE 0) + (IF 1 \in addr THEN 2 ELSE 0)
Lanes(op, addr) ==
  CASE op \in {"READB", "READBU", "WRITEB"} -> {Lane(addr)}
    [] op \in {"READH", "READHU", "WRITEH"} -> {Lane(addr), Lane(addr) + 1}
    [] op \in {"READW", "WRITEW"} -> 0..3
    [] op \in {"READT", "WRITET"} -> {}

First(lanes) == CHOOSE k \in lanes : \A j \in lanes : k <= j

\* The value of some lanes of a word, the lowest one in bits 7:0.
Gather(word, lanes) ==
  UNION {Shl(word[k], 8 * (k - First(lanes))) : k \in lanes}

\* Little-endian write of data into some lanes of a word.
Scatter(word, lanes, data) ==
  [k \in 0..3 |-> IF k \in lanes
                  THEN Bits(data, 8 * (k - First(lanes)) + 7,
                                  8 * (k - First(lanes)))
                  ELSE word[k]]

\* What a load returns.
Value(r) ==
  LET word == bytes[WordOf(r.addr)]
      raw  == Gather(word, Lanes(r.op, r.addr))
  IN  CASE r.op = "READB" -> SignExt(raw, 7)
        [] r.op = "READH" -> SignExt(raw, 15)
        [] r.op \in {"READBU", "READHU", "READW"} -> raw
        [] r.op = "READT" -> tags[GranuleIn(r.addr)]

Violation(r) == r.check /\ Bits(r.addr, 31, 28) # tags[GranuleIn(r.addr)]

\* A step may deliver the outstanding alarm along with what it does.
Settle == \/ UNCHANGED <<due, alarm>>
          \/ due /\ due' = FALSE /\ alarm' = TRUE

Start(op, addr, data, check) ==
  /\ request = NoRequest
  /\ request' = [op |-> op, addr |-> addr, data |-> data, check |-> check]
  /\ Settle
  /\ UNCHANGED <<bytes, tags, reply>>

\* The access takes effect: only after every earlier violation is reported.
Complete ==
  /\ request # NoRequest
  /\ ~due
  /\ request' = NoRequest
  /\ bytes' = IF request.op \in {"WRITEB", "WRITEH", "WRITEW"}
              THEN [bytes EXCEPT ![WordOf(request.addr)] =
                      Scatter(@, Lanes(request.op, request.addr), request.data)]
              ELSE bytes
  /\ tags' = IF request.op = "WRITET"
             THEN [tags EXCEPT ![GranuleIn(request.addr)] = request.data \cap (0..3)]
             ELSE tags
  /\ IF request.op \in {"WRITEB", "WRITEH", "WRITEW", "WRITET"}
     THEN reply' \in Word
     ELSE reply' = Value(request)
  /\ \/ due' = Violation(request) /\ alarm' = alarm
     \/ due' = FALSE /\ alarm' = FALSE      \* the RAM is being reset

Report ==
  /\ due /\ due' = FALSE /\ alarm' = TRUE
  /\ UNCHANGED <<bytes, tags, request, reply>>

\* The CPU acknowledges the alarm, when it likes; nothing outstanding may be
\* lost.
Acknowledge ==
  /\ ~due
  /\ alarm' = FALSE
  /\ UNCHANGED <<bytes, tags, request, reply, due>>

\* A reset forgets alarms; an access in flight is carried out unchecked.
AmReset ==
  /\ due' = FALSE /\ alarm' = FALSE
  /\ request' = IF request = NoRequest THEN NoRequest
                ELSE [request EXCEPT !.check = FALSE]
  /\ UNCHANGED <<bytes, tags, reply>>

AmInit ==
  /\ request = NoRequest
  /\ ~due
  /\ ~alarm

AmNext ==
  \/ \E op \in {"READB", "READBU", "READH", "READHU", "READW", "READT",
                "WRITEB", "WRITEH", "WRITEW", "WRITET"},
        addr \in Addresses, data \in DataValues, check \in BOOLEAN :
       Start(op, addr, data, check)
  \/ Complete
  \/ Report
  \/ Acknowledge
  \/ AmReset

AmSpec == AmInit /\ [][AmNext]_amVars

=============================================================================
