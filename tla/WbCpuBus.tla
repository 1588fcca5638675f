------------------------------ MODULE WbCpuBus ------------------------------
(***************************************************************************)
(* The CPU's Wishbone master (rtl/cpu/wb_cpu_bus.v).  It has no reset: the *)
(* RST_I input is not used.  BusTick is one positive clock edge.           *)
(***************************************************************************)
EXTENDS Words

VARIABLES
  busOp,   \* op: the operation of the last I_en, selects sign extension
  buffer,  \* buffer: data of the last acknowledged transaction
  busy,    \* busy
  cyc,     \* CYC_O and STB_O, which are always assigned together
  we,      \* WE_O
  sel,     \* SEL_O
  adr,     \* ADR_O
  dat      \* DAT_O

busVars == <<busOp, buffer, busy, cyc, we, sel, adr, dat>>

ReadOp == {"READB", "READBU", "READH", "READHU", "READW", "READT"}
WriteOp == {"WRITEB", "WRITEH", "WRITEW", "WRITET"}
BusOp == ReadOp \cup WriteOp

\* mem_sel
MemSel(op) ==
  CASE op \in {"READW", "WRITEW"} -> "WORD"
    [] op \in {"READH", "READHU", "WRITEH"} -> "HALF"
    [] op \in {"READT", "WRITET"} -> "TAG"
    [] op \in {"READB", "READBU", "WRITEB"} -> "BYTE"

\* 32'hDEADF001, what a read without a byte select returns.
NoSelectData == {0, 12, 13, 14, 15, 16, 18, 19, 21, 23, 25, 26, 27, 28, 30, 31}

\* data_from_bus
DataFromBus(datI) ==
  LET Extend(w, top) == IF busOp \in {"READBU", "READHU"} THEN w
                        ELSE SignExt(w, top)
  IN  CASE sel = "WORD" -> datI
        [] sel = "HALF" -> Extend(datI \cap (0..15), 15)
        [] sel = "BYTE" -> Extend(datI \cap (0..7), 7)
        [] sel = "TAG"  -> datI \cap (0..3)
        [] sel = "NONE" -> NoSelectData

\* en, op, addr, data: I_en and the request; ackI, datI: the slave's answer.
\* An acknowledgement overrides a simultaneous request.
BusTick(en, op, addr, data, ackI, datI) ==
  /\ busOp' = IF en THEN op ELSE busOp
  /\ buffer' = IF ackI THEN DataFromBus(datI) ELSE buffer
  /\ busy' = (~ackI /\ (en \/ busy))
  /\ cyc' = (~ackI /\ (en \/ cyc))
  /\ we' = (~ackI /\ IF en THEN op \in WriteOp ELSE we)
  /\ sel' = IF ackI THEN "NONE" ELSE IF en THEN MemSel(op) ELSE sel
  /\ adr' = IF en THEN addr ELSE adr
  /\ dat' = IF en THEN data ELSE dat

BusTypeOK ==
  /\ busOp \in BusOp
  /\ buffer \in Word /\ adr \in Word /\ dat \in Word
  /\ busy \in BOOLEAN /\ cyc \in BOOLEAN /\ we \in BOOLEAN
  /\ sel \in {"BYTE", "HALF", "WORD", "TAG", "NONE"}

=============================================================================
