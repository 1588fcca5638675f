------------------------------- MODULE WbExt -------------------------------
(***************************************************************************)
(* The host's bus master (rtl/bus/wb_ext.v).  A transaction latches size   *)
(* and direction when it starts; its address and data are the host's       *)
(* inputs for as long as it lasts.  x holds those inputs: addr, data,      *)
(* size, write, start, clear.                                              *)
(***************************************************************************)
EXTENDS Words

VARIABLES
  tranStarted,   \* tran_started, driven out as cyc and stb
  tranFinished,  \* tran_finished, driven out as transaction_ready_o
  extData,       \* data
  extSel,        \* data_sel
  extWe          \* wb_we

extVars == <<tranStarted, tranFinished, extData, extSel, extWe>>

ExtWires(x) == [cyc |-> tranStarted, we |-> extWe, sel |-> extSel,
                addr |-> x.addr, data |-> x.data]

\* transaction_size_i is the set of its 1 bits.
TranSel(size) == IF size = {} THEN "BYTE" ELSE IF size = {0} THEN "HALF" ELSE "WORD"

\* Mutation: the data register is loaded by writes instead of reads.
ReadLatch_Swapped(datI) == IF extWe THEN datI ELSE extData

\* data <= (wb_we) ? data : wb_data_i
ReadLatch(datI) == IF extWe THEN extData ELSE datI

ExtTick(x, ackI, datI) ==
  LET begin == x.start /\ ~tranStarted
      end == tranStarted /\ ackI
  IN  /\ tranStarted' = (~end /\ (begin \/ tranStarted))
      /\ tranFinished' = (~x.clear /\ (end \/ tranFinished))
      /\ extSel' = IF begin THEN TranSel(x.size) ELSE extSel
      /\ extWe' = (~end /\ IF begin THEN x.write ELSE extWe)
      /\ extData' = IF end THEN ReadLatch(datI) ELSE extData

\* 32'hC0017A1E
ExtResetData == {1, 2, 3, 4, 9, 11, 12, 13, 14, 16, 30, 31}

ExtReset ==
  /\ tranStarted' = FALSE /\ tranFinished' = FALSE
  /\ extData' = ExtResetData /\ extSel' = "NONE" /\ extWe' = FALSE

ExtInit ==
  /\ tranStarted = FALSE /\ tranFinished = FALSE
  /\ extData = ExtResetData /\ extSel = "NONE" /\ extWe = FALSE

ExtTypeOK ==
  /\ tranStarted \in BOOLEAN /\ tranFinished \in BOOLEAN
  /\ extData \in Word /\ extWe \in BOOLEAN
  /\ extSel \in {"BYTE", "HALF", "WORD", "NONE"}

=============================================================================
