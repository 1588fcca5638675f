----------------------------- MODULE MCSimBench -----------------------------
(* Programs for the simulation bench, with the thresholds of soc.py. *)
EXTENDS SimBench

MCFree == {[halt |-> FALSE, single |-> FALSE, step |-> FALSE, rst |-> FALSE]}

\* The longest paths between two instructions: interrupts, unaligned fetches,
\* multi-cycle operations, bytes for the UART and its silent registers; a
\* jump to itself and the ecall that ends a test.
MCInsns ==
  {AluInsn(TRUE, TRUE), JumpInsn(FALSE, {1}), LoadInsn("READHU", {}, TRUE),
   [SystemInsn("ECALL") EXCEPT !.last = TRUE],
   SystemInsn("MRET"), StoreInsn("WRITEB", {2, 27}, FALSE, {0}),
   LoadInsn("READW", {2, 27}, TRUE), LoadInsn("READW", {3, 27}, TRUE),
   CsrInsn("CSRRS", "MSTATUS", {MIE}), CsrInsn("CSRRW", "MIE", {MTI})}

=============================================================================
