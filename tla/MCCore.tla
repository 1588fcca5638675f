------------------------------- MODULE MCCore -------------------------------
(***************************************************************************)
(* Small instances of Core for TLC: programs made of a few instructions in *)
(* any order, on a RAM of two words.                                       *)
(***************************************************************************)
EXTENDS Core

Running == [halt |-> FALSE, single |-> FALSE, step |-> FALSE, rst |-> FALSE]

\* The host leaves the CPU alone; single-steps it, with the step bit held, and
\* resets it; halts it.
MCFree == {Running}
MCStepping == {[Running EXCEPT !.single = TRUE, !.step = TRUE],
               [Running EXCEPT !.rst = TRUE]}
MCHalting == {Running, [Running EXCEPT !.halt = TRUE]}

\* Tags: two granules; code reached under a second tag; retagging (st),
\* mistagged stores, enabling, acknowledging and leaving the handler.
\* Fetches are checked only together with loads and stores.
MCTagInsns ==
  {AluInsn(FALSE, FALSE), AluInsn(TRUE, TRUE), JumpInsn(FALSE, {1, 28}),
   StoreInsn("WRITET", {}, FALSE, {0}), StoreInsn("WRITEB", {28}, FALSE, {}),
   CsrInsn("CSRRS", "MSTATUS", {MIE}), CsrInsn("CSRRW", "MTAGS", {LSEN, ICEN}),
   CsrInsn("CSRRS", "MTAGS", {IACK}), SystemInsn("MRET")}

\* Traps: ecall, ebreak and the timer interrupt, branches, a store that clears
\* mip, the enable bits of interrupts and one that a reset does not clear.
MCTrapInsns ==
  {BranchInsn(TRUE, {2}, TRUE), BranchInsn(TRUE, {}, FALSE),
   StoreInsn("WRITEW", {2, 3}, FALSE, {}),
   SystemInsn("ECALL"), SystemInsn("EBREAK"), SystemInsn("MRET"),
   CsrInsn("CSRRS", "MSTATUS", {MIE}), CsrInsn("CSRRW", "MIE", {MTI}),
   CsrInsn("CSRRW", "MTAGS", {SKIP_SP})}

\* Branches among instructions of other kinds.
MCHostInsns ==
  {Nop, IllegalInsn(TRUE), BranchInsn(FALSE, {2}, TRUE), LoadInsn("READB", {28}, TRUE),
   StoreInsn("WRITEW", {}, FALSE, {}), [SystemInsn("ECALL") EXCEPT !.last = TRUE],
   CsrInsn("CSRRS", "MSTATUS", {MIE}), SystemInsn("MRET")}

\* Fetches are checked, loads and stores are not.
MCFetchInsns ==
  {Nop, JumpInsn(FALSE, {1, 28}), CsrInsn("CSRRS", "MSTATUS", {MIE}),
   CsrInsn("CSRRW", "MTAGS", {ICEN})}

\* The handler acknowledges; later code reads tags (csrr is csrrs with x0).
MCReadInsns == MCTagInsns \cup {CsrInsn("CSRRS", "MTAGS", {})}

=============================================================================
