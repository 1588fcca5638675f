----------------------------- MODULE MCAluPath -----------------------------
(* Words of four bits: every pair of operands, every operation. *)
EXTENDS AluPath

MCPcs == {0}
MCLeftovers == {0, Ones}

=============================================================================
