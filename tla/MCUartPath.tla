----------------------------- MODULE MCUartPath -----------------------------
(* Instances of UartPath. *)
EXTENDS UartPath

\* Divider 2, the smallest one with which no frame is repeated.
MCDivider == {1}

\* With two data bits: every byte value.
MCBytes == SUBSET {0, 1}

=============================================================================
