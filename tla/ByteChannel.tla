----------------------------- MODULE ByteChannel -----------------------------
(***************************************************************************)
(* What software expects of the UART: the bytes it writes come out once    *)
(* each, in order, and all of them come out.                               *)
(***************************************************************************)
EXTENDS Sequences, Naturals

CONSTANT Byte

VARIABLES issued, delivered

Init == issued = <<>> /\ delivered = <<>>

Put(b) == issued' = Append(issued, b)
Deliver == /\ Len(delivered) < Len(issued)
           /\ delivered' = Append(delivered, issued[Len(delivered) + 1])

\* Both may happen in the same clock tick.
Next == /\ (\E b \in Byte : Put(b)) \/ UNCHANGED issued
        /\ Deliver \/ UNCHANGED delivered

Spec == Init /\ [][Next]_<<issued, delivered>>
             /\ WF_<<issued, delivered>>(Next /\ Deliver)

=============================================================================
