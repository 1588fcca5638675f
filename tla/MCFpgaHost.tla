----------------------------- MODULE MCFpgaHost -----------------------------
(* Instances of FpgaHost: two words of RAM, one data bit per UART frame. *)
EXTENDS FpgaHost

MCAddresses == <<{}, {2}>>
\* Both halves of both words are distinguishable, from each other, from the
\* memory at power-up, from the other image and from what the program stores.
MCImages == {[w \in WordIndex |-> IF w = {} THEN {0, 16} ELSE {1, 17}],
             [w \in WordIndex |-> IF w = {} THEN {2, 18} ELSE {3, 19}]}
MCText == <<{0}>>
MCGreeting == <<{0}, {}>>

\* Divider 14: a frame takes 48 ticks, more than the polls of its own call and
\* the whole of the next one, so that calls are abandoned as in the code.
MCBaud == {1, 2, 3}
MCReset == {}
MCPowerUp == {31}

\* A store to the image and a byte to the UART.
MCInsns == {StoreInsn("WRITEW", {2}, FALSE, {5}),
            StoreInsn("WRITEB", {2, 27}, FALSE, {0})}

=============================================================================
