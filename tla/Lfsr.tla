-------------------------------- MODULE Lfsr --------------------------------
(***************************************************************************)
(* The random-number generator (rtl/cpu/lfsr_rnd.v), a shift register with *)
(* feedback from which csr.v answers reads of rnd and software draws its   *)
(* tags.  Words are sets of bits, bit Top (31 in the code) the highest.    *)
(* The register has no value before the first reset.                       *)
(***************************************************************************)
EXTENDS Integers, FiniteSetsExt

CONSTANTS Top, Poly, Seed   \* 31, POLY, 32'hbed4dead

Parameters ==
  /\ Top \in Nat \ {0}
  /\ Poly \subseteq 0..Top
  /\ Seed \subseteq 0..Top /\ Seed # {}

VARIABLES
  result,  \* the register
  wasReset \* the SoC has been reset since power-up

rndVars == <<result, wasReset>>

\* {result[30:0] ^ to_xor[31:1], result[31]}
RndStep(w) ==
  SymDiff({i + 1 : i \in w \ {Top}}, {i \in Poly : Top \in w /\ i # 0})
    \cup {i \in {0} : Top \in w}

RndReset == result' = Seed /\ wasReset' = TRUE

RndClock == result' = RndStep(result) /\ UNCHANGED wasReset

RndInit == result \in SUBSET (0..Top) /\ wasReset = FALSE

RndNext == RndReset \/ RndClock

RndSpec == RndInit /\ [][RndNext]_rndVars

-----------------------------------------------------------------------------
\* The register keeps its width.
RndTypeOK == result \subseteq 0..Top /\ wasReset \in BOOLEAN

\* Once reset, the generator never gets stuck: zero is the one word it would
\* not leave, and the feedback never produces it, whatever the polynomial.
NeverStuck == wasReset => result # {}

=============================================================================
