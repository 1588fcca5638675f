-------------------------------- MODULE Words --------------------------------
(***************************************************************************)
(* 32-bit words of the RTL.  A word is the set of the positions of its 1   *)
(* bits, so Verilog's |, & and ~ are union, intersection and difference,   *)
(* and a part select is an intersection followed by a shift.               *)
(***************************************************************************)
EXTENDS Integers

Word == SUBSET (0..31)

\* The Verilog part select w[hi:lo].
Bits(w, hi, lo) == {i - lo : i \in w \cap (lo..hi)}

\* w << n, for values whose shifted bits stay within the word.
Shl(w, n) == {i + n : i \in w}

\* {{(31-top){w[top]}}, w[top:0]}: sign extension of a value of top+1 bits.
SignExt(w, top) == IF top \in w THEN w \cup (top + 1 .. 31) ELSE w

\* w + 2^b, the carry running up to bit top (a bound on address arithmetic:
\* a sum that carries out of bit top wraps around).
AddBit(w, b, top) ==
  LET zeros == {i \in b..top : i \notin w}
      k == CHOOSE i \in zeros : \A j \in zeros : i <= j
  IN  IF zeros = {} THEN w \ (b..top) ELSE (w \ (b..k)) \cup {k}

=============================================================================
