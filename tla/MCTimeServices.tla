--------------------------- MODULE MCTimeServices ---------------------------
(***************************************************************************)
(* Small instance of TimeServices: one __mtime fits into a period of the   *)
(* lower half, and a second alarm can be set before the first is due.      *)
(***************************************************************************)
EXTENDS TimeServices

\* Due at the end of a period of the lower half or in the next one.
MCIntervals == {15}

\* Slower than the clock.
MCRates == {3}

=============================================================================
