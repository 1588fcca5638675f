----------------------------- MODULE MCMemPath -----------------------------
(***************************************************************************)
(* Small instance of MemPath for TLC.                                      *)
(***************************************************************************)
EXTENDS MemPath

\* Two words, each a granule: the last byte and the upper half of the first
\* one, the latter under a tag other than 0, and the second word.
MCAddresses == {{0, 1}, {1, 28}, {2}}

\* Both bytes of the lower half differ and have their sign bits set; the
\* tag st makes of it is not 0 and drops the rest.
MCDataValues == {{0, 7, 9, 15}}

=============================================================================
