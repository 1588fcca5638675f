------------------------------- MODULE MCHeap -------------------------------
(***************************************************************************)
(* Small instance of Heap: two granules for the secrets, an arena of a     *)
(* little more than 10 granules, three usable tags.                        *)
(***************************************************************************)
EXTENDS Heap

\* Nothing, a byte, one granule, and just over one.
MCSizes == {0, 1, 16, 17}

=============================================================================
