---------------------------- MODULE MC_Ribosome ----------------------------
(* A memory of six bytes: room for a guest argument and two host results,  *)
(* so that the allocator reaches the end of the memory and a result fails  *)
(* to be stored.  Two indices, one of them MissingNo.                      *)
EXTENDS Ribosome

CONSTANTS remove, missing

MCMemSize == 6
MCKnown == {remove}
MCIndices == {remove, missing}
MCMaxCalls == 3

=============================================================================
