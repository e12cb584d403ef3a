------------------------------ MODULE MC_Dna ------------------------------
(* Dnas of up to two zomes, each declaring up to two functions (possibly    *)
(* the same one twice), one trait and up to two app entry types: enough    *)
(* for a type defined in both zomes and a function declared twice.        *)
EXTENDS Dna

CONSTANTS r1, f1, f2, t1, t2, sys

MCZomeNames == {1, 2}
MCTraitNames == {r1}
MCFnNames == {f1, f2}
MCTypeNames == {t1, t2}

=============================================================================
