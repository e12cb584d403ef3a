----------------------------- MODULE MC_Sodium -----------------------------
(* libsodium's byte counts, and buffer lengths at and around them.         *)
EXTENDS Sodium

MCLens == {0, 8, 16, 32, 64}

=============================================================================
