------------------------------- MODULE Sodium -------------------------------
(***************************************************************************)
(* The libsodium wrappers of the sodium crate (sodium/src/kdf.rs,          *)
(* pwhash.rs, sign.rs) with respect to buffer lengths.  Each wrapper locks *)
(* its SecBufs and hands their pointers to a C function that reads or     *)
(* writes a fixed number of bytes through them.  A buffer is reduced to    *)
(* its length; a call's outcome is Ok, one of the wrapper's errors, or an  *)
(* out-of-bounds access of the C function, whose result is undefined.      *)
(*                                                                         *)
(* The byte counts are libsodium's constants of crypto_kdf, crypto_pwhash  *)
(* and crypto_sign, passed in as constants.                                *)
(***************************************************************************)
EXTENDS Naturals

CONSTANTS
    Lens,          \* the buffer lengths callers may pass
    KdfMin,        \* crypto_kdf_BYTES_MIN
    KdfMax,        \* crypto_kdf_BYTES_MAX
    KdfContext,    \* crypto_kdf_CONTEXTBYTES
    KdfKey,        \* crypto_kdf_KEYBYTES
    SaltBytes,     \* crypto_pwhash_SALTBYTES
    HashMin,       \* crypto_pwhash_BYTES_MIN
    PublicKey,     \* crypto_sign_PUBLICKEYBYTES
    SecretKey,     \* crypto_sign_SECRETKEYBYTES
    Seed,          \* crypto_sign_SEEDBYTES
    Signature      \* crypto_sign_BYTES

Outcomes == {"none", "ok", "out_length", "out_of_memory", "valid", "invalid", "undefined"}

VARIABLES
    call,     \* the last call: the wrapper and the lengths of its buffers
    outcome   \* what it returned

vars == <<call, outcome>>

TypeOK ==
    /\ call \in [op : {"none", "derive", "hash", "seed_keypair", "sign", "verify"},
                 lens : [1..3 -> Lens \cup {0}]]
    /\ outcome \in Outcomes

\* The C function accesses fewer bytes than each buffer holds.
InBounds(lens, needs) == \A i \in DOMAIN needs : needs[i] <= lens[i]

-----------------------------------------------------------------------------

Init ==
    /\ call = [op |-> "none", lens |-> [i \in 1..3 |-> 0]]
    /\ outcome = "none"

\* kdf::derive's checks: the output length within [MINBYTES, MAXBYTES] and
\* the context of CONTEXTBYTES; either failing returns OutputLength.
DeriveChecks(o, c) == o < KdfMin \/ o > KdfMax \/ c # KdfContext

\* kdf::derive(out, index, context, parent): after the checks,
\* crypto_kdf_derive_from_key writes the output, reads the context and
\* KEYBYTES of the parent; the length of the parent is not checked.
Derive(o, c, p) ==
    /\ call' = [op |-> "derive", lens |-> <<o, c, p>>]
    /\ outcome' =
         IF DeriveChecks(o, c) THEN "out_length"
         ELSE IF InBounds(<<o, c, p>>, <<o, KdfContext, KdfKey>>) THEN "ok"
         ELSE "undefined"

\* pwhash::hash(password, ops, mem, alg, salt, hash): no check; crypto_pwhash
\* reads SALTBYTES of the salt, returns -1 on a hash shorter than BYTES_MIN
\* or parameters out of range, and 0 otherwise; -1 is reported as
\* OutOfMemory.
Hash(s, h) ==
    /\ call' = [op |-> "hash", lens |-> <<s, h, 0>>]
    /\ outcome' =
         IF ~InBounds(<<s>>, <<SaltBytes>>) THEN "undefined"
         ELSE IF h < HashMin THEN "out_of_memory"
         ELSE "ok"

\* sign::seed_keypair(public_key, secret_key, seed): no check;
\* crypto_sign_seed_keypair writes PUBLICKEYBYTES and SECRETKEYBYTES and
\* reads SEEDBYTES.
SeedKeypair(pk, sk, sd) ==
    /\ call' = [op |-> "seed_keypair", lens |-> <<pk, sk, sd>>]
    /\ outcome' = IF InBounds(<<pk, sk, sd>>, <<PublicKey, SecretKey, Seed>>)
                  THEN "ok" ELSE "undefined"

\* sign::sign(message, secret_key, signature): no check;
\* crypto_sign_detached reads SECRETKEYBYTES and writes BYTES.
Sign(sk, sg) ==
    /\ call' = [op |-> "sign", lens |-> <<sk, sg, 0>>]
    /\ outcome' = IF InBounds(<<sk, sg>>, <<SecretKey, Signature>>)
                  THEN "ok" ELSE "undefined"

\* sign::verify(signature, message, public_key): no check;
\* crypto_sign_verify_detached reads BYTES and PUBLICKEYBYTES.
Verify(sg, pk) ==
    /\ call' = [op |-> "verify", lens |-> <<sg, pk, 0>>]
    /\ \/ /\ InBounds(<<sg, pk>>, <<Signature, PublicKey>>)
          /\ outcome' \in {"valid", "invalid"}
       \/ /\ ~InBounds(<<sg, pk>>, <<Signature, PublicKey>>)
          /\ outcome' = "undefined"

Next ==
    \/ \E o, c, p \in Lens : Derive(o, c, p)
    \/ \E s, h \in Lens : Hash(s, h)
    \/ \E pk, sk, sd \in Lens : SeedKeypair(pk, sk, sd)
    \/ \E sk, sg \in Lens : Sign(sk, sg)
    \/ \E sg, pk \in Lens : Verify(sg, pk)

Spec == Init /\ [][Next]_vars

-----------------------------------------------------------------------------
(* Properties.                                                             *)

\* No wrapper lets the C function read or write past a buffer: a call
\* either returns an error or accesses its buffers in bounds.
NoOutOfBounds == outcome # "undefined"

=============================================================================
