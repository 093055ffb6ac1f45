-------------------------------- MODULE Prng --------------------------------
(***************************************************************************)
(* The randomness of an Hpke config: Hpke::random of src/src/lib.rs over  *)
(* the libcrux provider's PRNG (HpkeLibcruxPrng).                          *)
(*                                                                         *)
(* In a build with the hpke-test-prng and deterministic-prng features,    *)
(* Hpke::random draws from `fake_rng`, a finite pool of bytes (256 random *)
(* bytes from Crypto::prng, or the bytes given to the test seed): a draw *)
(* of n bytes splits the last n off the pool, and fails without touching *)
(* it when fewer than n remain.  A pool is a sequence of byte values; the *)
(* bytes of a fresh pool are distinct model values (random bytes collide *)
(* with negligible probability).                                          *)
(*                                                                         *)
(* The provider's KEM functions take the ChaCha20 generator instead      *)
(* (RngCore::fill_bytes), which never runs out.                          *)
(***************************************************************************)
EXTENDS Naturals, Sequences, HpkeTypes

\* Mutation of TryFillTestBytes: the tail is copied out but not split off,
\* so the next draw returns the same bytes.
TryFillTestBytesNoSplit(pool, n) ==
    IF n > Len(pool) THEN Err("InsufficientRandomness")
    ELSE Ok([out  |-> SubSeq(pool, Len(pool) - n + 1, Len(pool)),
             pool |-> pool])

\* HpkeLibcruxPrng::try_fill_test_bytes (deterministic-prng): the bytes
\* drawn and the pool left.
TryFillTestBytes(pool, n) ==
    IF n > Len(pool) THEN Err("InsufficientRandomness")
    ELSE Ok([out  |-> SubSeq(pool, Len(pool) - n + 1, Len(pool)),
             pool |-> SubSeq(pool, 1, Len(pool) - n)])

\* Hpke::random (hpke-test-prng): any provider error becomes
\* HpkeError::InsufficientRandomness.
Random(pool, n) ==
    LET r == TryFillTestBytes(pool, n)
    IN IF r.ok THEN r ELSE Err("InsufficientRandomness")
=============================================================================
