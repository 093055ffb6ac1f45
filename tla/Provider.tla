------------------------------ MODULE Provider ------------------------------
(***************************************************************************)
(* The algorithm dispatch and key generation of the libcrux provider      *)
(* (src/libcrux_provider/src/lib.rs), as pure operators.                   *)
(*                                                                         *)
(* A provider call that produces a key pair returns it as the tuple the   *)
(* code builds: <<public key, private key>>.  The ChaCha20 generator is  *)
(* the (stream, draw number) pair of module Setup: fill_bytes returns the *)
(* next block of its stream and advances it.                              *)
(***************************************************************************)
EXTENDS Naturals, HpkeTypes, Kem

\* kem_key_type_to_ecdh_alg: the KEMs libcrux_ecdh implements.
EcdhKems == {"DhKemP256", "DhKem25519"}

\* kem_key_type_to_libcrux_alg: the KEMs libcrux_kem implements.
LibcruxKems == EcdhKems \cup {"XWingDraft06"}

KemKeyTypeToEcdhAlg(kem) ==
    IF kem \in EcdhKems THEN Ok(kem) ELSE Err("UnknownKemAlgorithm")

KemKeyTypeToLibcruxAlg(kem) ==
    IF kem \in LibcruxKems THEN Ok(kem) ELSE Err("UnknownKemAlgorithm")

\* HpkeLibcruxPrng::fill_bytes: the next output of the generator g.
FillBytes(g) ==
    [out |-> <<"chacha", g.stream, g.chacha>>, prng |-> [g EXCEPT !.chacha = @ + 1]]

\* secret_to_public: only for the ECDH KEMs.
SecretToPublic(kem, sk) ==
    IF KemKeyTypeToEcdhAlg(kem).ok THEN Ok(PublicKey(sk)) ELSE KemKeyTypeToEcdhAlg(kem)

\* kem_key_gen: X-Wing keys come from libcrux_kem::key_gen, the others
\* from libcrux_ecdh::generate_secret once the algorithm maps; both read
\* the generator.  The result is <<pk, sk>> and the generator after it.
KemKeyGen(kem, g) ==
    LET d == FillBytes(g)
    IN IF kem # "XWingDraft06" /\ ~KemKeyTypeToEcdhAlg(kem).ok
       THEN KemKeyTypeToEcdhAlg(kem)
       ELSE Ok([pair |-> <<PublicKey(d.out), d.out>>, prng |-> d.prng])

\* kem_key_gen_derand: a key pair that is a function of the seed.
KemKeyGenDerand(kem, seed) ==
    IF KemKeyTypeToLibcruxAlg(kem).ok
    THEN Ok(<<PublicKey([derand |-> seed]), [derand |-> seed]>>)
    ELSE KemKeyTypeToLibcruxAlg(kem)

\* Mutation of KemDecaps: Ct::decode reads a ciphertext of the wrong
\* length by its prefix instead of refusing it.
KemDecapsPrefix(kem, ct, skR) ==
    LET dec == PublicKey(ct.pk)
    IN IF ~KemKeyTypeToLibcruxAlg(kem).ok THEN KemKeyTypeToLibcruxAlg(kem)
       ELSE Ok(ExtractAndExpand(kem, DH(skR, dec), <<dec, PublicKey(skR)>>))

\* kem_decaps: the algorithm must map; a ciphertext that Ct::decode
\* rejects (the wrong length) is reported as AeadInvalidCiphertext; the
\* shared secret depends on the ciphertext and the receiver key only.
KemDecaps(kem, ct, skR) ==
    CASE ~KemKeyTypeToLibcruxAlg(kem).ok -> KemKeyTypeToLibcruxAlg(kem)
      [] IsShort(ct)                     -> Err("AeadInvalidCiphertext")
      [] OTHER -> Ok(ExtractAndExpand(kem, DH(skR, ct), <<ct, PublicKey(skR)>>))

\* dh_validate_sk: a P-256 scalar must lie in [1, n-1]; `invalid` is the
\* set of scalars outside it.  Every other KEM is refused.
DhValidateSk(kem, sk, invalid) ==
    CASE kem = "DhKemP256" /\ sk \notin invalid -> Ok(sk)
      [] kem = "DhKemP256"                      -> Err("CryptoLibraryError")
      [] OTHER                                  -> Err("UnknownKemAlgorithm")
=============================================================================
