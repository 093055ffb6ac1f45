----------------------------- MODULE HpkeTypes -----------------------------
(***************************************************************************)
(* The algorithm identifiers of src/traits/src/types.rs and of the Mode   *)
(* enum of src/src/lib.rs, with the lengths the rest of the crate reads   *)
(* from them, and the result values every operation returns.              *)
(***************************************************************************)
EXTENDS Naturals

\* Mode (lib.rs): the value is the byte `self.mode as u8` puts into the
\* key schedule context.
ModeId == [Base |-> 0, Psk |-> 1, Auth |-> 2, AuthPsk |-> 3]
Modes == DOMAIN ModeId
PskModes == {"Psk", "AuthPsk"}
AuthModes == {"Auth", "AuthPsk"}

\* KemAlgorithm: the IANA code `kem_id as u16` writes into the suite id.
KemId == [DhKemP256 |-> 16, DhKemP384 |-> 17, DhKem25519 |-> 32, XWingDraft06 |-> 77]
\* The DH-KEMs, for which kem.rs has an authenticated encapsulation.
DhKems == {"DhKemP256", "DhKemP384", "DhKem25519"}

KdfId == [HkdfSha256 |-> 1, HkdfSha384 |-> 2, HkdfSha512 |-> 3]

\* KdfAlgorithm digest length Nh (the provider's kdf_digest_length).
KdfDigestLength == [HkdfSha256 |-> 32, HkdfSha384 |-> 48, HkdfSha512 |-> 64]

AeadId == [Aes128Gcm |-> 1, ChaCha20Poly1305 |-> 3, HpkeExport |-> 65535]

\* AeadAlgorithm::key_length and ::nonce_length: 0 for the export-only AEAD.
AeadKeyLength == [Aes128Gcm |-> 16, ChaCha20Poly1305 |-> 32, HpkeExport |-> 0]
AeadNonceLength == [Aes128Gcm |-> 12, ChaCha20Poly1305 |-> 12, HpkeExport |-> 0]

\* An operation's result: Ok(value) or Err(error kind).
Ok(v) == [ok |-> TRUE, val |-> v]
Err(e) == [ok |-> FALSE, err |-> e]

\* A panic unwinding out of an operation (not an HpkeError).
Panic == Err("panic")

\* The HpkeError kinds (lib.rs) and the provider error kinds
\* (hpke_rs_crypto::error::Error) that appear in the model.
HpkeErrors == {"OpenError", "InvalidConfig", "InvalidInput", "UnknownMode",
               "InconsistentPsk", "MissingPsk", "UnnecessaryPsk", "InsecurePsk",
               "CryptoError", "MessageLimitReached", "InsufficientRandomness",
               "panic"}

\* impl From<hpke_rs_crypto::error::Error> for HpkeError: the provider's
\* error kinds the model produces, and what the crate turns them into.
ToHpkeError == [AeadOpenError          |-> "OpenError",
                AeadInvalidNonce       |-> "InvalidInput",
                AeadInvalidCiphertext  |-> "InvalidInput",
                UnknownAeadAlgorithm   |-> "UnknownMode",
                CryptoLibraryError     |-> "CryptoError",
                KemInvalidPublicKey    |-> "CryptoError",
                UnknownKemAlgorithm    |-> "CryptoError",
                UnsupportedKemOperation |-> "InvalidConfig"]
=============================================================================
