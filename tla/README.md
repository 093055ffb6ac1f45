# TLA+ models of hpke-rs

This directory holds TLA+ models of the HPKE (RFC 9180) implementation in
`src/`:
- the encryption context;
- the sender and receiver setups and the key schedule they run;
- the libcrux AEAD;
- the private-key comparison.

Each module translates the Rust source. The KEM and the labelled KDF live in
`kem.rs`, `dh_kem.rs` and `kdf.rs`, which are not under `src/`. They are
modelled from `spec.md` and marked `spec_modelled` in `PROJECT.json`.

## The system and how its parts interact

Every source file below is under `src/`.

| Part | Source | What it does |
|---|---|---|
| `Hpke` | `src/lib.rs` 350-738 | Configuration (mode, KEM, KDF, AEAD) and a PRNG. `setup_sender` and `setup_receiver` run the KEM, then `key_schedule`, and return a `Context`. |
| Key schedule | `src/lib.rs` 598-698 | `verify_psk_inputs`, `ciphersuite`, `key_schedule_context` and `key_schedule` derive the key, the base nonce and the exporter secret. |
| `Context` | `src/lib.rs` 217-340 | `seal` and `open` call the provider's AEAD with `compute_nonce()`, then `increment_seq()`. `export` runs LabeledExpand. |
| Provider | `libcrux_provider/src/lib.rs` | `aead_seal` and `aead_open` (ChaCha20-Poly1305 only), HKDF, DH, KEM and the PRNG. |
| Errors, ids | `src/lib.rs` 72-125 and 1001-1030; `traits/src/types.rs` | `HpkeError`, the `From` conversion of provider errors, and the algorithm enums with their lengths. |
| Key types | `src/lib.rs` 127-165 and 740-920 | `HpkePrivateKey` (with a constant-time `eq`), `HpkePublicKey` and `HpkeKeyPair`. |

The sender calls `setup_sender` and publishes `enc`. The receiver calls
`setup_receiver` with that `enc`. Each side then holds a `Context`. The
sender seals and the receiver opens, in order. Each side keeps its own
sequence number, so the two stay in step only when every ciphertext arrives
in order and is opened exactly once.

## Modules

- **HpkeTypes**: the identifier tables, the `Ok`/`Err` results, the
  `HpkeError` kinds, and `ToHpkeError`, which is the `From<Error>` impl.
- **KeySchedule**: `VerifyPskInputs`, `Ciphersuite`, `KeyScheduleContext` and
  `KeySchedule` as pure operators.
  - LabeledExtract and LabeledExpand are a random oracle: the output is the
    record of its inputs.
  - LabeledExpand fails above 255*Nh.
- **Kem** (spec_modelled): symbolic Diffie-Hellman.
  - A public key is `[pk |-> sk]`.
  - `DH(a, pk(b)) = {a, b}`, which makes it commutative.
  - `AuthEncaps` and `AuthDecaps` fail with `UnsupportedKemOperation` for a
    KEM that is not DH.
  - `Truncated(enc)` is an enc that is not Npk bytes long. `Decaps` and
    `AuthDecaps` of a DH-KEM refuse it with `KemInvalidPublicKey`, as the spec's
    edge-case policies say.
- **HpkeContext**: one `Context`.
  - State: `ctx`, which is `NoContext` or a record of key, nonce, exporter
    secret, `seq` and config; and `out`, the result of the last call.
  - Actions: `Seal`, `Open` and `Export`. Each action models the whole
    method:
    - `compute_nonce`, including the usize underflow for a nonce shorter than
      4 bytes;
    - the provider's AEAD, with each of its checks in the code's order;
    - the `From` conversion of the provider's error;
    - `increment_seq`.
  - `sequence_number` is a u32. It is modelled with `SeqBits` bits.
    `OverflowChecks` selects the build:
    - debug builds: `+= 1` past the width panics;
    - release builds: it wraps to 0.
  - A panic unwinds and drops the context (`NoContext`).
- **Hpke**: the composition.
  - Two `HpkeContext` instances, one for the sender and one for the receiver.
  - `SetupSender` and `SetupReceiver` model all of `setup_sender` and
    `setup_receiver`, including the early `InvalidInput` return when `sk_s`
    or `pk_s` is missing in the Auth modes.
  - The network `net` keeps every ciphertext. `ReceiverOpen` picks any of
    them, so messages can arrive reordered or duplicated. It may also flip
    bits (`forged`) or cut the ciphertext below the tag (`truncated`) on the
    way.
  - Under `EncFaults` a receiver may also be handed a published enc that was
    altered on the wire (`Tampered`: well formed, but no sender drew its key)
    or cut short (`Truncated`) (`DeliveredEncs`). This is the only fault
    model: the library persists nothing and runs no threads, so a crash or a
    race has nothing to act on.
  - History variables: `sent`, `accepted`, `sparams`, `rparams`, `opened1`
    (what single-shot opens accepted) and `poolDraws`. `poolDraws` counts the
    draws setups made from the pool (`DrewFromPool`): a DH-KEM setup past the
    Auth-mode checks whose `Hpke::random` call succeeded. It is counted
    whether or not the setup then fails, and whatever the draw did to the
    pool.
  - `prng` is the state of the provider's PRNG: `pool`, the bytes left in
    the deterministic test pool, and `chacha`, the number of draws from the
    ChaCha20 generator. `EphemeralDraw` is the KEM's draw: a DH-KEM takes
    `KeyLen` bytes through `Hpke::random`; X-Wing passes the ChaCha20
    generator to `kem_encaps`, which never runs out.
  - `SenderSetup` returns the PRNG after the call. The Auth-mode early
    returns draw nothing; a failed psk check in `key_schedule` comes after
    the draw, so the bytes are gone.
  - `SingleShotSeal`, `SingleShotOpen`, `SendExport` and
    `ReceiverExportOnce` are `Hpke::seal`, `open`, `send_export` and
    `receiver_export`: the whole setup, then one context call on a
    temporary context that is dropped. They are enabled by `SingleShotApi`.
  - `Channel` is `SecureChannel` instantiated with a refinement mapping:
    - sessions are the session keys;
    - a session's log is the plaintexts sealed under its key, in order;
    - the receiver's session is its context's key;
    - the messages it got are the plaintexts it accepted.
- **Setup**: `setup_sender` and `setup_receiver` as pure operators over the
  PRNG state `[pool, stream, chacha]` of the calling config. The Auth-mode
  early returns draw nothing. A curve the provider lacks (`EcdhRefused`,
  e.g. P-384) and the psk checks fail after the draw. `Hpke` and
  `HpkeConfig` both use it.
- **Provider**: the libcrux provider's algorithm dispatch
  (`kem_key_type_to_ecdh_alg`, `kem_key_type_to_libcrux_alg`),
  `fill_bytes`, `secret_to_public`, `kem_key_gen`, `kem_key_gen_derand`,
  `kem_decaps` and `dh_validate_sk`. `kem_decaps` (lines 113-122) is the
  decapsulation of X-Wing: `setup_receiver` reaches it through `kem::decaps`.
  A ciphertext `Ct::decode` rejects comes back as `AeadInvalidCiphertext`. A key pair comes back as the code builds it:
  `<<pk, sk>>`.
- **HpkeConfig**: any number of `Hpke` configs, each owning its PRNG.
  - `Crypto::prng()` is fresh per call: PRNG number i has ChaCha20 stream i
    and pool bytes `<<"os", i, j>>`.
  - Actions: `New` (`Hpke::new`), `Clone` (which gives the clone a fresh
    PRNG), `SeedHpke` (test-only `seed`, which replaces the pool only),
    `GenerateKeyPair`, `DeriveKeyPair` and `SetupSender`.
  - `HpkeKeyPair` is `HpkeKeyPair::new` (and `from_keys`, `into_keys`, the
    tuple `From` impls), which both key-pair calls build their result with.
  - `DeriveCandidate` is the NIST rejection sampling of `DeriveKeyPair`,
    RECURSIVE (spec_modelled, since `dh_kem.rs` is not under `src/`).
  - History: `seeded` per config, and `issued`, every secret key drawn,
    with whether it came from OS randomness.
- **Prng**: `TryFillTestBytes` (`try_fill_test_bytes` with the
  `deterministic-prng` feature): split the last n bytes off the pool, or
  fail without touching it when fewer remain. `Random` is `Hpke::random`,
  which maps any error to `InsufficientRandomness`.
- **SecureChannel**: the abstract promise of the multi-message mode. Each
  session has an append-only log. The receiver is in at most one session
  and has delivered a prefix of its log, one next message at a time.
- **PrivateKeyEq**: `HpkePrivateKey::eq`, bit for bit.
  - The u8 wrapping operations come from `Bitwise`.
  - `DifferentBits` is RECURSIVE.
  - It is checked against byte equality over all keys up to 2 bytes.
- **MCHpke**: the byte strings, the suites and the symmetry sets for the
  `.cfg` files.

## Runs

| Run | cfg | Expect | What it shows |
|---|---|---|---|
| context | `MCHpke_context.cfg` | pass | Covers a debug build with seq width 2 bits, 4 seals and 4 opens, 2 AADs and a 2-byte test pool, which allows two setups and then runs out. `NonceUnique` holds across setups while the counter runs to the top of its range and the debug panic drops the context. `CountersTrackHistory`: each counter equals its number of successes mod 2^w, because failed opens (forged, truncated, wrong AAD) leave it alone. |
| release | `MCHpke_release.cfg` | violation | Release build, 5 seals. The counter wraps 3 → 0 and seal 5 reuses nonce 0. `MessageLimitReached` is never reached. |
| setup | `MCHpke_setup.cfg` | pass | The Psk and AuthPsk modes on X25519/ChaCha, with 2 psks and 2 psk_ids (and an empty psk_id, which fails `verify_psk_inputs` after the draw), 2 infos, 2 receivers and 2 sender keys. So a receiver can differ from the sender in each setup input: mode, info, psk, psk_id, receiver key and `pk_s`. `OpenImpliesAgreement`: an accepted ciphertext was sealed by a sender whose setup inputs all agree with the receiver's; it fails when `key_schedule_context` drops `psk_id_hash`. `PoolAccounting`: the one-byte pool is the seed less exactly the bytes of the draws setups made, including those of setups that failed afterwards, and `InsufficientRandomness` comes only once those draws have used the seed up. It fails when a failed setup hands back the PRNG as it was, when a draw does not split its bytes off, and when the exhaustion check is off by one. |
| oneshot | `MCHpke_oneshot.cfg` | pass | The single-shot APIs beside the context APIs, X25519 and X-Wing, a 1-byte pool and one ChaCha20 draw. `SingleOpenOnlyFirst`: `Hpke::open` accepts only a ciphertext of an agreeing sender, and only the first one sealed under its key. `NonceUnique` holds across single-shot and context seals. Both fail when a draw does not split its bytes off the pool. |
| encfaults | `MCHpke_encfaults.cfg` | pass | X25519 and X-Wing, with the network also altering or truncating published encs; 2 seals and 2 opens. `OpenOnlyUnderPublishedEnc`: a receiver context that opened anything was set up from an enc exactly as a sender published it. It fails when `kem_decaps` decodes a wrong-length ciphertext by its prefix. `ChannelRefinement` still holds with enc faults. |
| config | `MCHpkeConfig.cfg` | pass | Two configs, made by `new` or `clone`, over X25519, P-256, P-384 and X-Wing, seeded or not. `KeysFresh`: no key drawn from OS randomness repeats, on any config; this fails when `Clone` copies the PRNG. `TypeOK` includes every error being an `HpkeError`, e.g. P-384 key generation giving `CryptoError`. |
| openerror | `MCHpke_openerror.cfg` | violation | A forged ciphertext gives `CryptoError`, not the spec's `OpenError`. |
| export_only | `MCHpke_exportonly.cfg` | violation | `seal` on an export-only context panics in `compute_nonce`; the spec says it returns `InvalidConfig`. |
| keygen | `MCHpkeConfig_keygen.cfg` | violation | libcrux `kem_key_gen` returns `(pk, sk)` (lines 74 and 86; `kem_key_gen_derand` at 96). The provider interface of spec section 4.1 gives `(sk_bytes, pk_bytes)`. What `generate_key_pair` returns then depends on `kem::key_gen` in `kem.rs`, which is not under `src/`. The model assumes it passes the tuple on unchanged (`GenerateKeyPairResult`), but no property is checked on that assumption. |
| truncenc | `MCHpke_truncenc.cfg` | violation | An X-Wing receiver handed a truncated enc gets `InvalidInput`, because libcrux `kem_decaps` line 116 reports `AeadInvalidCiphertext`. The spec (4.3, and the boundary behaviours of section 8) says `KemInvalidPublicKey`, which the crate reports as `CryptoError`. A DH-KEM receiver matches the spec. |
| privkey_eq | `PrivateKeyEq.cfg` | violation | `<<0>>` and `<<2>>` compare equal: `wrapping_shr(8)` on a u8 shifts by 0. |

`PROJECT.json` lists the findings and hazards, and one mutant per property
of the passing runs. Each mutant is a plausible bug in the mapped code:
- a counter with no width;
- a nonce without the counter;
- an open that never increments;
- an open that increments before the AEAD;
- a setup that fails in `key_schedule` and hands back the PRNG as it was
  before the draw;
- a pool draw that does not split its bytes off;
- a `Clone` that copies the PRNG;
- key generation without the `From` conversion of its error;
- a key schedule context without `psk_id_hash`;
- a `kem_decaps` that decodes a wrong-length ciphertext by its prefix.

### Bounds

The real widths are 32 bits for the counter and 2^96 - 1 for the limit. The
model scales them to `SeqBits` = 2 and `NonceLimit` = 7. The order that
matters is kept, with `ASSUME NonceLimit >= 2^SeqBits`: the counter wraps
before the limit check can fire, as it does in the code. Four seals take the
counter to the top of its range, so the debug panic happens. In the release
run, five seals wrap it.

The test pool is scaled to `KeyLen` = 1 byte per draw. A two-byte `Seed`
allows a sender to set up twice, giving two keys on the network, and a
third setup runs the pool out. The setup and oneshot runs use a one-byte
pool. `MaxRngDraws` bounds the ChaCha20 draws of X-Wing, which never run
out in the code. The oneshot run has two plaintexts, so two seals under
one key are different ciphertexts. In the setup run two values of each
setup input are the least for a mismatch in it. Psk and AuthPsk are the
two modes that between them use every input. A psk is 32 bytes, since a
shorter one fails `verify_psk_inputs` on both sides and cannot be a
mismatch. Symmetry is applied only in the setup run: over receivers,
sender keys, infos and the psk and psk_id contents, which are
interchangeable model values.

The config run has at most 2 configs, a 2-byte pool, 2 ChaCha20 draws per
config and 4 keys drawn in all. `MaxKeys` is needed because reseeding
refills the pool. Two configs are the least for a clone to share
anything. `DeriveKeyPair` tries 255 candidates; the model tries
`CandidateLimit` = 16, because TLC evaluates the recursion on its stack.
The ikms cover three cases: the first candidate rejected, only the last
one valid, and none valid. The loop itself is in `dh_kem.rs`, which is not
under `src/`, so it is modelled from the spec and no property is checked
against it.

The encfaults run keeps the oneshot run's one-byte pool and one ChaCha20
draw, so there is one session of each KEM. The single-shot APIs are off:
with enc faults on, they make the oneshot run take over 9 minutes. Each
published enc has one altered and one truncated copy, and the receiver may
be handed any of them with either suite. That covers a tampered or short enc
for both decapsulation paths (DH in `kem.rs`, X-Wing in the provider).

An enc is not tied to its KEM's length. So an X25519 enc handed to an
X-Wing receiver is treated as well formed: it derives a different key, and
the opens fail. In the code it would fail at `Ct::decode`. Either way no
context opens anything, which is all the properties ask.

### Fairness and deadlock

No liveness is checked, so the specs have no fairness. The library has no
scheduler, threads or retries: every action is a call the caller may or may
not make, and a caller may stop calling at any point. A fairness condition
would be an assumption about the caller, not something the code ensures.
`ChannelRefinement` is checked as a safety refinement (`Init /\ [][Next]_vars`). For the same reason
the runs set `CHECK_DEADLOCK FALSE`: a state with every bound used up is a
caller that has stopped.

## Not modelled

Left out:
- The non-test PRNG build (`Hpke::random` calling `try_fill_bytes`,
  `src/lib.rs` 726-728). There a DH-KEM draw comes from the ChaCha20
  generator. It then behaves as X-Wing's draw already does in the model
  (`FillBytes`): a fresh value that never runs out. The test pool is the
  only PRNG that can fail or be consumed wrongly, so it is the one modelled.
- The provider's `supports_kdf`, `supports_kem` and `supports_aead`, which
  the crate never calls. `Hpke::new` accepts every suite, and an
  unsupported one fails at its first provider call, as modelled.
- The clone inside `setup_sender` (`self.clone().key_schedule`) makes a
  PRNG that is never drawn from, so it is left out.
- `Display`, `Debug`, hex helpers and `tls_codec` serialization are
  formatting only.
- The benchmarks are not library behaviour.
- `Context` has no `Zeroize` or `Drop`, although the spec asks for secrets
  to be zeroized. This is a property of memory, which TLC cannot observe.
