----------------------------- MODULE HpkeConfig -----------------------------
(***************************************************************************)
(* The life of Hpke configuration objects (struct Hpke of src/src/lib.rs) *)
(* and of the PRNG each one owns: Hpke::new, Clone, the test-only seed,   *)
(* generate_key_pair, derive_key_pair, and setup_sender as the caller of  *)
(* the PRNG (module Setup).                                               *)
(*                                                                         *)
(* Crypto::prng() (libcrux provider) seeds a new ChaCha20 generator from *)
(* the OS and, with the deterministic-prng feature, fills a 256-byte test *)
(* pool from another.  Both are fresh per call: PRNG number i has stream *)
(* i and pool bytes <<"os", i, j>>.  Hpke::seed replaces the pool only.  *)
(*                                                                         *)
(* History kept by the model, not the code:                               *)
(*   - `seeded`: whether a config's pool was replaced by Hpke::seed;      *)
(*   - `issued`: every secret key a call drew from a PRNG, with `fresh`  *)
(*     TRUE when it came from OS randomness and not from a test seed.     *)
(***************************************************************************)
EXTENDS Naturals, Sequences, Setup

CONSTANTS
    Configs,          \* (mode, kem, kdf, aead) passed to Hpke::new
    PoolLen,          \* bytes in a fresh test pool (256 in the code)
    TestSeeds,        \* byte strings a test passes to Hpke::seed
    ReceiverPk,       \* the receiver public key passed to setup_sender
    Infos, Psks, PskIds,
    Ikms,             \* input keying material passed to derive_key_pair
    InvalidScalars,   \* P-256 candidates dh_validate_sk rejects
    CandidateLimit,   \* DeriveKeyPair's bound on candidates (255)
    MaxInstances,     \* bound on the configs created
    MaxRngDraws,      \* bound on ChaCha20 draws per config
    MaxKeys           \* bound on the keys drawn (a reseeded pool refills)

\* The candidate counter is one byte, I2OSP(counter, 1).
ASSUME /\ PoolLen \in Nat /\ CandidateLimit \in 1..256
       /\ MaxInstances \in Nat /\ MaxRngDraws \in Nat /\ MaxKeys \in Nat

VARIABLES
    insts,            \* <<[cfg, prng, seeded]>>: the configs, by creation order
    issued,           \* history: <<[key, fresh]>> of every secret key drawn
    out               \* the last call: [op, res]

vars == <<insts, issued, out>>

----------------------------------------------------------------------------
(* Crypto::prng(), Hpke::new and Clone.                                    *)

\* HpkeLibcrux::prng with deterministic-prng: the i-th PRNG made.
FreshPrng(i) ==
    [pool |-> [j \in 1..PoolLen |-> <<"os", i, j>>], stream |-> i, chacha |-> 0]

\* Hpke::new: the configuration and a new PRNG.
NewHpke(cfg, i) == [cfg |-> cfg, prng |-> FreshPrng(i), seeded |-> FALSE]

\* Mutation of CloneHpke: a derived Clone that copies the PRNG state.
CloneHpkeSharedPrng(h, i) == h

\* impl Clone for Hpke: the configuration is copied, the PRNG is not.
CloneHpke(h, i) == [cfg |-> h.cfg, prng |-> FreshPrng(i), seeded |-> FALSE]

----------------------------------------------------------------------------
(* Key pairs.  An HpkeKeyPair is [sk, pk].                                 *)

\* HpkeKeyPair::new(sk, pk), and the From impls of an (sk, pk) tuple: the
\* pair of a private and a public key, which from_keys builds and
\* into_keys takes apart unchanged.
HpkeKeyPair(sk, pk) == [sk |-> sk, pk |-> pk]

\* Mutation of GenerateKeyPairResult: the provider's error is returned
\* without the From conversion.
GenerateKeyPairResultUnconverted(kem, g) ==
    LET r == KemKeyGen(kem, g)
    IN IF r.ok THEN Ok([pair |-> HpkeKeyPair(r.val.pair[1], r.val.pair[2]),
                        prng |-> r.val.prng])
       ELSE r

\* generate_key_pair: `let (sk, pk) = kem::key_gen(kem_id, &mut prng)?`,
\* kem::key_gen handing on the provider's kem_key_gen tuple, whose first
\* component libcrux makes the public key.
GenerateKeyPairResult(kem, g) ==
    LET r == KemKeyGen(kem, g)
    IN IF r.ok THEN Ok([pair |-> HpkeKeyPair(r.val.pair[1], r.val.pair[2]),
                        prng |-> r.val.prng])
       ELSE Err(ToHpkeError[r.err])

\* DeriveKeyPair's candidate number c for ikm: LabeledExpand(dkp_prk,
\* "candidate", I2OSP(c, 1), Nsk) with the top byte masked, a random oracle.
Candidate(ikm, c) == [ikm |-> ikm, candidate |-> c]

\* The rejection sampling of DeriveKeyPair for the NIST curves: the first
\* candidate from counter c on that dh_validate_sk accepts.
RECURSIVE DeriveCandidate(_, _, _)
DeriveCandidate(kem, ikm, c) ==
    IF c >= CandidateLimit THEN Err("InvalidConfig")
    ELSE LET v == DhValidateSk(kem, Candidate(ikm, c), InvalidScalars)
         IN IF v.ok THEN v ELSE DeriveCandidate(kem, ikm, c + 1)

\* kem::derive_key_pair: <<pk, sk>>.  X25519 expands "sk" directly, the
\* NIST curves sample, X-Wing calls kem_key_gen_derand; the DH public key
\* is secret_to_public(sk).
KemDeriveKeyPair(kem, ikm) ==
    IF kem \notin DhKems THEN KemKeyGenDerand(kem, ikm)
    ELSE LET sk == IF kem = "DhKem25519" THEN Ok([ikm |-> ikm, label |-> "sk"])
                   ELSE DeriveCandidate(kem, ikm, 0)
         IN IF ~sk.ok THEN sk
            ELSE IF SecretToPublic(kem, sk.val).ok
                 THEN Ok(<<SecretToPublic(kem, sk.val).val, sk.val>>)
                 ELSE SecretToPublic(kem, sk.val)

\* Hpke::derive_key_pair: `let (pk, sk) = kem::derive_key_pair(..)?`.
DeriveKeyPairResult(kem, ikm) ==
    LET r == KemDeriveKeyPair(kem, ikm)
    IN IF r.ok THEN Ok(HpkeKeyPair(r.val[2], r.val[1]))
       ELSE IF r.err \in DOMAIN ToHpkeError THEN Err(ToHpkeError[r.err]) ELSE r
----------------------------------------------------------------------------
(* The calls.                                                              *)

Handles == 1..Len(insts)

\* setup_sender's inputs for a config of the given suite (no sender key).
SenderInputsFor(cfg) ==
    [cfg: {cfg}, pkR: {ReceiverPk}, info: Infos, psk: Psks, pskId: PskIds,
     skS: {None}]

\* The bounds are the model's: a call that would draw from the generator
\* once it is used up, or draw a key past MaxKeys, is not taken.
CanDraw(h, kem) ==
    /\ Len(issued) < MaxKeys
    /\ kem \in DhKems \/ insts[h].prng.chacha < MaxRngDraws

New ==
    /\ Len(insts) < MaxInstances
    /\ \E cfg \in Configs : insts' = Append(insts, NewHpke(cfg, Len(insts) + 1))
    /\ out' = [op |-> "new", h |-> Len(insts) + 1, arg |-> None, res |-> Ok(None)]
    /\ UNCHANGED issued

Clone ==
    /\ Len(insts) < MaxInstances
    /\ \E h \in Handles :
        /\ insts' = Append(insts, CloneHpke(insts[h], Len(insts) + 1))
        /\ out' = [op |-> "clone", h |-> Len(insts) + 1, arg |-> h, res |-> Ok(None)]
    /\ UNCHANGED issued

\* Hpke::seed (test_util), HpkeLibcruxPrng::seed: the pool becomes the seed.
SeedHpke ==
    /\ \E h \in Handles, s \in TestSeeds :
        /\ insts' = [insts EXCEPT ![h].prng.pool = s, ![h].seeded = TRUE]
        /\ out' = [op |-> "seed", h |-> h, arg |-> s, res |-> Ok(None)]
    /\ UNCHANGED issued

GenerateKeyPair ==
    \E h \in Handles :
        LET g == insts[h].prng
            r == GenerateKeyPairResult(insts[h].cfg.kem, g)
        IN /\ CanDraw(h, "generator")
           /\ out' = [op |-> "generate", h |-> h, arg |-> None,
                      res |-> IF r.ok THEN Ok(r.val.pair) ELSE r]
           /\ IF r.ok
              THEN /\ insts' = [insts EXCEPT ![h].prng = r.val.prng]
                   /\ issued' = Append(issued, [key |-> FillBytes(g).out, fresh |-> TRUE])
              ELSE UNCHANGED <<insts, issued>>

DeriveKeyPair ==
    /\ \E h \in Handles, ikm \in Ikms :
        out' = [op |-> "derive", h |-> h, arg |-> ikm,
                res |-> DeriveKeyPairResult(insts[h].cfg.kem, ikm)]
    /\ UNCHANGED <<insts, issued>>

\* setup_sender on config h: its PRNG after the call, and the ephemeral
\* key of a successful setup (the secret behind enc).  A pool draw is
\* fresh unless the pool was seeded; a ChaCha20 draw always is.
SetupSender ==
    \E h \in Handles :
        \E p \in SenderInputsFor(insts[h].cfg) :
            LET o == SenderSetup(p, insts[h].prng)
            IN /\ CanDraw(h, p.cfg.kem)
               /\ insts' = [insts EXCEPT ![h].prng = o.prng]
               /\ out' = [op |-> "setup", h |-> h, arg |-> None,
                          res |-> IF o.res.ok THEN Ok(o.res.val.enc) ELSE o.res]
               /\ issued' = IF o.res.ok
                            THEN Append(issued, [key |-> o.res.val.enc.pk,
                                                 fresh |-> p.cfg.kem \notin DhKems
                                                           \/ ~insts[h].seeded])
                            ELSE issued

Init ==
    /\ insts = <<>>
    /\ issued = <<>>
    /\ out = [op |-> "none", h |-> 0, arg |-> None, res |-> Err("none")]

Next ==
    \/ New
    \/ Clone
    \/ SeedHpke
    \/ GenerateKeyPair
    \/ DeriveKeyPair
    \/ SetupSender

Spec == Init /\ [][Next]_vars

----------------------------------------------------------------------------
(* Properties.                                                             *)

\* Every config is well formed, its ChaCha20 count within the bound, and
\* every error a call returns is an HpkeError (the provider's errors pass
\* through From<Error>).
TypeOK ==
    /\ Len(insts) <= MaxInstances
    /\ \A h \in Handles : insts[h].cfg \in Configs
                          /\ insts[h].prng.chacha \in 0..MaxRngDraws
    /\ out.op \in {"none", "new", "clone", "seed", "generate", "derive", "setup"}
    /\ ~out.res.ok => out.res.err \in HpkeErrors \cup {"none"}

\* Spec, Hpke configuration: a clone gets an independently seeded PRNG,
\* so that two configs never produce the same ephemeral keys.  No secret
\* key drawn from OS randomness, by generate_key_pair or as a setup_sender
\* ephemeral key, on any config, original or clone, is ever drawn twice.
\* It rests on impl Clone for Hpke calling Crypto::prng(), on the pool
\* draw splitting its bytes off, and on generate_key_pair and X-Wing
\* encapsulation sharing one ChaCha20 stream per config.
KeysFresh ==
    \A i, j \in 1..Len(issued) :
        i < j /\ issued[i].fresh /\ issued[j].fresh => issued[i].key # issued[j].key

\* The provider interface of spec section 4.1: kem_key_gen(kem, prng)
\* returns (sk_bytes, pk_bytes).  For every config, the tuple the libcrux
\* provider's kem_key_gen returns on the generator the config owns has the
\* public key of its first component as its second.
KemKeyGenIsSkPk ==
    \A h \in Handles :
        LET r == KemKeyGen(insts[h].cfg.kem, insts[h].prng)
        IN r.ok => r.val.pair[2] = PublicKey(r.val.pair[1])
=============================================================================
