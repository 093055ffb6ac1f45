---------------------------- MODULE HpkeContext ----------------------------
(***************************************************************************)
(* One HPKE encryption context: struct Context of src/src/lib.rs with its *)
(* seal, open and export methods, over the AEAD of the libcrux provider   *)
(* (src/libcrux_provider/src/lib.rs, aead_seal and aead_open).            *)
(*                                                                         *)
(* `ctx` is the Context (or NoContext once none is live) and `out` the    *)
(* result of the last call on it.  A module composing contexts takes one *)
(* INSTANCE per context.                                                  *)
(*                                                                         *)
(* The AEAD is abstract: a ciphertext is the record of the key, nonce,   *)
(* aad and plaintext it was sealed with, and it opens exactly under those.*)
(* A ciphertext the network tampered with has form "forged" (any bit     *)
(* flipped: the tag fails) or "truncated" (shorter than the 16-byte tag). *)
(***************************************************************************)
EXTENDS Naturals, HpkeTypes, KeySchedule

CONSTANTS
    SeqBits,        \* bits of Context::sequence_number (a u32: 32)
    NonceLimit,     \* (1 << 8*Nn) - 1 for the 12-byte nonces (2^96 - 1)
    OverflowChecks, \* TRUE: a build with overflow checks (debug profile),
                    \* where `sequence_number += 1` past the width panics;
                    \* FALSE: the release profile, where it wraps to 0
    NoContext       \* model value: no live context

\* The code's counter cannot reach the RFC limit: 2^32 - 1 < 2^96 - 1.
\* A model with smaller widths keeps that order.
ASSUME SeqBits \in Nat \ {0} /\ NonceLimit >= 2^SeqBits
ASSUME OverflowChecks \in BOOLEAN

VARIABLES ctx, out

SeqModulus == 2^SeqBits

\* sequence_number.to_be_bytes().len()
SeqBytes == 4

\* The value `seal` returns: the AEAD output for these inputs.
Ciphertext(key, nonce, aad, pt) ==
    [key |-> key, nonce |-> nonce, aad |-> aad, pt |-> pt, form |-> "sealed"]

Authentic(ct, key, nonce, aad) ==
    ct.form = "sealed" /\ ct.key = key /\ ct.nonce = nonce /\ ct.aad = aad

\* compute_nonce's `self.nonce.len() - seq.len()` is a usize subtraction:
\* for a nonce shorter than 4 bytes it panics (debug) or wraps and the
\* `vec!` of that size aborts on capacity overflow (release).
NonceUnderflow(c) == c.nonce.len < SeqBytes

\* Mutation of ComputeNonce: the sequence number is not mixed in.
ComputeNonceBaseOnly(c) == [base |-> c.nonce.base, ctr |-> 0, len |-> c.nonce.len]

\* Context::compute_nonce: xor(base_nonce, I2OSP(seq, Nn)).  XOR with the
\* fixed base is a bijection, so the nonce is identified by the base and
\* the sequence number (which fits the 4 low bytes).
ComputeNonce(c) == [base |-> c.nonce.base, ctr |-> c.seq, len |-> c.nonce.len]

\* The bound increment_seq compares with: (1u128 << (8 * Nn)) - 1.
MessageLimit(aead) == IF AeadNonceLength[aead] = 0 THEN 0 ELSE NonceLimit

\* Mutation of IncrementSeq: the counter is a wider integer than the model's
\* width (no wrap, no panic).
IncrementSeqUnbounded(c) ==
    IF c.seq >= MessageLimit(c.cfg.aead) THEN Err("MessageLimitReached")
    ELSE Ok([c EXCEPT !.seq = @ + 1])

\* Context::increment_seq: the limit check, then `sequence_number += 1` on
\* a u32, which past its width panics or wraps according to the build.
IncrementSeq(c) ==
    CASE c.seq >= MessageLimit(c.cfg.aead) -> Err("MessageLimitReached")
      [] c.seq + 1 < SeqModulus           -> Ok([c EXCEPT !.seq = @ + 1])
      [] OverflowChecks                   -> Panic
      [] OTHER                            -> Ok([c EXCEPT !.seq = (@ + 1) % SeqModulus])

\* HpkeLibcrux::aead_seal: only ChaCha20-Poly1305 is supported.
AeadSeal(aead, key, nonce, aad, pt) ==
    CASE aead # "ChaCha20Poly1305" -> Err("UnknownAeadAlgorithm")
      [] nonce.len # 12            -> Err("AeadInvalidNonce")
      [] key.len # 32              -> Err("CryptoLibraryError")
      [] OTHER                     -> Ok(Ciphertext(key, nonce, aad, pt))

\* HpkeLibcrux::aead_open: a failed tag check is a CryptoLibraryError.
AeadOpen(aead, key, nonce, aad, ct) ==
    CASE aead # "ChaCha20Poly1305"           -> Err("UnknownAeadAlgorithm")
      [] ct.form = "truncated"               -> Err("AeadInvalidCiphertext")
      [] nonce.len # 12                      -> Err("AeadInvalidNonce")
      [] key.len # 32                        -> Err("CryptoLibraryError")
      [] ~Authentic(ct, key, nonce, aad)     -> Err("CryptoLibraryError")
      [] OTHER                               -> Ok(ct.pt)

\* The context after a call and what the call returns.  A panic unwinds
\* through the caller's frame and drops the context.
Outcome(c, res) == [ctx |-> c, res |-> res]

\* Context::seal: AEAD first, then increment_seq; the ciphertext is
\* returned only when both succeed.
SealOutcome(c, aad, pt) ==
    LET sealed == AeadSeal(c.cfg.aead, c.key, ComputeNonce(c), aad, pt)
        inc    == IncrementSeq(c)
    IN CASE NonceUnderflow(c) -> Outcome(NoContext, Panic)
         [] ~sealed.ok        -> Outcome(c, Err(ToHpkeError[sealed.err]))
         [] inc = Panic       -> Outcome(NoContext, Panic)
         [] ~inc.ok           -> Outcome(c, inc)
         [] OTHER             -> Outcome(inc.val, sealed)

\* Mutation of OpenOutcome: increment_seq is never called.
OpenOutcomeNoIncrement(c, aad, ct) ==
    LET opened == AeadOpen(c.cfg.aead, c.key, ComputeNonce(c), aad, ct)
    IN CASE NonceUnderflow(c) -> Outcome(NoContext, Panic)
         [] ~opened.ok        -> Outcome(c, Err(ToHpkeError[opened.err]))
         [] OTHER             -> Outcome(c, opened)

\* Mutation of OpenOutcome: the sequence number is advanced before the
\* AEAD is called, so a failed open advances it too.
OpenOutcomeEagerIncrement(c, aad, ct) ==
    LET opened == AeadOpen(c.cfg.aead, c.key, ComputeNonce(c), aad, ct)
        inc    == IncrementSeq(c)
    IN CASE NonceUnderflow(c) -> Outcome(NoContext, Panic)
         [] inc = Panic       -> Outcome(NoContext, Panic)
         [] ~inc.ok           -> Outcome(c, inc)
         [] ~opened.ok        -> Outcome(inc.val, Err(ToHpkeError[opened.err]))
         [] OTHER             -> Outcome(inc.val, opened)

\* Context::open: symmetric to seal.
OpenOutcome(c, aad, ct) ==
    LET opened == AeadOpen(c.cfg.aead, c.key, ComputeNonce(c), aad, ct)
        inc    == IncrementSeq(c)
    IN CASE NonceUnderflow(c) -> Outcome(NoContext, Panic)
         [] ~opened.ok        -> Outcome(c, Err(ToHpkeError[opened.err]))
         [] inc = Panic       -> Outcome(NoContext, Panic)
         [] ~inc.ok           -> Outcome(c, inc)
         [] OTHER             -> Outcome(inc.val, opened)

\* Context::export: LabeledExpand(exporter_secret, "sec", ctx, L).
ExportResult(c, exporterContext, len) ==
    LET r == LabeledExpand(c.cfg.kdf, c.exp, Ciphersuite(c.cfg), "sec",
                           exporterContext, len)
    IN IF r.ok THEN r ELSE Err("CryptoError")

----------------------------------------------------------------------------
(* The operations, as actions on this context.                            *)

Seal(aad, pt) ==
    /\ ctx # NoContext
    /\ LET o == SealOutcome(ctx, aad, pt)
       IN /\ ctx' = o.ctx
          /\ out' = [op |-> "seal", arg |-> pt, res |-> o.res]

Open(aad, ct) ==
    /\ ctx # NoContext
    /\ LET o == OpenOutcome(ctx, aad, ct)
       IN /\ ctx' = o.ctx
          /\ out' = [op |-> "open", arg |-> ct, res |-> o.res]

Export(exporterContext, len) ==
    /\ ctx # NoContext
    /\ out' = [op |-> "export", arg |-> exporterContext,
               res |-> ExportResult(ctx, exporterContext, len)]
    /\ UNCHANGED ctx
=============================================================================
