-------------------------------- MODULE Hpke --------------------------------
(***************************************************************************)
(* The HPKE facade of src/src/lib.rs (struct Hpke).  It covers            *)
(* setup_sender, setup_receiver, and the single-shot seal, open,          *)
(* send_export and receiver_export.  These drive two encryption contexts, *)
(* the sender's and the receiver's, which talk over a network the model's *)
(* adversary controls.                                                     *)
(*                                                                         *)
(* Each party holds one current context.  A new successful setup replaces *)
(* that context, and a failed one leaves it in place.  A single-shot call *)
(* sets up a context of its own, uses it once and drops it.               *)
(*                                                                         *)
(* The sender's config owns the PRNG.  A DH-KEM encapsulation draws its   *)
(* ephemeral key from the test pool (module Prng).  X-Wing draws from the *)
(* provider's ChaCha20 generator, which here is only a count of draws.    *)
(*                                                                         *)
(* The encapsulated key `enc` is published, and a receiver may set up     *)
(* from any published enc.  Ciphertexts stay in `net` once sent.  So the  *)
(* receiver may open any of them, in any order, any number of times: this *)
(* models reordering and duplication, and loss is a ciphertext never      *)
(* opened.  The network may also tamper with a ciphertext on its way.     *)
(*                                                                         *)
(* The code keeps none of these history variables:                        *)
(*   - `sent`: every ciphertext sealed, with the sender's setup inputs;   *)
(*   - `accepted`: the ciphertexts the current receiver context opened;   *)
(*   - `opened1`: those the single-shot open accepted;                    *)
(*   - `sparams` and `rparams`: the setup inputs of the current contexts; *)
(*   - `poolDraws`: the number of draws setups made from the pool.        *)
(***************************************************************************)
EXTENDS Naturals, Sequences, SequencesExt, Setup

CONSTANTS
    Configs,          \* the (mode, kem, kdf, aead) a party may pass to Hpke::new
    SenderKeys,       \* the sender's static private keys (Auth modes)
    ReceiverKeys,     \* the receivers' private keys
    Seed,             \* the initial test pool of the sender's config
    MaxRngDraws,      \* bound on draws from the ChaCha20 generator (X-Wing)
    Psks, PskIds,     \* byte strings [v, len] passed as psk / psk_id
    Infos, Aads, Plaintexts,
    ExporterContexts, ExportLengths,
    MaxSeals,         \* bound on the ciphertexts the sender produces
    MaxOpens,         \* bound on the opens one receiver context accepts
    SingleShotApi,    \* TRUE: the callers also use the single-shot APIs
    SeqBits, NonceLimit, OverflowChecks, NoContext,
    EncFaults         \* TRUE: the network also alters published encs

\* The seed's bytes stand for random bytes: no two are the same.
ASSUME /\ MaxSeals \in Nat /\ MaxOpens \in Nat /\ MaxRngDraws \in Nat
       /\ KeyLen \in Nat \ {0} /\ IsInjective(Seed)
       /\ SingleShotApi \in BOOLEAN /\ EncFaults \in BOOLEAN

VARIABLES
    sctx, sout,       \* the sender's context and the result of its last call
    rctx, rout,       \* the receiver's context and the result of its last call
    sparams, rparams, \* setup inputs of the current contexts (history)
    prng,             \* the sender config's PRNG: [pool, stream, chacha]
    poolDraws,        \* history: draws setups made from the pool
    encs,             \* published encapsulated keys
    net,              \* ciphertexts on the network
    sent,             \* history: <<[ct, from]>> of every ciphertext sealed
    accepted,         \* history: ciphertexts the current receiver context opened
    opened1           \* history: [ct, p] the single-shot open accepted

vars == <<sctx, sout, rctx, rout, sparams, rparams, prng, poolDraws, encs,
          net, sent, accepted, opened1>>

S == INSTANCE HpkeContext WITH ctx <- sctx, out <- sout
R == INSTANCE HpkeContext WITH ctx <- rctx, out <- rout

NoOutput == [op |-> "none", arg |-> None, res |-> Err("none")]

SenderInputs ==
    [cfg: Configs, pkR: {PublicKey(r) : r \in ReceiverKeys}, info: Infos,
     psk: Psks, pskId: PskIds, skS: SenderKeys \cup {None}]

ReceiverInputsFrom(E) ==
    [cfg: Configs, enc: E, skR: ReceiverKeys, info: Infos, psk: Psks,
     pskId: PskIds, pkS: {PublicKey(s) : s \in SenderKeys} \cup {None}]

\* An enc with bits flipped on the wire: well formed, but the encoding of
\* a key (or X-Wing ciphertext) that no sender drew.
Tampered(enc) == PublicKey(<<"tampered", enc.pk>>)

\* The encs a receiver may be handed: the published ones and, under
\* EncFaults, each altered or cut short.
DeliveredEncs(E) ==
    E \cup IF EncFaults THEN {Tampered(e) : e \in E} \cup {Truncated(e) : e \in E}
           ELSE {}

ReceiverInputs == ReceiverInputsFrom(DeliveredEncs(encs))

----------------------------------------------------------------------------
(* Hpke::setup_sender and Hpke::setup_receiver.                            *)

\* The ChaCha20 generator is bounded in the model only (MaxRngDraws): a
\* setup that would draw from it once the bound is used up is not taken.
CanDraw(p) ==
    \/ p.cfg.kem \in DhKems
    \/ p.cfg.mode \in AuthModes
    \/ prng.chacha < MaxRngDraws

\* The setup with inputs p draws from the pool: a DH-KEM's encaps asks
\* Hpke::random for the ephemeral key once the Auth-mode checks pass, and
\* the pool answered with bytes.  Whatever the setup does afterwards, the
\* draw was made.
DrewFromPool(p) ==
    /\ p.cfg.kem \in DhKems
    /\ ~(p.cfg.mode \in AuthModes /\ p.skS = None)
    /\ EphemeralDraw(p.cfg.kem, prng).ok

\* The PRNG after the setup with inputs p, and the draw it made.
UsePrng(p, g) ==
    /\ prng' = g
    /\ poolDraws' = IF DrewFromPool(p) THEN poolDraws + 1 ELSE poolDraws

SetupSender ==
    /\ \E p \in SenderInputs :
        LET o == SenderSetup(p, prng)
        IN /\ CanDraw(p)
           /\ UsePrng(p, o.prng)
           /\ sout' = [op |-> "setup", arg |-> None,
                       res |-> IF o.res.ok THEN Ok(o.res.val.enc) ELSE o.res]
           /\ IF o.res.ok
              THEN /\ sctx' = o.res.val.ctx
                   /\ sparams' = p
                   /\ encs' = encs \cup {o.res.val.enc}
              ELSE UNCHANGED <<sctx, sparams, encs>>
    /\ UNCHANGED <<rctx, rout, rparams, net, sent, accepted, opened1>>

SetupReceiver ==
    /\ \E p \in ReceiverInputs :
        LET o == ReceiverSetup(p)
        IN /\ rout' = [op |-> "setup", arg |-> p.enc,
                       res |-> IF o.ok THEN Ok("context") ELSE o]
           /\ IF o.ok
              THEN /\ rctx' = o.val
                   /\ rparams' = p
                   /\ accepted' = <<>>
              ELSE UNCHANGED <<rctx, rparams, accepted>>
    /\ UNCHANGED <<sctx, sout, sparams, prng, poolDraws, encs, net, sent, opened1>>

----------------------------------------------------------------------------
(* Context calls of the two parties, and the network.                     *)

SenderSeal ==
    /\ Len(sent) < MaxSeals
    /\ \E aad \in Aads, pt \in Plaintexts : S!Seal(aad, pt)
    /\ IF sout'.res.ok
       THEN /\ net' = net \cup {sout'.res.val}
            /\ sent' = Append(sent, [ct |-> sout'.res.val, from |-> sparams])
       ELSE UNCHANGED <<net, sent>>
    /\ UNCHANGED <<rctx, rout, sparams, rparams, prng, poolDraws, encs,
                   accepted, opened1>>

\* What the network may deliver for ct: the ciphertext, a copy with bits
\* flipped, or a copy cut below the 16-byte tag.
Delivered(ct) == {[ct EXCEPT !.form = f] : f \in {"sealed", "forged", "truncated"}}

ReceiverOpen ==
    /\ Len(accepted) < MaxOpens
    /\ \E aad \in Aads, ct \in UNION {Delivered(c) : c \in net} : R!Open(aad, ct)
    /\ accepted' = IF rout'.res.ok THEN Append(accepted, rout'.arg) ELSE accepted
    /\ UNCHANGED <<sctx, sout, sparams, rparams, prng, poolDraws, encs, net,
                   sent, opened1>>

SenderExport ==
    /\ \E ec \in ExporterContexts, len \in ExportLengths : S!Export(ec, len)
    /\ UNCHANGED <<rctx, rout, sparams, rparams, prng, poolDraws, encs, net,
                   sent, accepted, opened1>>

ReceiverExport ==
    /\ \E ec \in ExporterContexts, len \in ExportLengths : R!Export(ec, len)
    /\ UNCHANGED <<sctx, sout, sparams, rparams, prng, poolDraws, encs, net,
                   sent, accepted, opened1>>

----------------------------------------------------------------------------
(* The single-shot APIs: a setup and one call on a context that is then   *)
(* dropped.  The caller's own contexts are untouched.                     *)

\* Hpke::seal: setup_sender, then Context::seal; enc and the ciphertext
\* are returned only if both succeed.
SingleShotSeal ==
    /\ SingleShotApi
    /\ Len(sent) < MaxSeals
    /\ \E p \in SenderInputs, aad \in Aads, pt \in Plaintexts :
        LET o == SenderSetup(p, prng)
            c == S!SealOutcome(o.res.val.ctx, aad, pt)
            res == IF ~o.res.ok THEN o.res ELSE c.res
        IN /\ CanDraw(p)
           /\ UsePrng(p, o.prng)
           /\ sout' = [op |-> "single_seal", arg |-> pt, res |-> res]
           /\ IF res.ok
              THEN /\ encs' = encs \cup {o.res.val.enc}
                   /\ net' = net \cup {res.val}
                   /\ sent' = Append(sent, [ct |-> res.val, from |-> p])
              ELSE UNCHANGED <<encs, net, sent>>
    /\ UNCHANGED <<sctx, rctx, rout, sparams, rparams, accepted, opened1>>

\* Hpke::open: setup_receiver, then Context::open.
SingleShotOpen ==
    /\ SingleShotApi
    /\ \E p \in ReceiverInputs, aad \in Aads, ct \in UNION {Delivered(c) : c \in net} :
        LET o == ReceiverSetup(p)
            res == IF o.ok THEN R!OpenOutcome(o.val, aad, ct).res ELSE o
        IN /\ rout' = [op |-> "single_open", arg |-> ct, res |-> res]
           /\ opened1' = IF res.ok THEN opened1 \cup {[ct |-> ct, p |-> p]}
                         ELSE opened1
    /\ UNCHANGED <<sctx, sout, rctx, sparams, rparams, prng, poolDraws, encs,
                   net, sent, accepted>>

\* Hpke::send_export: setup_sender, then Context::export.
SendExport ==
    /\ SingleShotApi
    /\ \E p \in SenderInputs, ec \in ExporterContexts, len \in ExportLengths :
        LET o == SenderSetup(p, prng)
            res == IF o.res.ok THEN S!ExportResult(o.res.val.ctx, ec, len) ELSE o.res
        IN /\ CanDraw(p)
           /\ UsePrng(p, o.prng)
           /\ sout' = [op |-> "send_export", arg |-> ec, res |-> res]
           /\ encs' = IF res.ok THEN encs \cup {o.res.val.enc} ELSE encs
    /\ UNCHANGED <<sctx, rctx, rout, sparams, rparams, net, sent, accepted, opened1>>

\* Hpke::receiver_export: setup_receiver, then Context::export.
ReceiverExportOnce ==
    /\ SingleShotApi
    /\ \E p \in ReceiverInputs, ec \in ExporterContexts, len \in ExportLengths :
        LET o == ReceiverSetup(p)
        IN rout' = [op |-> "receiver_export", arg |-> ec,
                    res |-> IF o.ok THEN R!ExportResult(o.val, ec, len) ELSE o]
    /\ UNCHANGED <<sctx, sout, rctx, sparams, rparams, prng, poolDraws, encs,
                   net, sent, accepted, opened1>>

Init ==
    /\ sctx = NoContext /\ rctx = NoContext
    /\ sout = NoOutput /\ rout = NoOutput
    /\ sparams = None /\ rparams = None
    /\ prng = [pool |-> Seed, stream |-> 0, chacha |-> 0]
    /\ poolDraws = 0
    /\ encs = {} /\ net = {}
    /\ sent = <<>> /\ accepted = <<>> /\ opened1 = {}

Next ==
    \/ SetupSender
    \/ SetupReceiver
    \/ SenderSeal
    \/ ReceiverOpen
    \/ SenderExport
    \/ ReceiverExport
    \/ SingleShotSeal
    \/ SingleShotOpen
    \/ SendExport
    \/ ReceiverExportOnce

Spec == Init /\ [][Next]_vars

----------------------------------------------------------------------------
(* The secure channel the contexts implement.  A session is an AEAD key.  *)
(* The sender's log for a key holds the plaintexts sealed under it.  The   *)
(* receiver's session is the key of its live context, and it has           *)
(* delivered the plaintexts that context opened.                          *)

\* The ciphertexts sealed under AEAD key k, in the order they were sealed.
SealedUnder(k) == [i \in 1..Len(SelectSeq(sent, LAMBDA s : s.ct.key = k)) |->
                      SelectSeq(sent, LAMBDA s : s.ct.key = k)[i].ct]

Plain(cts) == [i \in 1..Len(cts) |-> cts[i].pt]

\* The states of the PRNG a setup can start from (as far as the draw it
\* makes is concerned), the ephemeral keys they give, and every AEAD key a
\* setup can derive from those keys.
PrngStates ==
    {[pool |-> SubSeq(Seed, i, i + KeyLen - 1), stream |-> 0, chacha |-> n] :
        i \in 1..(Len(Seed) - KeyLen + 1), n \in 0..MaxRngDraws}

EphemeralKeys ==
    {SubSeq(Seed, i, i + KeyLen - 1) : i \in 1..(Len(Seed) - KeyLen + 1)}
    \cup {<<"chacha", 0, n>> : n \in 0..MaxRngDraws}

SessionKeys ==
    LET sends == {SenderSetup(p, g).res : p \in SenderInputs, g \in PrngStates}
        recvs == {ReceiverSetup(p) :
                     p \in ReceiverInputsFrom(DeliveredEncs({PublicKey(e) : e \in EphemeralKeys}))}
    IN {o.val.ctx.key : o \in {x \in sends : x.ok}} \cup {o.val.key : o \in {x \in recvs : x.ok}}

Channel == INSTANCE SecureChannel WITH
    Sessions  <- SessionKeys,
    Msgs      <- Plaintexts,
    NoSession <- NoContext,
    logs      <- [k \in {s.ct.key : s \in Range(sent)} |-> Plain(SealedUnder(k))],
    cur       <- IF rctx = NoContext THEN NoContext ELSE rctx.key,
    got       <- IF rctx = NoContext THEN <<>> ELSE Plain(accepted)

----------------------------------------------------------------------------
(* Properties.                                                             *)

OutputOK(o) ==
    /\ o.op \in {"none", "setup", "seal", "open", "export", "single_seal",
                 "single_open", "send_export", "receiver_export"}
    /\ o.res.ok \in BOOLEAN
    /\ ~o.res.ok => o.res.err \in HpkeErrors \cup {"none"}

ContextOK(c) ==
    c = NoContext \/ (c.seq \in 0..(S!SeqModulus - 1) /\ c.cfg \in Configs)

TypeOK ==
    /\ ContextOK(sctx) /\ ContextOK(rctx)
    /\ OutputOK(sout) /\ OutputOK(rout)
    /\ sparams \in SenderInputs \cup {None}
    /\ prng.chacha \in 0..MaxRngDraws /\ IsPrefix(prng.pool, Seed)
    /\ encs \subseteq {PublicKey(e) : e \in EphemeralKeys}
    /\ Len(sent) <= MaxSeals /\ Len(accepted) <= MaxOpens
    /\ \A ct \in net : ct.form = "sealed"

\* Nonce uniqueness (RFC 9180 5.2).  No two ciphertexts the sender
\* produces are sealed under the same key and the same nonce.  This covers
\* its contexts and its single-shot calls alike.  It rests on
\* Context::seal with compute_nonce and increment_seq, and on every
\* setup_sender drawing a fresh ephemeral key.
NonceUnique ==
    \A i, j \in 1..Len(sent) :
        i < j /\ sent[i].ct.key = sent[j].ct.key
            => sent[i].ct.nonce # sent[j].ct.nonce

\* The receiver's context behaves as a secure channel (module
\* SecureChannel).  Each successful Context::open delivers the next
\* plaintext sealed under its key: none is skipped, replayed, reordered or
\* forged.  A setup_receiver joins a session afresh.
ChannelRefinement == Channel!Spec

\* Context::sequence_number counts the successful calls on its context
\* (seals for the sender, opens for the receiver) modulo the counter's
\* width: a failed seal or open never advances it.
CountersTrackHistory ==
    /\ sctx # NoContext => sctx.seq = Len(SealedUnder(sctx.key)) % S!SeqModulus
    /\ rctx # NoContext => rctx.seq = Len(accepted) % R!SeqModulus

\* The test pool is consumed exactly (try_fill_test_bytes through
\* Hpke::random).  After any sequence of setups it is the seed less the
\* KeyLen bytes of every draw a setup made, taken from the end, including
\* the draws of setups that then failed in key_schedule.  And a setup is
\* refused for InsufficientRandomness only once the draws made so far
\* have used up every whole key the seed holds.
PoolAccounting ==
    /\ prng.pool = SubSeq(Seed, 1, Len(Seed) - KeyLen * poolDraws)
    /\ sout.res = Err("InsufficientRandomness") => poolDraws = Len(Seed) \div KeyLen

\* The setup inputs of a sender and a receiver agree: same suite and mode,
\* same info, psk and psk_id, the receiver holds the key the sender
\* encrypted to, and in the Auth modes it names the sender's public key.
Agree(sp, rp) ==
    /\ sp.cfg = rp.cfg /\ sp.info = rp.info
    /\ sp.psk = rp.psk /\ sp.pskId = rp.pskId
    /\ sp.pkR = PublicKey(rp.skR)
    /\ sp.cfg.mode \in AuthModes => rp.pkS = PublicKey(sp.skS)

\* Key agreement binds every setup input: a receiver context opens a
\* ciphertext only if the sender sealed it in a context whose setup_sender
\* inputs agree with this context's setup_receiver inputs.
OpenImpliesAgreement ==
    \A i \in 1..Len(accepted) :
        \E j \in 1..Len(sent) :
            sent[j].ct = accepted[i] /\ Agree(sent[j].from, rparams)

\* The enc is bound into the session: a receiver context that has opened
\* a ciphertext was set up from an enc exactly as a sender published it.
\* One altered on the wire derives another key (kem::decaps), and one cut
\* short is refused (the provider's kem_decaps, or the DH-KEM's decoding).
OpenOnlyUnderPublishedEnc ==
    Len(accepted) > 0 => rparams.enc \in encs

\* Hpke::open sets up a fresh context at sequence number 0.  So it accepts
\* only a ciphertext sealed by an agreeing sender, and only the first one
\* sealed under that key: a later message of a multi-message session never
\* opens in single-shot.
SingleOpenOnlyFirst ==
    \A x \in opened1 :
        /\ \E j \in 1..Len(sent) : sent[j].ct = x.ct /\ Agree(sent[j].from, x.p)
        /\ SealedUnder(x.ct.key)[1] = x.ct

\* Spec sections 4.1 and 7: a ciphertext whose tag does not verify makes
\* Context::open fail with OpenError (the error the crate's From impl maps
\* the provider's AeadOpenError to).
OpenFailureIsOpenError ==
    /\ rout.op = "open" /\ rout.arg.form = "forged"
    /\ rctx # NoContext /\ rctx.cfg.aead = "ChaCha20Poly1305"
    => rout.res = Err("OpenError")

\* Spec section 4.3 (edge-case policies) and section 8 (boundary
\* behaviours): setup_receiver with an enc truncated on the wire fails with
\* KemInvalidPublicKey, which the crate's From impl reports as CryptoError.
TruncatedEncIsKemInvalidPublicKey ==
    rout.op = "setup" /\ IsShort(rout.arg)
        => rout.res = Err(ToHpkeError["KemInvalidPublicKey"])

\* Spec section 4.4: with the export-only AEAD, Context::seal and
\* Context::open return InvalidConfig.
ExportOnlySealIsInvalidConfig ==
    sout.op = "seal" /\ sparams.cfg.aead = "HpkeExport"
        => sout.res = Err("InvalidConfig")
=============================================================================
