-------------------------------- MODULE Setup -------------------------------
(***************************************************************************)
(* Hpke::setup_sender and Hpke::setup_receiver of src/src/lib.rs as pure  *)
(* operators over the PRNG state of the calling config.                   *)
(*                                                                         *)
(* A PRNG state g is a record [pool, stream, chacha]: the bytes left in   *)
(* the deterministic test pool (module Prng), the identity of the         *)
(* ChaCha20 generator Crypto::prng() seeded from the OS, and the number  *)
(* of draws taken from it.  Two generators seeded apart never give the    *)
(* same output, so a ChaCha20 draw is the pair (stream, draw number).     *)
(***************************************************************************)
EXTENDS Naturals, Sequences, HpkeTypes, KeySchedule, Kem, Prng, Provider

CONSTANTS
    KeyLen,     \* Nsk: bytes one DH ephemeral key draws (32 for X25519)
    None        \* model value: an absent Option argument

\* kem::encaps: the ephemeral randomness.  A DH-KEM takes Nsk bytes from
\* Hpke::random; X-Wing passes the ChaCha20 generator to kem_encaps.
EphemeralDraw(kem, g) ==
    IF kem \in DhKems
    THEN LET r == Random(g.pool, KeyLen)
         IN IF r.ok THEN Ok([sk |-> r.val.out, prng |-> [g EXCEPT !.pool = r.val.pool]])
            ELSE r
    ELSE Ok([sk |-> FillBytes(g).out, prng |-> FillBytes(g).prng])

\* The provider call of the DH-KEM after the draw (secret_to_public, then
\* dh) refuses a curve libcrux_ecdh does not implement.
EcdhRefused(kem) == kem \in DhKems /\ ~KemKeyTypeToEcdhAlg(kem).ok

\* Mutation of SenderSetup: a setup that fails in key_schedule hands back
\* the PRNG as it was before the draw.
SenderSetupRestoresPrng(p, g) ==
    LET auth == p.cfg.mode \in AuthModes
        draw == EphemeralDraw(p.cfg.kem, g)
        kem  == IF auth THEN AuthEncaps(p.cfg.kem, p.pkR, p.skS, draw.val.sk)
                ELSE Encaps(p.cfg.kem, p.pkR, draw.val.sk)
        ks   == KeySchedule(p.cfg, kem.val.zz, p.info, p.psk, p.pskId)
    IN CASE auth /\ p.skS = None           -> [res |-> Err("InvalidInput"), prng |-> g]
         [] auth /\ p.cfg.kem \notin DhKems ->
                [res |-> Err(ToHpkeError["UnsupportedKemOperation"]), prng |-> g]
         [] ~draw.ok -> [res |-> draw, prng |-> g]
         [] EcdhRefused(p.cfg.kem) ->
                [res |-> Err(ToHpkeError["UnknownKemAlgorithm"]), prng |-> draw.val.prng]
         [] ~ks.ok   -> [res |-> ks, prng |-> g]
         [] OTHER    -> [res |-> Ok([ctx |-> ks.val, enc |-> kem.val.enc]),
                         prng |-> draw.val.prng]

\* setup_sender: the result and the PRNG after it.  In the Auth modes a
\* missing sk_s, or a KEM without authentication, fails before randomness
\* is drawn.  A curve the provider lacks, and the psk checks of
\* key_schedule, fail after the draw.
SenderSetup(p, g) ==
    LET auth == p.cfg.mode \in AuthModes
        draw == EphemeralDraw(p.cfg.kem, g)
        kem  == IF auth THEN AuthEncaps(p.cfg.kem, p.pkR, p.skS, draw.val.sk)
                ELSE Encaps(p.cfg.kem, p.pkR, draw.val.sk)
        ks   == KeySchedule(p.cfg, kem.val.zz, p.info, p.psk, p.pskId)
    IN CASE auth /\ p.skS = None           -> [res |-> Err("InvalidInput"), prng |-> g]
         [] auth /\ p.cfg.kem \notin DhKems ->
                [res |-> Err(ToHpkeError["UnsupportedKemOperation"]), prng |-> g]
         [] ~draw.ok -> [res |-> draw, prng |-> g]
         [] EcdhRefused(p.cfg.kem) ->
                [res |-> Err(ToHpkeError["UnknownKemAlgorithm"]), prng |-> draw.val.prng]
         [] ~ks.ok   -> [res |-> ks, prng |-> draw.val.prng]
         [] OTHER    -> [res |-> Ok([ctx |-> ks.val, enc |-> kem.val.enc]),
                         prng |-> draw.val.prng]

\* setup_receiver: decapsulation by mode, then key_schedule.  kem::decaps
\* hands a non-DH KEM (X-Wing) to the provider's kem_decaps.
ReceiverSetup(p) ==
    LET kem == CASE p.cfg.mode \in AuthModes -> AuthDecaps(p.cfg.kem, p.enc, p.skR, p.pkS)
                 [] p.cfg.kem \in DhKems     -> Decaps(p.cfg.kem, p.enc, p.skR)
                 [] OTHER                    -> KemDecaps(p.cfg.kem, p.enc, p.skR)
    IN CASE p.cfg.mode \in AuthModes /\ p.pkS = None -> Err("InvalidInput")
         [] EcdhRefused(p.cfg.kem) -> Err(ToHpkeError["UnknownKemAlgorithm"])
         [] ~kem.ok -> Err(ToHpkeError[kem.err])
         [] OTHER   -> KeySchedule(p.cfg, kem.val, p.info, p.psk, p.pskId)

=============================================================================
