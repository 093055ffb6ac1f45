---------------------------- MODULE KeySchedule ----------------------------
(***************************************************************************)
(* The HPKE key schedule of src/src/lib.rs: Hpke::verify_psk_inputs,      *)
(* ciphersuite, key_schedule_context and key_schedule, as pure operators. *)
(*                                                                         *)
(* The labelled HKDF of kdf.rs (not under src/) is modelled from the spec *)
(* (section 4.2) as a random oracle: an output is the record of all of    *)
(* its inputs, so two outputs are equal exactly when every input is.      *)
(* A byte string the caller passes (psk, psk_id) is a record with a       *)
(* length, since the code tests emptiness and length only.                *)
(***************************************************************************)
EXTENDS Naturals, HpkeTypes

\* The empty byte string: what `psk.unwrap_or_default()` gives for None.
IsEmpty(bytes) == bytes.len = 0

\* LabeledExtract(salt, suite_id, label, ikm) of kdf.rs.
LabeledExtract(salt, suite, label, ikm) ==
    [salt |-> salt, suite |-> suite, label |-> label, ikm |-> ikm]

\* LabeledExpand(prk, suite_id, label, info, L) of kdf.rs: HKDF-Expand
\* fails when L exceeds 255 * Nh.
LabeledExpand(kdf, prk, suite, label, info, len) ==
    IF len > 255 * KdfDigestLength[kdf]
    THEN Err("CryptoLibraryError")
    ELSE Ok([prk |-> prk, suite |-> suite, label |-> label, info |-> info,
             len |-> len])

\* Hpke::verify_psk_inputs: the first failing check gives the error.
VerifyPskInputs(mode, psk, pskId) ==
    LET gotPsk   == ~IsEmpty(psk)
        gotPskId == ~IsEmpty(pskId)
    IN CASE gotPsk # gotPskId                         -> Err("InconsistentPsk")
         [] gotPsk /\ mode \in {"Base", "Auth"}       -> Err("UnnecessaryPsk")
         [] ~gotPsk /\ mode \in PskModes              -> Err("MissingPsk")
         [] mode \in PskModes /\ psk.len < 32         -> Err("InsecurePsk")
         [] OTHER                                     -> Ok("psk")

\* Hpke::ciphersuite: "HPKE" || I2OSP(kem, 2) || I2OSP(kdf, 2) || I2OSP(aead, 2).
Ciphersuite(cfg) == <<"HPKE", KemId[cfg.kem], KdfId[cfg.kdf], AeadId[cfg.aead]>>

\* Mutation of KeyScheduleContext: psk_id_hash left out.
KeyScheduleContextNoPskId(cfg, info, pskId, suite) ==
    <<ModeId[cfg.mode], LabeledExtract(<<0>>, suite, "info_hash", info)>>

\* Hpke::key_schedule_context: mode byte || psk_id_hash || info_hash.
KeyScheduleContext(cfg, info, pskId, suite) ==
    <<ModeId[cfg.mode],
      LabeledExtract(<<0>>, suite, "psk_id_hash", pskId),
      LabeledExtract(<<0>>, suite, "info_hash", info)>>

\* Hpke::key_schedule: the fields of the new Context, or the error.
\* (The three expansions ask for at most Nh bytes and cannot fail.)
KeySchedule(cfg, sharedSecret, info, psk, pskId) ==
    LET check  == VerifyPskInputs(cfg.mode, psk, pskId)
        suite  == Ciphersuite(cfg)
        ksc    == KeyScheduleContext(cfg, info, pskId, suite)
        secret == LabeledExtract(sharedSecret, suite, "secret", psk)
        Expand(label, len) == LabeledExpand(cfg.kdf, secret, suite, label, ksc, len).val
    IN IF ~check.ok THEN check
       ELSE Ok([key   |-> Expand("key", AeadKeyLength[cfg.aead]),
                nonce |-> [base |-> Expand("base_nonce", AeadNonceLength[cfg.aead]),
                           len  |-> AeadNonceLength[cfg.aead]],
                exp   |-> Expand("exp", KdfDigestLength[cfg.kdf]),
                seq   |-> 0,
                cfg   |-> cfg])
=============================================================================
