------------------------------- MODULE MCHpke -------------------------------
(***************************************************************************)
(* Model-checking instances of Hpke: the inputs each run enumerates.      *)
(***************************************************************************)
EXTENDS Hpke, TLC

CONSTANTS
    PskValues,    \* the contents of the non-empty psks of run "setup"
    PskIdValues   \* the contents of its non-empty psk_ids

\* Byte strings as the code tests them: emptiness and length.
Empty == [v |-> "", len |-> 0]
Psk32 == [v |-> "psk", len |-> 32]

Suite(mode, kem, aead) ==
    [mode |-> mode, kem |-> kem, kdf |-> "HkdfSha256", aead |-> aead]

\* Run "context": one Base-mode suite, repeated seals and opens.
ContextConfigs == {Suite("Base", "DhKem25519", "ChaCha20Poly1305")}
NoPsks == {Empty}

\* Run "oneshot": a DH-KEM and X-Wing, which draws from the ChaCha20
\* generator instead of the test pool.
OneShotConfigs == ContextConfigs \cup {Suite("Base", "XWingDraft06", "ChaCha20Poly1305")}

\* Run "setup": the two psk modes on X25519.  They differ in the mode, and
\* between them use every setup input: psk, psk_id and, in AuthPsk, the
\* sender's key.
SetupConfigs == {Suite(m, "DhKem25519", "ChaCha20Poly1305") : m \in PskModes}
\* Run "export_only": the export-only AEAD.
ExportOnlyConfigs == {Suite("Base", "DhKem25519", "HpkeExport")}

\* Test pools: distinct bytes.
ContextSeed == <<"b1", "b2">>
SetupSeed == <<"b1">>

\* Run "setup": psks of 32 bytes and psk_ids, so that a sender and a
\* receiver can disagree on either while both pass verify_psk_inputs; an
\* empty psk_id with a psk fails verify_psk_inputs after the draw.
SetupPsks == {[v |-> x, len |-> 32] : x \in PskValues}
SetupPskIds == {Empty} \cup {[v |-> x, len |-> 2] : x \in PskIdValues}
SetupSymmetry ==
    Permutations(ReceiverKeys) \cup Permutations(Infos) \cup Permutations(SenderKeys)
    \cup Permutations(PskValues) \cup Permutations(PskIdValues)
=============================================================================
