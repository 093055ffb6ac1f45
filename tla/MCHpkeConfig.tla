---------------------------- MODULE MCHpkeConfig ----------------------------
(***************************************************************************)
(* Model-checking instances of HpkeConfig.                                *)
(***************************************************************************)
EXTENDS HpkeConfig

Empty == [v |-> "", len |-> 0]

Suite(kem) ==
    [mode |-> "Base", kem |-> kem, kdf |-> "HkdfSha256", aead |-> "ChaCha20Poly1305"]

\* X25519, P-256 (rejection sampling), P-384 (which libcrux lacks) and X-Wing
\* (ChaCha20 encapsulation).
KemConfigs == {Suite(k) : k \in {"DhKem25519", "DhKemP256", "DhKemP384", "XWingDraft06"}}

NoPsks == {Empty}
MCReceiverPk == PublicKey("r1")

\* DeriveKeyPair tries 255 candidates; the model tries 16 (TLC evaluates
\* the recursion on its stack).  The cases that matter are kept: k1's
\* first candidate is rejected, k2's only valid candidate is the last one,
\* k3 has none.
MCCandidateLimit == 16
MCInvalidScalars ==
    {Candidate("k1", 0)}
    \cup {Candidate("k2", c) : c \in 0..(MCCandidateLimit - 2)}
    \cup {Candidate("k3", c) : c \in 0..(MCCandidateLimit - 1)}

\* A test seed of one byte.
MCTestSeeds == {<<"t1">>}
=============================================================================
