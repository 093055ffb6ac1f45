-------------------------------- MODULE Kem --------------------------------
(***************************************************************************)
(* The KEM layer (kem.rs and dh_kem.rs, not under src/), modelled from    *)
(* the spec, section 4.3, as pure operators.                              *)
(*                                                                         *)
(* A private key is a model value and its public key the record holding  *)
(* it.  Diffie-Hellman is the unordered pair of the two private keys, so *)
(* DH(a, pk(b)) = DH(b, pk(a)) as on a curve, and nothing else is equal. *)
(* The X-Wing KEM's encapsulation is abstracted the same way: its shared *)
(* secret depends on the ephemeral randomness and the receiver key only. *)
(***************************************************************************)
EXTENDS HpkeTypes

PublicKey(sk) == [pk |-> sk]

\* An enc or public key that is not Npk bytes long (cut short on the wire).
Truncated(pk) == [pk |-> pk.pk, short |-> TRUE]

IsShort(pk) == "short" \in DOMAIN pk

DH(sk, pk) == {sk, pk.pk}

\* ExtractAndExpand(dh, kem_context) under the KEM suite "KEM" || I2OSP(kem, 2).
ExtractAndExpand(kem, dh, kemContext) ==
    [suite |-> <<"KEM", KemId[kem]>>, dh |-> dh, ctx |-> kemContext]

\* Encap(pk_r) with the ephemeral key e drawn from the PRNG.
Encaps(kem, pkR, e) ==
    Ok([zz  |-> ExtractAndExpand(kem, DH(e, pkR), <<PublicKey(e), pkR>>),
        enc |-> PublicKey(e)])

\* AuthEncap(pk_r, sk_s): only the DH-KEMs authenticate.
AuthEncaps(kem, pkR, skS, e) ==
    IF kem \notin DhKems THEN Err("UnsupportedKemOperation")
    ELSE Ok([zz  |-> ExtractAndExpand(kem, <<DH(e, pkR), DH(skS, pkR)>>,
                                      <<PublicKey(e), pkR, PublicKey(skS)>>),
             enc |-> PublicKey(e)])

\* Decap(enc, sk_r) of a DH-KEM: an enc of the wrong length does not
\* deserialize (section 4.3, edge-case policies).
Decaps(kem, enc, skR) ==
    IF IsShort(enc) THEN Err("KemInvalidPublicKey")
    ELSE Ok(ExtractAndExpand(kem, DH(skR, enc), <<enc, PublicKey(skR)>>))

\* AuthDecap(enc, sk_r, pk_s).
AuthDecaps(kem, enc, skR, pkS) ==
    CASE kem \notin DhKems -> Err("UnsupportedKemOperation")
      [] IsShort(enc)      -> Err("KemInvalidPublicKey")
      [] OTHER -> Ok(ExtractAndExpand(kem, <<DH(skR, enc), DH(skR, pkS)>>,
                             <<enc, PublicKey(skR), pkS>>))
=============================================================================
