---------------------------- MODULE PrivateKeyEq ----------------------------
(***************************************************************************)
(* impl PartialEq for HpkePrivateKey (src/src/lib.rs), the comparison the *)
(* crate documents as constant time: OR together the XOR of every byte    *)
(* pair, then turn "accumulator is zero" into a bool without a branch.    *)
(* All arithmetic is on u8, so it is kept modulo 2^8.                     *)
(*                                                                         *)
(* Two keys of at most MaxKeyLen bytes drawn from Bytes are chosen in the *)
(* initial state; the check is that the comparison is byte equality.      *)
(***************************************************************************)
EXTENDS Naturals, Sequences, SequencesExt, Bitwise

CONSTANTS Bytes, MaxKeyLen

ASSUME Bytes \subseteq 0..255 /\ MaxKeyLen \in Nat

VARIABLES a, b

U8 == 256

\* u8::wrapping_sub.
WrappingSub(x, y) == (x - y + U8) % U8

\* u8::wrapping_shr: the shift amount is taken modulo the bit width, so a
\* shift by 8 shifts by 0.
WrappingShr(x, n) == shiftR(x, n % 8)

\* different_bits |= byte_a ^ byte_b over the zipped bytes.
RECURSIVE DifferentBits(_, _, _)
DifferentBits(x, y, i) ==
    IF i > Len(x) THEN 0
    ELSE (x[i] ^^ y[i]) | DifferentBits(x, y, i + 1)

\* HpkePrivateKey::eq: unequal lengths return early; otherwise
\* (1u8 & ((different_bits.wrapping_sub(1)).wrapping_shr(8)).wrapping_sub(1)) == 0.
PrivateKeyEq(x, y) ==
    IF Len(x) # Len(y) THEN FALSE
    ELSE LET d == DifferentBits(x, y, 1)
         IN (1 & WrappingSub(WrappingShr(WrappingSub(d, 1), 8), 1)) = 0

Keys == BoundedSeq(Bytes, MaxKeyLen)

Init == a \in Keys /\ b \in Keys

Next == UNCHANGED <<a, b>>

Spec == Init /\ [][Next]_<<a, b>>

\* The equality the crate offers on private keys is equality of the key
\* bytes (spec section 3: constant-time equality over equal-length keys).
EqIsByteEquality == PrivateKeyEq(a, b) = (a = b)
=============================================================================
