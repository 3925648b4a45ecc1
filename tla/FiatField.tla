----------------------------- MODULE FiatField -----------------------------
(***************************************************************************)
(* The formally generated backends (fiat_u64/field.rs, fiat_u32/field.rs): *)
(* thin wrappers of the fiat-crypto library, whose functions are external. *)
(* Its contract is about bounds: an element is "tight" or "loose", and     *)
(* each function states which it takes and which it returns.  An element   *)
(* here is its value modulo FiatP and that bound; a call that breaks the   *)
(* contract returns "broken".                                              *)
(***************************************************************************)
EXTENDS Integers

CONSTANT FiatP
ASSUME FiatAssumption == FiatP \in Nat /\ FiatP > 2

Tight(v) == [bound |-> "tight", v |-> v % FiatP]
Loose(v) == [bound |-> "loose", v |-> v % FiatP]
Broken == [bound |-> "broken", v |-> 0]
NotTight(S) == \E x \in S : x.bound # "tight"

\* fiat_crypto::curve25519_64 and curve25519_32
fiat_25519_add(x, y) == IF NotTight({x, y}) THEN Broken ELSE Loose(x.v + y.v)
fiat_25519_sub(x, y) == IF NotTight({x, y}) THEN Broken ELSE Loose(x.v - y.v)
fiat_25519_opp(x) == IF NotTight({x}) THEN Broken ELSE Loose(-x.v)
fiat_25519_carry(x) == IF x.bound = "broken" THEN Broken ELSE Tight(x.v)
fiat_25519_carry_mul(x, y) == IF "broken" \in {x.bound, y.bound} THEN Broken ELSE Tight(x.v * y.v)
fiat_25519_carry_square(x) == fiat_25519_carry_mul(x, x)

\* fiat_u64/field.rs
FiatAdd64(x, y) == fiat_25519_carry(fiat_25519_add(x, y))
FiatSub64(x, y) == fiat_25519_carry(fiat_25519_sub(x, y))
FiatMul64(x, y) == fiat_25519_carry_mul(x, y)
FiatNeg64(x) == fiat_25519_carry(fiat_25519_opp(x))
FiatConstants64 == [zero |-> Tight(0), one |-> Tight(1), minus_one |-> Tight(FiatP - 1)]
FiatPow2k64(x, k) == LET p[j \in 0..k] == IF j = 0 THEN x ELSE fiat_25519_carry_square(p[j - 1]) IN p[k]
FiatSquare64(x) == fiat_25519_carry_square(x)
FiatSquare2Of64(x) == LET t == fiat_25519_carry_square(x) IN fiat_25519_carry(fiat_25519_add(t, t))
FiatSelect64(a, b, choice) == IF choice THEN b ELSE a

\* fiat_u32/field.rs
FiatAdd32(x, y) == fiat_25519_carry(fiat_25519_add(x, y))
FiatSub32(x, y) == fiat_25519_carry(fiat_25519_sub(x, y))
FiatMul32(x, y) == fiat_25519_carry_mul(x, y)
FiatNeg32(x) == fiat_25519_carry(fiat_25519_opp(x))
FiatConstants32 == [zero |-> Tight(0), one |-> Tight(1), minus_one |-> Tight(FiatP - 1)]
FiatSquare32(x) == fiat_25519_carry_square(x)
FiatPow2k32(x, k) == LET p[j \in 1..k] == FiatSquare32(IF j = 1 THEN x ELSE p[j - 1]) IN p[k]
FiatSquare2Of32(x) == LET t == fiat_25519_carry_square(x) IN fiat_25519_carry(fiat_25519_add(t, t))
FiatSelect32(a, b, choice) == IF choice THEN b ELSE a
=============================================================================
