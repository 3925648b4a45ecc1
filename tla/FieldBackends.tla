--------------------------- MODULE FieldBackends ---------------------------
(***************************************************************************)
(* The arithmetic backends of the vendored curve25519-dalek, as register   *)
(* machines: a backend is chosen once (at build time), and its operations  *)
(* are applied to two registers a and b.  An operation is enabled when its *)
(* operands meet the preconditions the code states or asserts.  Every      *)
(* backend must implement RingRegisters.                                   *)
(***************************************************************************)
EXTENDS FieldElement2625x4, F51x4, FiatField, Scalar52, Scalar29

CONSTANTS
  Ring51, Ring10, Ring52, Ring29,  \* coprime moduli whose product divides the modulus
  Steps                            \* bound on the operations of a run

VARIABLES kind, op, a, b, n

vars == <<kind, op, a, b, n>>

Kinds == {"u64", "u32", "avx2", "ifma", "fiat_u64", "fiat_u32", "scalar52", "scalar29"}
Serial == {"u64", "u32", "fiat_u64", "fiat_u32"}
Scalars == {"scalar52", "scalar29"}

-----------------------------------------------------------------------------
(* The residues of a representation.                                       *)

WeightTable(limbs, radix(_), ring) ==
  [m \in ring |-> LET w[i \in limbs] == IF i = 0 THEN 1 ELSE (w[i - 1] * radix(i - 1)) % m IN w]
Weights51 == WeightTable(I5, LAMBDA i : Limb, Ring51)
Weights10 == WeightTable(I10, Radix, Ring10)
Residues(x, weights) ==
  [m \in DOMAIN weights |-> MapThenSumSet(LAMBDA i : ((x[i] % m) * weights[m][i]) % m, DOMAIN x) % m]

RingOf(k) ==
  CASE k \in {"u64", "ifma"} -> Ring51
    [] k \in {"u32", "avx2"} -> Ring10
    [] k \in {"fiat_u64", "fiat_u32"} -> {FiatP}
    [] k = "scalar52" -> Ring52
    [] k = "scalar29" -> Ring29
ElementOf(k, x) ==
  CASE k \in {"u64", "ifma"} -> Residues(x, Weights51)
    [] k \in {"u32", "avx2"} -> Residues(x, Weights10)
    [] k \in {"fiat_u64", "fiat_u32"} -> [m \in {FiatP} |-> x.v]
    [] k = "scalar52" -> [m \in Ring52 |-> Value52(x) % m]
    [] k = "scalar29" -> [m \in Ring29 |-> Value29(x) % m]
RegisterOf(k, r) == [l \in DOMAIN r |-> ElementOf(k, r[l])]

\* The abstract registers
Abstract == INSTANCE RingRegisters
              WITH ring <- RingOf(kind), op <- op, ra <- RegisterOf(kind, a), rb <- RegisterOf(kind, b)

-----------------------------------------------------------------------------
(* Initial contents: the least and greatest limbs a decoder or a reduction *)
(* can leave, and mixed ones.                                              *)

Pattern(limbs, max(_), p) ==
  [i \in limbs |-> CASE p = "top" -> max(i)
                     [] p = "low" -> IF i = 0 THEN 1 ELSE 0
                     [] p = "mixed" -> (max(i) * (i + 2)) \div (i + 3)]
Start(k, p) ==
  CASE k = "u64" -> <<Pattern(I5, LAMBDA i : Limb - 1, p)>>
    [] k = "u32" -> <<Pattern(I10, LAMBDA i : Radix(i) - 1, p)>>
    [] k = "avx2" -> New4([l \in Lanes4 |-> Pattern(I5, LAMBDA i : Even * Odd - l, p)])
    [] k = "ifma" -> New51x4([l \in Lanes4 |-> Pattern(I5, LAMBDA i : Limb - l, p)])
    [] k = "fiat_u64" -> <<CASE p = "top" -> FiatConstants64.minus_one [] p = "low" -> FiatConstants64.one
                             [] p = "mixed" -> FiatConstants64.zero>>
    [] k = "fiat_u32" -> <<CASE p = "top" -> FiatConstants32.minus_one [] p = "low" -> FiatConstants32.one
                             [] p = "mixed" -> FiatConstants32.zero>>
    [] k = "scalar52" -> <<Limbs52(CASE p = "top" -> 4 * Radix52 * Radix52 * Radix52 * Radix52 - 1
                                     [] p = "low" -> Order52 - 1 [] p = "mixed" -> (2 * Order52) \div 3)>>
    [] k = "scalar29" -> <<Limbs29(CASE p = "top" -> 2 * Order29 - 1
                                     [] p = "low" -> Order29 - 1 [] p = "mixed" -> (2 * Order29) \div 3)>>

Init ==
  /\ kind \in Kinds
  /\ op = <<"init", 0>>
  /\ \E p \in {<<"top", "top">>, <<"top", "mixed">>, <<"mixed", "low">>, <<"low", "top">>} :
       a = Start(kind, p[1]) /\ b = Start(kind, p[2])
  /\ n = 0

Does(name, arg) == n < Steps /\ n' = n + 1 /\ op' = <<name, arg>> /\ UNCHANGED kind

-----------------------------------------------------------------------------
(* Preconditions on bounds                                                 *)

\* Operands of a multiplication or a square
MulReady(x, y) ==
  CASE kind = "u64" -> Bounded51(x[1], Headroom) /\ Bounded51(y[1], Headroom)
    [] kind = "u32" -> Bounded10(x[1], Excess) /\ Bounded10(y[1], Excess)
    [] kind = "avx2" -> Bounded4(x, MulLeft) /\ Bounded4(y, Excess)
    [] kind = "ifma" -> Reduced51x4(x) /\ Reduced51x4(y)
    [] OTHER -> TRUE
SquareReady(x) == MulReady(x, x) /\ (kind = "avx2" => Bounded4(x, SquarePre))
\* A sum must fit a word; the sum of two unreduced scalars (256 bits each) fits the limbs.
AddReady(x, y) ==
  CASE kind = "u64" -> \A i \in I5 : x[1][i] + y[1][i] < Word
    [] kind = "u32" -> \A i \in I10 : x[1][i] + y[1][i] < Word32
    [] kind = "avx2" -> \A l \in Lanes4, i \in I10 : x[l][i] + y[l][i] < Word32
    [] kind = "ifma" -> \A l \in Lanes4, i \in I5 : x[l][i] + y[l][i] < WordV
    [] kind = "scalar52" -> Value52(x[1]) + Value52(y[1]) < 12 * Order52
    [] kind = "scalar29" -> Value29(x[1]) + Value29(y[1]) < 3 * Order29
    [] OTHER -> TRUE
\* The subtrahend must not exceed 16 p, limb by limb.
SubReady(x, y) ==
  CASE kind = "u64" -> Bounded51(x[1], Headroom) /\ Bounded51(y[1], Headroom)
    [] kind = "u32" -> Bounded10(x[1], Excess) /\ Bounded10(y[1], Excess)
    [] kind = "avx2" -> Bounded4(y, 400)
    [] kind = "ifma" -> Reduced51x4(y)
    [] OTHER -> TRUE

-----------------------------------------------------------------------------
(* The operations                                                          *)

AddOp ==
  /\ Does("add", 0) /\ UNCHANGED b
  /\ AddReady(a, b)
  /\ a' = CASE kind = "u64" -> <<Add51(a[1], b[1])>>
            [] kind = "u32" -> <<Add10(a[1], b[1])>>
            [] kind = "avx2" -> Add4(a, b)
            [] kind = "ifma" -> AddV4(a, b)
            [] kind = "fiat_u64" -> <<FiatAdd64(a[1], b[1])>>
            [] kind = "fiat_u32" -> <<FiatAdd32(a[1], b[1])>>
            [] kind = "scalar52" -> <<Add52(a[1], b[1])>>
            [] kind = "scalar29" -> <<Add29(a[1], b[1])>>

\* Scalars are canonical when they are subtracted: unpacked from reduced scalars.
SubOp ==
  /\ Does("sub", 0) /\ UNCHANGED b
  /\ kind \in Serial \cup Scalars
  /\ SubReady(a, b)
  /\ kind = "scalar52" => Value52(a[1]) < Order52 /\ Value52(b[1]) <= Order52
  /\ kind = "scalar29" => Value29(a[1]) < Order29 /\ Value29(b[1]) <= Order29
  /\ a' = <<CASE kind = "u64" -> Sub51(a[1], b[1])
              [] kind = "u32" -> Sub10(a[1], b[1])
              [] kind = "fiat_u64" -> FiatSub64(a[1], b[1])
              [] kind = "fiat_u32" -> FiatSub32(a[1], b[1])
              [] kind = "scalar52" -> Sub52(a[1], b[1])
              [] kind = "scalar29" -> Sub29(a[1], b[1])>>

MulOp ==
  /\ Does("mul", 0) /\ UNCHANGED b
  /\ MulReady(a, b)
  /\ a' = CASE kind = "u64" -> <<Mul51(a[1], b[1])>>
            [] kind = "u32" -> <<Mul10(a[1], b[1])>>
            [] kind = "avx2" -> Mul4(a, b)
            [] kind = "ifma" -> MulV4(a, b)
            [] kind = "fiat_u64" -> <<FiatMul64(a[1], b[1])>>
            [] kind = "fiat_u32" -> <<FiatMul32(a[1], b[1])>>
            [] kind = "scalar52" -> <<Mul52(a[1], b[1])>>
            [] kind = "scalar29" -> <<Mul29(a[1], b[1])>>

NegOp ==
  /\ Does("neg", 0) /\ UNCHANGED b
  /\ kind \notin Scalars
  /\ SubReady(a, a)
  /\ a' = CASE kind = "u64" -> <<Negate51(a[1])>>
            [] kind = "u32" -> <<Negate10(a[1])>>
            [] kind = "avx2" -> Neg4(a)
            [] kind = "ifma" -> NegV4(a)
            [] kind = "fiat_u64" -> <<FiatNeg64(a[1])>>
            [] kind = "fiat_u32" -> <<FiatNeg32(a[1])>>

SquareOp ==
  /\ Does("square", 0) /\ UNCHANGED b
  /\ kind # "avx2"
  /\ SquareReady(a)
  /\ a' = CASE kind = "u64" -> <<Square51(a[1])>>
            [] kind = "u32" -> <<Square10(a[1])>>
            [] kind = "ifma" -> SquareV4(a)
            [] kind = "fiat_u64" -> <<FiatSquare64(a[1])>>
            [] kind = "fiat_u32" -> <<FiatSquare32(a[1])>>
            [] kind = "scalar52" -> <<Square52(a[1])>>
            [] kind = "scalar29" -> <<Square29(a[1])>>

Square2Op ==
  /\ Does("square2", 0) /\ UNCHANGED b
  /\ kind \in Serial
  /\ SquareReady(a)
  /\ a' = <<CASE kind = "u64" -> Square2Of51(a[1])
              [] kind = "u32" -> Square2Of10(a[1])
              [] kind = "fiat_u64" -> FiatSquare2Of64(a[1])
              [] kind = "fiat_u32" -> FiatSquare2Of32(a[1])>>

Pow2kOp(k) ==
  /\ Does("pow2k", k) /\ UNCHANGED b
  /\ kind \in Serial
  /\ SquareReady(a)
  /\ a' = <<CASE kind = "u64" -> Pow2k51(a[1], k)
              [] kind = "u32" -> Pow2k10(a[1], k)
              [] kind = "fiat_u64" -> FiatPow2k64(a[1], k)
              [] kind = "fiat_u32" -> FiatPow2k32(a[1], k)>>

\* The vector backends' own operations
DiffSumOp ==
  /\ Does("diff_sum", 0) /\ UNCHANGED b
  /\ \/ kind = "avx2" /\ Bounded4(a, Post) /\ a' = DiffSum4(a)
     \/ kind = "ifma" /\ (\A l \in Lanes4, i \in I5 : a[l][i] <= SixteenP(i)) /\ a' = DiffSumV4(a)
SquareNegDOp ==
  /\ Does("square_neg_d", 0) /\ UNCHANGED b
  /\ kind = "avx2" /\ SquareReady(a)
  /\ a' = SquareAndNegateD4(a)
SmallOp(k) ==
  /\ Does("small", k) /\ UNCHANGED b
  /\ \/ kind = "avx2" /\ Bounded4(a, Excess) /\ a' = MulSmall4(a, k)
     \/ kind = "ifma" /\ Reduced51x4(a) /\ a' = MulSmallV4(a, k)

\* Changes of representation that keep the element: reduce, the change to the serial
\* form and back, and Montgomery form and back.
SameOp ==
  /\ Does("same", 0) /\ UNCHANGED b
  /\ a' = CASE kind = "u64" -> <<Reduce51(a[1])>>
            [] kind = "avx2" -> [l \in Lanes4 |-> Reduce32(a[l])]
            [] kind = "ifma" -> Reduce51x4(a)
            [] kind = "scalar52" -> <<FromMontgomery52(ToMontgomery52(a[1]))>>
            [] kind = "scalar29" -> <<FromMontgomery29(ToMontgomery29(a[1]))>>
SplitOp ==
  /\ Does("same", 1) /\ UNCHANGED b
  /\ kind = "avx2" /\ Bounded4(a, Excess)
  /\ a' = New4(Split4(a))

WideOp ==
  /\ Does("wide", [m \in RingOf(kind) |-> (IF kind = "scalar52" THEN TimesR52(1) ELSE RadixPower29[9]) % m])
  /\ a' = <<CASE kind = "scalar52" -> FromWide52(a[1], b[1])
              [] kind = "scalar29" -> FromWide29(a[1], b[1])>>
  /\ UNCHANGED b

\* conditional_swap, with the choice set; conditional_select is its half.
SwapOp ==
  /\ Does("swap", 0)
  /\ a' = CASE kind = "u64" -> <<ConditionalSelect51(a[1], b[1], TRUE)>>
            [] kind = "u32" -> <<ConditionalSelect10(a[1], b[1], TRUE)>>
            [] kind = "avx2" -> ConditionalSelect4(a, b, TRUE)
            [] kind = "ifma" -> ConditionalSelectV4(a, b, TRUE)
            [] kind = "fiat_u64" -> <<FiatSelect64(a[1], b[1], TRUE)>>
            [] kind = "fiat_u32" -> <<FiatSelect32(a[1], b[1], TRUE)>>
            [] kind \in Scalars -> b
  /\ b' = a

Next ==
  \/ AddOp \/ SubOp \/ MulOp \/ NegOp \/ SquareOp \/ Square2Op \/ DiffSumOp \/ SquareNegDOp
  \/ kind \in {"u64", "avx2", "ifma"} \cup Scalars /\ SameOp
  \/ SplitOp \/ SwapOp
  \/ \E k \in {1, 3} : Pow2kOp(k)
  \/ SmallOp(<<2, 3, 5, 7>>)
  \/ kind \in Scalars /\ WideOp

Spec == Init /\ [][Next]_vars

-----------------------------------------------------------------------------
(* Properties                                                              *)

\* Every operation of every backend computes the ring operation: no word wraps, no carry is
\* lost and no product is folded with the wrong weight, on operands at the stated bounds.
BackendsAreRings == Abstract!Spec

\* The postconditions in the comments: what an operation that reduces leaves is small
\* enough for a sum of two to be multiplied; a scalar result is canonical.
ResultsReduced ==
  LET fresh == {"sub", "mul", "neg", "square", "pow2k", "square_neg_d", "small", "same", "wide"}
  IN  op[1] \in fresh =>
        CASE kind = "u64" -> Bounded51(a[1], Limb + Limb \div 4)
          [] kind = "u32" -> Bounded10(a[1], 150)
          [] kind = "avx2" -> Bounded4(a, Post)
          [] kind = "ifma" -> op[1] \in {"neg", "same"} => Reduced51x4(a)
          [] kind \in {"fiat_u64", "fiat_u32"} -> a[1].bound = "tight"
          [] kind = "scalar52" -> Value52(a[1]) < Order52
          [] kind = "scalar29" -> Value29(a[1]) < Order29

\* Encoding picks the unique representative below the modulus, whatever the limbs were.
BelowP(x, radix(_), fold) == (\E i \in DOMAIN x \ {0} : x[i] < radix(i) - 1) \/ x[0] < radix(0) - fold
EncodingCanonical ==
  /\ kind = "u64" =>
       LET c == Canonical51(a[1])
       IN  Bounded51(c, Limb) /\ BelowP(c, LAMBDA i : Limb, Fold) /\ Residues(c, Weights51) = Residues(a[1], Weights51)
  /\ kind = "u32" =>
       LET c == Canonical10(a[1])
       IN  Bounded10(c, 101) /\ BelowP(c, Radix, Fold10) /\ Residues(c, Weights10) = Residues(a[1], Weights10)

\* The byte encodings put bit k of the number at bit k of the string, and decoding reads it
\* back; a decoder of field elements ignores bit 255.
BytesKeepBits ==
  n = 0 =>
    CASE kind = "u64" -> /\ \A k \in 0..254 : FromBytes51({k}) = {k} /\ ToBytes51({k}) = {k}
                         /\ FromBytes51({255}) = {}
      [] kind = "u32" -> /\ \A k \in 0..254 : FromBytes10({k}) = {k} /\ ToBytes10({k}) = {k}
                         /\ FromBytes10({255}) = {}
      [] kind = "scalar52" -> /\ \A k \in 0..255 : FromBytes52({k}) = {k} /\ ToBytes52({k}) = {k}
                              /\ \A k \in 0..511 : WideBits52({k}) = {k}
      [] kind = "scalar29" -> /\ \A k \in 0..255 : FromBytes29({k}) = {k} /\ ToBytes29({k}) = {k}
                              /\ \A k \in 0..511 : WideBits29({k}) = {k}
      [] OTHER -> TRUE
=============================================================================
