---------------------------- MODULE Scalar25519 ----------------------------
(***************************************************************************)
(* Scalars of scalar.rs: 256-bit strings, as the set of positions of their *)
(* one bits, kept below 2^255; arithmetic is modulo the order of the       *)
(* basepoint.  The recodings are done at the width of the code.            *)
(***************************************************************************)
EXTENDS Iteration, Sequences, SequencesExt

CONSTANT Order  \* the order l of the basepoint

ASSUME OrderAssumption == Order \in Nat /\ Order > 2 /\ Order % 2 = 1

\* The bits of a small number, and the value of a bit string modulo m
BitsOf(n) == {i \in 0..30 : (n \div 2 ^ i) % 2 = 1}
Byte(bits, j) == MapThenSumSet(LAMBDA i : 2 ^ (i % 8), bits \cap ((8 * j)..(8 * j + 7)))
ValueMod(bits, m) ==
  Iterate(LAMBDA st : [j |-> st.j - 1, v |-> (256 * st.v + Byte(bits, st.j)) % m], [j |-> 63, v |-> 0], 64).v
Residue(bits) == ValueMod(bits, Order)

Reduce(bits) == BitsOf(Residue(bits))
IsCanonical(bits) == bits = Reduce(bits)
FromBytesModOrder(bits) == Reduce(bits)
FromBytesModOrderWide(bits) == Reduce(bits)  \* 512 bits
FromBits(bits) == bits \ {255}
FromCanonicalBytes(bits) ==
  IF 255 \in bits \/ ~IsCanonical(FromBits(bits)) THEN "None" ELSE FromBits(bits)
DeserializeScalar(bits) == FromCanonicalBytes(bits)
FromUint(n) == BitsOf(n)
ZeroScalar == {}
OneScalar == {0}
ScalarEq(s, t) == s = t
SelectScalar(s, t, choice) == IF choice THEN t ELSE s

\* Sums of unreduced scalars are reduced after, differences before.
ScalarAdd(s, t) == BitsOf((Residue(s) + Residue(t)) % Order)
ScalarSub(s, t) == BitsOf((Residue(s) - Residue(t)) % Order)
ScalarNeg(s) == BitsOf((-Residue(s)) % Order)
ScalarMul(s, t) == BitsOf((Residue(s) * Residue(t)) % Order)
ScalarSum(ss) == FoldLeft(ScalarAdd, ZeroScalar, ss)
ScalarProduct(ss) == FoldLeft(ScalarMul, OneScalar, ss)

\* Montgomery form, for R = 2^260 (u64 backend)
RFactor == Residue({260})
InverseModOrder(x) ==
  LET p[e \in 0..(Order - 2)] == IF e = 0 THEN 1 ELSE (p[e - 1] * x) % Order IN p[Order - 2]
ScalarToMontgomery(s) == BitsOf((Residue(s) * RFactor) % Order)
ScalarFromMontgomery(s) == BitsOf((Residue(s) * InverseModOrder(RFactor)) % Order)
MontgomeryMul(s, t) == ScalarFromMontgomery(ScalarMul(s, t))
\* s^(l - 2): zero for zero
MontgomeryInvert(s) == ScalarToMontgomery(BitsOf(InverseModOrder(Residue(ScalarFromMontgomery(s)))))
ScalarInvert(s) == ScalarFromMontgomery(MontgomeryInvert(ScalarToMontgomery(s)))
\* The inverses in place, and the product of all of them; the inputs are kept in Montgomery
\* form between the two passes.  Inputs are nonzero (checked in debug builds only).
ScalarBackStep(r, input, product) ==
  [acc |-> MontgomeryMul(r.acc, input), out |-> <<MontgomeryMul(r.acc, product)>> \o r.out]
ScalarBack(mont, scratch, ret) ==
  LET n == Len(mont)
      back[j \in 0..n] == IF j = 0 THEN [acc |-> ret, out |-> <<>>]
                                   ELSE ScalarBackStep(back[j - 1], mont[n + 1 - j], scratch[n + 1 - j])
  IN  [ret |-> ret, out |-> back[n].out]
ScalarProducts(mont) ==
  LET scratch[j \in 1..(Len(mont) + 1)] ==
        IF j = 1 THEN ScalarToMontgomery(OneScalar) ELSE MontgomeryMul(scratch[j - 1], mont[j - 1])
  IN  scratch
ScalarBatchFrom(mont, scratch) ==
  ScalarBack(mont, scratch, ScalarFromMontgomery(MontgomeryInvert(scratch[Len(mont) + 1])))
ScalarBatchOf(mont) == ScalarBatchFrom(mont, ScalarProducts(mont))
ScalarBatchInvert(inputs) == ScalarBatchOf([j \in DOMAIN inputs |-> ScalarToMontgomery(inputs[j])])

-----------------------------------------------------------------------------
(* Recodings                                                               *)

ScalarBits(s) == [i \in 0..255 |-> IF i \in s THEN 1 ELSE 0]

\* w bits of the scalar from position pos on.  The words are 64 bits wide; a window that
\* crosses into the next word takes its low bits from there, and in the radix recoding
\* (last = 3) a window in the last word never reads on.
Word64Bits(s, word, from, w) == {j \in 0..(w - 1) : from + j \in 0..63 /\ 64 * word + from + j \in s}
\* Variant: the low bits of the next word are forgotten.
WindowBitsInWord(s, pos, w, last) == FoldSet(LAMBDA j, sum : sum + 2 ^ j, 0, Word64Bits(s, pos \div 64, pos % 64, w))
WindowBits(s, pos, w, last) ==
  LET idx == pos \div 64
      bit == pos % 64
      here == Word64Bits(s, idx, bit, w)
      next == {j \in (64 - bit)..(w - 1) : 64 * (idx + 1) + j - (64 - bit) \in s}
      all == IF bit < 64 - w \/ idx = last THEN here ELSE here \cup next
  IN  FoldSet(LAMBDA j, sum : sum + 2 ^ j, 0, all)

\* The value an i8 holds
Int8(x) == ((x + 128) % 256) - 128

\* Width-w non-adjacent form, least position first
NafDigit(w, st, window, up) ==
  CASE st.pos >= 256 -> st
    [] st.pos < 256 /\ window % 2 = 0 -> [st EXCEPT !.pos = @ + 1]
    [] OTHER -> [pos |-> st.pos + w, carry |-> up,
                 naf |-> [st.naf EXCEPT ![st.pos] = Int8(Int8(window) - Int8(up * 2 ^ w))]]
NafWindow(w, st, window) == NafDigit(w, st, window, IF window < 2 ^ (w - 1) THEN 0 ELSE 1)
NafStep(s, w, st) == NafWindow(w, st, st.carry + WindowBits(s, st.pos, w, 4))
NonAdjacentForm(s, w) ==
  Iterate(LAMBDA st : NafStep(s, w, st), [pos |-> 0, carry |-> 0, naf |-> [i \in 0..255 |-> 0]], 256).naf

\* Nibbles, recentred from the low end; the last one absorbs its carry.
NibbleOut(st, x, up) == [i |-> st.i + 1, carry |-> up, out |-> [st.out EXCEPT ![st.i] = x - 16 * up]]
NibbleStep(st, x) == NibbleOut(st, x, IF st.i < 63 THEN (x + 8) \div 16 ELSE 0)
ToRadix16(s) ==
  Iterate(LAMBDA st : NibbleStep(st, WindowBits(s, 4 * st.i, 4, 3) + st.carry),
          [i |-> 0, carry |-> 0, out |-> [i \in 0..63 |-> 0]], 64).out

DigitsCount(w) == (256 + w - 1) \div w
ToRadix2wSizeHint(w) == IF w = 8 THEN DigitsCount(w) + 1 ELSE DigitsCount(w)
\* Signed digits in radix 2^w, 4 <= w <= 8.  For w = 8 the last carry has a digit of its own.
RadixOut(w, st, coef, up) ==
  [i |-> st.i + 1, carry |-> up, out |-> [st.out EXCEPT ![st.i] = Int8(coef - up * 2 ^ w)]]
RadixStep(w, st, coef) == RadixOut(w, st, coef, (coef + 2 ^ (w - 1)) \div 2 ^ w)
RadixDigits(s, w) ==
  Iterate(LAMBDA st : RadixStep(w, st, st.carry + WindowBits(s, st.i * w, w, 3)),
          [i |-> 0, carry |-> 0, out |-> [i \in 0..63 |-> 0]], DigitsCount(w))
LastCarry(w, end) ==
  IF w = 8 THEN [end.out EXCEPT ![DigitsCount(w)] = Int8(@ + end.carry)]
           ELSE [end.out EXCEPT ![DigitsCount(w) - 1] = Int8(@ + Int8(end.carry * 2 ^ w))]
ToRadix2w(s, w) == IF w = 4 THEN ToRadix16(s) ELSE LastCarry(w, RadixDigits(s, w))
=============================================================================
