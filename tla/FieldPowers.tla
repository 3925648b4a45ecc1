---------------------------- MODULE FieldPowers ----------------------------
(***************************************************************************)
(* The addition chains of field.rs and scalar.rs, over any monoid: a field *)
(* element is only ever multiplied, so a chain is checked by running it on *)
(* exponents, where a product is a sum.                                    *)
(***************************************************************************)
EXTENDS Iteration, Sequences

CONSTANT Times(_, _)

\* pow2k: k squarings
SquareTimes(x, k) == Iterate(LAMBDA t : Times(t, t), x, k)

\* square_multiply: the squarings, then a product.
SquareMultiply(y, squarings, x) == Times(SquareTimes(y, squarings), x)

\* self^(2^250 - 1) and self^11.  From t5 = self^31 on, a row <<i, k, j>> of the chain is the
\* product of the i-th power so far, squared k times, and the j-th.
PowChain == <<<<1, 5, 1>>, <<2, 10, 2>>, <<3, 20, 3>>, <<4, 10, 2>>, <<5, 50, 5>>, <<6, 100, 6>>, <<7, 50, 5>>>>
PowFrom31(t5) ==
  LET powers[j \in 0..Len(PowChain)] ==
        IF j = 0 THEN <<t5>>
        ELSE Then(powers[j - 1], LAMBDA t : Append(t, SquareMultiply(t[PowChain[j][1]], PowChain[j][2], t[PowChain[j][3]])))
  IN  powers[Len(PowChain)][Len(PowChain) + 1]
PowFrom11(t2, t3) == <<PowFrom31(Times(t2, Times(t3, t3))), t3>>
PowFrom2(t0, t2) == PowFrom11(t2, Times(t0, t2))
Pow22501(self) == LET t0 == Times(self, self) IN PowFrom2(t0, Times(self, SquareTimes(t0, 2)))

InvertFrom(t) == SquareMultiply(t[1], 5, t[2])
InvertChain(self) == InvertFrom(Pow22501(self))
PowP58Chain(self) == Times(self, SquareTimes(Pow22501(self)[1], 2))

ScalarChain ==
  <<<<126, 5>>, <<4, 3>>, <<5, 15>>, <<5, 15>>, <<4, 9>>, <<2, 3>>, <<5, 15>>, <<4, 5>>, <<6, 5>>,
    <<3, 7>>, <<5, 15>>, <<5, 7>>, <<4, 3>>, <<5, 11>>, <<6, 11>>, <<10, 9>>, <<4, 3>>, <<5, 3>>,
    <<5, 3>>, <<5, 9>>, <<4, 7>>, <<6, 15>>, <<5, 11>>, <<3, 5>>, <<6, 15>>, <<3, 5>>, <<3, 3>>>>
\* The odd powers up to 15: 15 is 4 + 11, and 13 is not needed.
OddPowers(self, two) ==
  LET odd[k \in 0..5] == IF k = 0 THEN self ELSE Times(two, odd[k - 1])
  IN  [e \in {1, 3, 5, 7, 9, 11, 15} |-> IF e = 15 THEN Times(Times(two, two), odd[5]) ELSE odd[e \div 2]]
ScalarChainFrom(powers) ==
  LET y[j \in 0..Len(ScalarChain)] ==
        IF j = 0 THEN Times(powers[15], powers[1])
                 ELSE SquareMultiply(y[j - 1], ScalarChain[j][1], powers[ScalarChain[j][2]])
  IN  y[Len(ScalarChain)]
MontgomeryInvertChain(self) == ScalarChainFrom(OddPowers(self, Times(self, self)))
=============================================================================
