------------------------------ MODULE BlsCurve ------------------------------
(***************************************************************************)
(* The curve_impl! macro of ec.rs: a short Weierstrass curve y^2 = x^3 + b *)
(* over a field given by its operators.  Projective points are Jacobian    *)
(* (x/z^2, y/z^3), infinity is any point with z = 0; affine points carry   *)
(* an infinity flag.  Scalars are the sets of the positions of their one   *)
(* bits; a BitIterator runs from the highest bit of the representation.    *)
(***************************************************************************)
EXTENDS Iteration, SequencesExt

CONSTANTS
  Zero, One, None, B,
  Plus(_, _), Minus(_, _), Times(_, _), Squared(_), Inverted(_), Sqrt(_), Less(_, _),
  Char,      \* bits of the order of the scalar field
  Cofactor   \* bits of the cofactor

Negated(a) == Minus(Zero, a)
Twofold(a) == Plus(a, a)

ZeroProjective == [x |-> Zero, y |-> One, z |-> Zero]
ZeroAffine == [x |-> Zero, y |-> One, infinity |-> TRUE]
NoPoint == [none |-> TRUE]  \* the None of an Option<affine>
IsZero(p) == p.z = Zero
IsNormalized(p) == IsZero(p) \/ p.z = One

\* Compares x z'^2 with x' z^2 and y z'^3 with y' z^3.
EqScaled(p, q, z1, z2) ==
  /\ Times(p.x, z2) = Times(q.x, z1)
  /\ Times(Times(z1, p.z), q.y) = Times(Times(z2, q.z), p.y)
Eq(p, q) ==
  IF IsZero(p) \/ IsZero(q) THEN IsZero(p) /\ IsZero(q) ELSE EqScaled(p, q, Squared(p.z), Squared(q.z))

IntoProjective(p) == IF p.infinity THEN ZeroProjective ELSE [x |-> p.x, y |-> p.y, z |-> One]
AffineBy(p, zinv) ==
  [x |-> Times(p.x, Squared(zinv)), y |-> Times(p.y, Times(Squared(zinv), zinv)), infinity |-> FALSE]
IntoAffine(p) ==
  CASE IsZero(p) -> ZeroAffine
    [] ~IsZero(p) /\ p.z = One -> [x |-> p.x, y |-> p.y, infinity |-> FALSE]
    [] OTHER -> AffineBy(p, Inverted(p.z))

NegateAffine(p) == IF p.infinity THEN p ELSE [p EXCEPT !.y = Negated(@)]
Negate(p) == IF IsZero(p) THEN p ELSE [p EXCEPT !.y = Negated(@)]

\* dbl-2009-l.  No affine point has y = 0, so the result is infinity only for infinity.
DoubleEnd(p, c, d, e, x) ==
  [x |-> x, y |-> Minus(Times(Minus(d, x), e), Twofold(Twofold(Twofold(c)))), z |-> Twofold(Times(p.z, p.y))]
DoubleX(p, c, d, e) == DoubleEnd(p, c, d, e, Minus(Minus(Squared(e), d), d))
DoubleD(p, a, b, c) ==
  DoubleX(p, c, Twofold(Minus(Minus(Squared(Plus(p.x, b)), a), c)), Plus(Twofold(a), a))
DoubleC(p, a, b) == DoubleD(p, a, b, Squared(b))
Double(p) == IF IsZero(p) THEN p ELSE DoubleC(p, Squared(p.x), Squared(p.y))

\* add-2007-bl; equal points are doubled, opposite ones come out with z = 0.
AddedX(r, j, v) == Minus(Minus(Minus(Squared(r), j), v), v)
AddedEnd(x, r, v, sj, z) == [x |-> x, y |-> Minus(Times(Minus(v, x), r), Twofold(sj)), z |-> z]
AddV(s1, r, j, v, z) == AddedEnd(AddedX(r, j, v), r, v, Times(s1, j), z)
AddI(u1, s1, h, i, r, z) == AddV(s1, r, Times(h, i), Times(u1, i), z)
AddH(u1, s1, h, r, zz) == AddI(u1, s1, h, Squared(Twofold(h)), r, Times(zz, h))
AddDistinct(p, q, z1z1, z2z2, u1, u2, s1, s2) ==
  AddH(u1, s1, Minus(u2, u1), Twofold(Minus(s2, s1)), Minus(Minus(Squared(Plus(p.z, q.z)), z1z1), z2z2))
\* Without the first case, equal points would not be told apart.
AddOrDouble(p, q, z1z1, z2z2, u1, u2, s1, s2) ==
  IF u1 = u2 /\ s1 = s2 THEN Double(p) ELSE AddDistinct(p, q, z1z1, z2z2, u1, u2, s1, s2)
AddScaled(p, q, z1z1, z2z2) ==
  AddOrDouble(p, q, z1z1, z2z2, Times(p.x, z2z2), Times(q.x, z1z1), Times(Times(p.y, q.z), z2z2), Times(Times(q.y, p.z), z1z1))
AddAssign(p, q) ==
  CASE IsZero(p) -> q
    [] ~IsZero(p) /\ IsZero(q) -> p
    [] OTHER -> AddScaled(p, q, Squared(p.z), Squared(q.z))
\* CurveProjective::sub_assign of the group crate
SubAssign(p, q) == AddAssign(p, Negate(q))
\* madd-2007-bl: q is affine.
MixedHH(p, z1z1, h, hh, i, r) ==
  AddV(p.y, r, Times(h, i), Times(p.x, i), Minus(Minus(Squared(Plus(p.z, h)), z1z1), hh))
MixedH(p, z1z1, h, hh, r) == MixedHH(p, z1z1, h, hh, Twofold(Twofold(hh)), r)
MixedDistinct(p, z1z1, h, r) == MixedH(p, z1z1, h, Squared(h), r)
MixedOrDouble(p, z1z1, u2, s2) ==
  IF p.x = u2 /\ p.y = s2 THEN Double(p) ELSE MixedDistinct(p, z1z1, Minus(u2, p.x), Twofold(Minus(s2, p.y)))
MixedScaled(p, q, z1z1) == MixedOrDouble(p, z1z1, Times(q.x, z1z1), Times(Times(q.y, p.z), z1z1))
AddAssignMixed(p, q) ==
  CASE q.infinity -> p
    [] ~q.infinity /\ IsZero(p) -> [x |-> q.x, y |-> q.y, z |-> One]
    [] OTHER -> MixedScaled(p, q, Squared(p.z))

-----------------------------------------------------------------------------
(* Multiplication by a scalar of Width bits                                *)

Width == 256
MixedIf(bit, r, p) == IF bit THEN AddAssignMixed(r, p) ELSE r
AddIf(bit, r, p) == IF bit THEN AddAssign(r, p) ELSE r
\* Affine mul: doubles from the first bit on
MulBits(p, bits) ==
  Iterate(LAMBDA st : [i |-> st.i - 1, r |-> MixedIf(st.i \in bits, Double(st.r), p)],
          [i |-> Width - 1, r |-> ZeroProjective], Width).r
\* Projective mul: doubles after the first one bit
MulAssign(p, bits) ==
  Iterate(LAMBDA st : [i |-> st.i - 1, found |-> st.found \/ st.i \in bits,
                       r |-> AddIf(st.i \in bits, IF st.found THEN Double(st.r) ELSE st.r, p)],
          [i |-> Width - 1, found |-> FALSE, r |-> ZeroProjective], Width).r

RightHandSide(x) == Plus(Times(Squared(x), x), B)
IsOnCurve(p) == p.infinity \/ Squared(p.y) = RightHandSide(p.x)
IsInCorrectSubgroup(p) == IsZero(MulBits(p, Char))
ScaleByCofactor(p) == MulBits(p, Cofactor)
\* The root that is the lexicographically greatest of the two if and only if greatest.
PointWithRoot(x, y, greatest) ==
  IF y = None THEN NoPoint
  ELSE [x |-> x, y |-> IF Less(y, Negated(y)) # greatest THEN y ELSE Negated(y), infinity |-> FALSE]
GetPointFromX(x, greatest) == PointWithRoot(x, Sqrt(RightHandSide(x)), greatest)
\* random: one turn of the loop, which repeats until it finds a point
NonZero(p) == IF IsZero(p) THEN NoPoint ELSE p
Scaled(p) == IF p = NoPoint THEN NoPoint ELSE NonZero(ScaleByCofactor(p))
RandomFrom(x, greatest) == Scaled(GetPointFromX(x, greatest))

-----------------------------------------------------------------------------
(* batch_normalization: one inversion for all that are not normalized      *)

\* From the last to the first: the inverse of z from the product of those before it
Products(todo) == FoldLeft(LAMBDA acc, p : Append(acc, Times(acc[Len(acc)], p.z)), <<One>>, todo)
InversesBack(todo, prod) ==
  FoldRight(LAMBDA p, st : [tmp |-> Times(st.tmp, p.z), k |-> st.k - 1, out |-> <<Times(st.tmp, prod[st.k])>> \o st.out],
            todo, [tmp |-> Inverted(prod[Len(todo) + 1]), k |-> Len(todo), out |-> <<>>]).out
NormalBy(p, zi) == [x |-> Times(p.x, Squared(zi)), y |-> Times(p.y, Times(Squared(zi), zi)), z |-> One]
Normalized(ps, inverses) ==
  FoldLeft(LAMBDA st, p : IF IsNormalized(p) THEN [st EXCEPT !.out = Append(@, p)]
                          ELSE [k |-> st.k + 1, out |-> Append(st.out, NormalBy(p, inverses[st.k]))],
           [k |-> 1, out |-> <<>>], ps).out
NormalizedAll(ps, todo) == Normalized(ps, InversesBack(todo, Products(todo)))
BatchNormalization(ps) == NormalizedAll(ps, SelectSeq(ps, LAMBDA p : ~IsNormalized(p)))

-----------------------------------------------------------------------------
(* wNAF (wnaf.rs)                                                          *)

\* base, 3 base, 5 base, ...: 2^(window - 1) odd multiples
OddMultiples(base, dbl, window) ==
  Iterate(LAMBDA t : Append(t, AddAssign(t[Len(t)], dbl)), <<base>>, 2 ^ (window - 1) - 1)
WnafTable(base, window) == OddMultiples(base, Double(base), window)
Low(c, w) == FoldSet(LAMBDA i, sum : sum + 2 ^ i, 0, c \cap (0..(w - 1)))
\* c + 2^k
Carry(c, k) ==
  LET stop == CHOOSE i \in k..(Width + 1) : i \notin c /\ \A j \in k..(i - 1) : j \in c
  IN  (c \ (k..(stop - 1))) \cup {stop}
\* Digits, least first: odd or zero, within (-2^window, 2^window)
WnafRest(c, window, u) ==
  CASE 0 \notin c -> c
    [] 0 \in c /\ u > 0 -> c \ (0..window)
    [] OTHER -> Carry(c \ (0..window), window + 1)
WnafStep(st, window, u) ==
  [c |-> {i - 1 : i \in WnafRest(st.c, window, u)}, out |-> Append(st.out, IF 0 \in st.c THEN u ELSE 0)]
SignedDigit(low, window) == IF low > 2 ^ window THEN low - 2 ^ (window + 1) ELSE low
WnafForm(s, window) ==
  Iterate(LAMBDA st : IF st.c = {} THEN st ELSE WnafStep(st, window, SignedDigit(Low(st.c, window + 1), window)),
          [c |-> s, out |-> <<>>], Width + 1).out
AddDigit(r, table, n) ==
  CASE n > 0 -> AddAssign(r, table[(n \div 2) + 1])
    [] n < 0 -> SubAssign(r, table[((-n) \div 2) + 1])
    [] OTHER -> r
WnafExp(table, wnaf) ==
  Iterate(LAMBDA st : [i |-> st.i - 1, found |-> st.found \/ wnaf[st.i] # 0,
                       r |-> AddDigit(IF st.found THEN Double(st.r) ELSE st.r, table, wnaf[st.i])],
          [i |-> Len(wnaf), found |-> FALSE, r |-> ZeroProjective], Len(wnaf)).r
\* The contexts: a table for many scalars, or a recoded scalar for many bases
BaseThenScalar(base, s, window) == WnafExp(WnafTable(base, window), WnafForm(s, window))
=============================================================================
