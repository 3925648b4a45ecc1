----------------------------- MODULE ScalarMul -----------------------------
(***************************************************************************)
(* Scalar multiplication: the lookup tables of window.rs and the loops of  *)
(* backend/serial/scalar_mul, backend/vector/scalar_mul, the basepoint     *)
(* tables of edwards.rs and the ladder of montgomery.rs, one loop turn at  *)
(* a time.  A job is a multiplication under way: back is the backend and   *)
(* the form of its table entries.                                          *)
(***************************************************************************)
EXTENDS EdwardsVectors, Scalar25519

\* "serial" adds projective Niels points, "affine" affine ones; the vectors cached points.
Backs == {"serial", "affine", "avx2", "ifma"}
VectorBacks == {"avx2", "ifma"}
Lift(back, p) == CASE back = "avx2" -> Avx2FromEdwards(p) [] back = "ifma" -> IfmaFromEdwards(p) [] OTHER -> p
Lower(back, x) == CASE back = "avx2" -> Avx2ToEdwards(x) [] back = "ifma" -> IfmaToEdwards(x) [] OTHER -> x
BackIdentity(back) == IF back \in VectorBacks THEN ExtendedIdentity ELSE Identity
BackDouble(back, x) == CASE back = "avx2" -> Avx2Double(x) [] back = "ifma" -> IfmaDouble(x) [] OTHER -> EdwardsDouble(x)
\* mul_by_pow_2: k doublings in a vector; the serial one skips the T of all but the last.
BackPow2(back, x, k) ==
  IF back \in VectorBacks THEN Iterate(LAMBDA y : BackDouble(back, y), x, k) ELSE MulByPow2(x, k)
Cache(back, x) ==
  CASE back = "avx2" -> Avx2Cache(x) [] back = "ifma" -> IfmaCache(x)
    [] back = "serial" -> ToProjectiveNiels(x) [] back = "affine" -> ToAffineNiels(x)
CacheIdentity(back) ==
  CASE back = "serial" -> ProjectiveNielsIdentity [] back = "affine" -> AffineNielsIdentity [] OTHER -> CachedIdentity
NegCached(back, c) ==
  CASE back = "avx2" -> Avx2NegCached(c) [] back = "ifma" -> IfmaNegCached(c)
    [] back = "serial" -> NegProjectiveNiels(c) [] back = "affine" -> NegAffineNiels(c)
AddCached(back, x, c) ==
  CASE back = "avx2" -> Avx2Add(x, c) [] back = "ifma" -> IfmaAdd(x, c)
    [] back = "serial" -> CompletedToExtended(AddProjectiveNiels(x, c))
    [] back = "affine" -> CompletedToExtended(AddAffineNiels(x, c))
SubCached(back, x, c) ==
  CASE back = "avx2" -> Avx2Sub(x, c) [] back = "ifma" -> IfmaSub(x, c)
    [] back = "serial" -> CompletedToExtended(SubProjectiveNiels(x, c))
    [] back = "affine" -> CompletedToExtended(SubAffineNiels(x, c))

-----------------------------------------------------------------------------
(* window.rs                                                               *)

\* From<&EdwardsPoint>: the multiples by 1..size
TableSteps(back, x, step, size) ==
  Iterate(LAMBDA t : Append(t, Cache(back, AddCached(back, step, Last(t)))), <<Cache(back, x)>>, size - 1)
LookupTableOf(back, x, size) == TableSteps(back, x, x, size)
LookupTable(back, p, size) == LookupTableOf(back, Lift(back, p), size)
\* Variant of Lookup: the sign is forgotten.
LookupUnsigned(back, table, x) ==
  LET abs == IF x < 0 THEN -x ELSE x IN IF abs \in DOMAIN table THEN table[abs] ELSE CacheIdentity(back)
\* select: |x| P, or the identity, then the sign
SignedEntry(back, entry, x) == IF x < 0 THEN NegCached(back, entry) ELSE entry
Lookup(back, table, x) ==
  LET abs == IF x < 0 THEN -x ELSE x
  IN  SignedEntry(back, IF abs \in DOMAIN table THEN table[abs] ELSE CacheIdentity(back), x)

\* The odd multiples by 1, 3, ..., 2 size - 1 (size is 8 for NafLookupTable5, 64 for 8)
NafLookupTableOf(back, x, size) == TableSteps(back, x, BackDouble(back, x), size)
NafLookupTable(back, p, size) == NafLookupTableOf(back, Lift(back, p), size)
NafLookup(table, x) == table[(x \div 2) + 1]
\* Adds naf digit d's multiple, or subtracts it, or does nothing.
AddNaf(back, x, table, d) ==
  CASE d > 0 -> AddCached(back, x, NafLookup(table, d))
    [] d < 0 -> SubCached(back, x, NafLookup(table, -d))
    [] OTHER -> x

-----------------------------------------------------------------------------
(* Constants (constants.rs and the backends'): what they have to be.       *)

OnCurve == {xy \in F \X F :
  LET x2 == (xy[1] * xy[1]) % P
      y2 == (xy[2] * xy[2]) % P
  IN  (y2 - x2 - 1 - EDWARDS_D.v * ((x2 * y2) % P)) % P = 0}
AffinePoint(xy) == [X |-> Elem(xy[1]), Y |-> Elem(xy[2]), Z |-> One, T |-> Elem(xy[1] * xy[2])]
\* The basepoint: the point of prime order with the least y, and even x.
PowerOf(p, e) == Iterate(LAMBDA q : EdwardsAdd(q, p), Identity, e)
ED25519_BASEPOINT_POINT ==
  AffinePoint(CHOOSE xy \in OnCurve : /\ xy[1] % 2 = 0 /\ xy[2] # 1
                                      /\ IsIdentity(PowerOf(AffinePoint(xy), Order))
                                      /\ \A uv \in OnCurve : uv[2] # 1 /\ IsIdentity(PowerOf(AffinePoint(uv), Order)) => xy[2] <= uv[2])
RISTRETTO_BASEPOINT_POINT == ED25519_BASEPOINT_POINT
\* The multiples of a point of order eight, from the identity on
HasOrderEight(p4) == ~IsIdentity(p4) /\ IsIdentity(EdwardsDouble(p4))
MultiplesBelowEight(t) == [i \in 0..7 |-> PowerOf(t, i)]
EIGHT_TORSION ==
  MultiplesBelowEight(AffinePoint(CHOOSE xy \in OnCurve : HasOrderEight(PowerOf(AffinePoint(xy), 4))))
Coset4(p) == [i \in 0..3 |-> EdwardsAdd(p, EIGHT_TORSION[2 * i])]
BASEPOINT_ORDER == BitsOf(Order)
AFFINE_ODD_MULTIPLES_OF_BASEPOINT == NafLookupTable("affine", ED25519_BASEPOINT_POINT, 64)
Avx2OddLookupTable == NafLookupTable("avx2", ED25519_BASEPOINT_POINT, 64)
IfmaOddLookupTable == NafLookupTable("ifma", ED25519_BASEPOINT_POINT, 64)
OddMultiplesOfBasepoint(back) ==
  CASE back = "affine" -> AFFINE_ODD_MULTIPLES_OF_BASEPOINT
    [] back = "avx2" -> Avx2OddLookupTable
    [] back = "ifma" -> IfmaOddLookupTable

\* create: 32 tables, of the multiples by 2^(2 w i) for the i-th; and the point back.
CreateTable(basepoint, w) ==
  Iterate(LAMBDA st : [p |-> MulByPow2(st.p, w + w), t |-> Append(st.t, LookupTable("affine", st.p, 2 ^ (w - 1)))],
          [p |-> basepoint, t |-> <<>>], 32).t
TableBasepoint(table) == CompletedToExtended(AddAffineNiels(Identity, Lookup("affine", table[1], 1)))
Additions(w) == CASE w = 4 -> 64 [] w = 5 -> 52 [] w = 6 -> 43 [] w = 7 -> 37 [] w = 8 -> 33
BasepointTables == [w \in 4..8 |-> CreateTable(ED25519_BASEPOINT_POINT, w)]

-----------------------------------------------------------------------------
(* The loops.  pairs is the sequence of scalars and points.                *)

\* variable_base: radix 16, from the top digit down
VariableBase(back, pairs) ==
  [kind |-> "variable", back |-> back, i |-> 63, acc |-> BackIdentity(back),
   digits |-> <<ToRadix16(pairs[1][1])>>, tables |-> <<LookupTable(back, pairs[1][2], 8)>>]
\* The serial loop's first turn only adds; the vectors double the identity first.
VariableBaseTurn(job) ==
  AddCached(job.back, IF job.i = 63 /\ job.back = "serial" THEN job.acc ELSE BackPow2(job.back, job.acc, 4),
            Lookup(job.back, job.tables[1], job.digits[1][job.i]))

\* Straus in constant time
Straus(back, pairs) ==
  [kind |-> "straus", back |-> back, i |-> 63, acc |-> BackIdentity(back),
   digits |-> [j \in DOMAIN pairs |-> ToRadix16(pairs[j][1])],
   tables |-> [j \in DOMAIN pairs |-> LookupTable(back, pairs[j][2], 8)]]
StrausTurn(job) ==
  FoldLeftDomain(LAMBDA x, j : AddCached(job.back, x, Lookup(job.back, job.tables[j], job.digits[j][job.i])),
                 BackPow2(job.back, job.acc, 4), job.tables)

\* Interleaved non-adjacent forms, width 5: straus in variable time
VartimeStraus(back, pairs) ==
  [kind |-> "naf", back |-> <<back, back>>, i |-> 255, acc |-> BackIdentity(back),
   digits |-> [j \in DOMAIN pairs |-> NonAdjacentForm(pairs[j][1], 5)],
   tables |-> [j \in DOMAIN pairs |-> NafLookupTable(back, pairs[j][2], 8)]]
\* The first pair is dynamic, the second has a table made before: its entries are affine in
\* the serial backend.
StaticBack(back) == IF back = "serial" THEN "affine" ELSE back
PrecomputedStraus(back, pairs) ==
  [kind |-> "naf", back |-> <<back, StaticBack(back)>>, i |-> 255, acc |-> BackIdentity(back),
   digits |-> [j \in 1..2 |-> NonAdjacentForm(pairs[j][1], 5)],
   tables |-> <<NafLookupTable(back, pairs[1][2], 8), NafLookupTable(StaticBack(back), pairs[2][2], 64)>>]
\* aA + bB: the basepoint's form has width 8, and the loop starts at the top nonzero digit.
TopDigit(a_naf, b_naf) == Max({i \in 0..255 : i = 0 \/ a_naf[i] # 0 \/ b_naf[i] # 0})
DoubleBaseOf(back, p, a_naf, b_naf) ==
  [kind |-> "naf", back |-> <<back, StaticBack(back)>>, i |-> TopDigit(a_naf, b_naf), acc |-> BackIdentity(back),
   digits |-> <<a_naf, b_naf>>,
   tables |-> <<NafLookupTable(back, p, 8), OddMultiplesOfBasepoint(StaticBack(back))>>]
VartimeDoubleBase(back, pairs) ==
  DoubleBaseOf(back, pairs[1][2], NonAdjacentForm(pairs[1][1], 5), NonAdjacentForm(pairs[2][1], 8))
NafTurn(job) ==
  FoldLeftDomain(LAMBDA x, j : AddNaf(job.back[j], x, job.tables[j], job.digits[j][job.i]),
                 BackDouble(job.back[1], job.acc), job.tables)

\* Pippenger: w by the number of pairs; a column's points go to the bucket of their digit.
PippengerWidth(size) == CASE size < 500 -> 6 [] size \in 500..799 -> 7 [] OTHER -> 8
\* Equal scalars and equal points are recoded and cached once.
PippengerOf(back, pairs, w, radix, cached) ==
  [kind |-> "pippenger", back |-> back, i |-> ToRadix2wSizeHint(w) - 1, w |-> w, acc |-> None,
   digits |-> [j \in DOMAIN pairs |-> radix[pairs[j][1]]],
   tables |-> [j \in DOMAIN pairs |-> cached[pairs[j][2]]]]
Pippenger(back, pairs) ==
  LET w == PippengerWidth(Len(pairs))
  IN  PippengerOf(back, pairs, w, [s \in {pairs[j][1] : j \in DOMAIN pairs} |-> ToRadix2w(s, w)],
                  [p \in {pairs[j][2] : j \in DOMAIN pairs} |-> Cache(back, Lift(back, p))])
ToBucket(job, buckets, j) ==
  LET digit == job.digits[j][job.i]
  IN  CASE digit > 0 -> [buckets EXCEPT ![digit] = AddCached(job.back, @, job.tables[j])]
        [] digit < 0 -> [buckets EXCEPT ![-digit] = SubCached(job.back, @, job.tables[j])]
        [] OTHER -> buckets
PlusCached(back, x, y) == AddCached(back, x, Cache(back, y))
BucketNext(back, st, mid) == [j |-> st.j - 1, mid |-> mid, sum |-> PlusCached(back, st.sum, mid)]
BucketSum(back, buckets) ==
  LET n == Len(buckets)
  IN  Iterate(LAMBDA st : BucketNext(back, st, PlusCached(back, st.mid, buckets[st.j])),
              [j |-> n - 1, mid |-> buckets[n], sum |-> buckets[n]], n - 1).sum
EmptyBuckets(job) == [j \in 1..(2 ^ (job.w - 1)) |-> BackIdentity(job.back)]
Column(job) ==
  BucketSum(job.back, Iterate(LAMBDA st : [j |-> st.j + 1, buckets |-> ToBucket(job, st.buckets, st.j)],
                              [j |-> 1, buckets |-> EmptyBuckets(job)], Len(job.tables)).buckets)
AddColumn(job, column) ==
  IF job.acc = None THEN column ELSE PlusCached(job.back, BackPow2(job.back, job.acc, job.w), column)
PippengerTurn(job) == AddColumn(job, Column(job))
\* optional_multiscalar_mul
VartimeMultiscalar(back, pairs) == IF Len(pairs) < 190 THEN VartimeStraus(back, pairs) ELSE Pippenger(back, pairs)

\* basepoint_mul: the odd digits, w doublings, the even digits; the order of the turns.
TableMul(w, scalar) ==
  [kind |-> "table", back |-> "affine", i |-> Additions(w) - 1, w |-> w, acc |-> Identity,
   digits |-> <<ToRadix2w(scalar, w)>>, tables |-> BasepointTables[w]]
TableOrder(w) ==
  [k \in 1..(Additions(w) \div 2) |-> 2 * k - 1] \o [k \in 1..((Additions(w) + 1) \div 2) |-> 2 * k - 2]
TableStep(job, turn) ==
  AddCached("affine", IF turn = 0 THEN BackPow2("affine", job.acc, job.w) ELSE job.acc,
            Lookup("affine", job.tables[(turn \div 2) + 1], job.digits[1][turn]))
TableTurn(job) == TableStep(job, TableOrder(job.w)[Additions(job.w) - job.i])

\* The Montgomery ladder: the 255 low bits from the top; swaps when two bits differ.
MontgomeryLadder(u, scalar) ==
  [kind |-> "ladder", back |-> "montgomery", i |-> 254, affine |-> FromBytes(u), bits |-> ScalarBits(scalar),
   acc |-> <<LadderIdentity, [U |-> FromBytes(u), W |-> One]>>]
LadderTurn(job) ==
  LET x == LadderSwap(job.acc[1], job.acc[2], job.bits[job.i + 1] # job.bits[job.i])
  IN  DifferentialAddAndDouble(x[1], x[2], job.affine)
LadderResult(job) == LadderToAffine(LadderSwap(job.acc[1], job.acc[2], job.bits[0] = 1)[1])

\* One turn of a job's loop, and what it returns after the last: the serial loops over
\* non-adjacent forms keep a projective point.
Turn(job) ==
  CASE job.kind = "variable" -> VariableBaseTurn(job)
    [] job.kind = "straus" -> StrausTurn(job)
    [] job.kind = "naf" -> NafTurn(job)
    [] job.kind = "pippenger" -> PippengerTurn(job)
    [] job.kind = "table" -> TableTurn(job)
    [] job.kind = "ladder" -> LadderTurn(job)
Result(job) ==
  IF job.kind = "naf"
  THEN IF job.back[1] = "serial" THEN ProjectiveToExtended(ToProjective(job.acc)) ELSE Lower(job.back[1], job.acc)
  ELSE Lower(job.back, job.acc)
\* A job run to its end
Ended(job) == IF job.kind = "ladder" THEN LadderResult(job) ELSE Result(job)
Run(job) == Ended(Iterate(LAMBDA j : [j EXCEPT !.acc = Turn(j), !.i = @ - 1], job, job.i + 1))

\* Scalar multiplication of the public types; ristretto points multiply their representatives.
EdwardsMul(p, s) == Run(VariableBase("serial", << <<s, p>> >>))
IsTorsionFree(p) == IsIdentity(EdwardsMul(p, BASEPOINT_ORDER))
MontgomeryMulScalar(u, s) == Run(MontgomeryLadder(u, s))
RistrettoMul(p, s) == EdwardsMul(p, s)
RistrettoMultiscalarMul(pairs) == Run(Straus("serial", pairs))
RistrettoVartimeMultiscalarMul(pairs) == Run(VartimeMultiscalar("serial", pairs))
RistrettoPrecomputedMul(pairs) == Run(PrecomputedStraus("serial", pairs))
RistrettoDoubleBase(pairs) == Run(VartimeDoubleBase("serial", pairs))
RistrettoTableMul(s) == Run(TableMul(4, s))
=============================================================================
