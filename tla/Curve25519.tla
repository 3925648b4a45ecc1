----------------------------- MODULE Curve25519 -----------------------------
(***************************************************************************)
(* The curve code of the vendored curve25519-dalek as a register machine   *)
(* on a small curve of the same shape: two points a and b, the operations  *)
(* of edwards.rs, montgomery.rs and ristretto.rs on them, and one scalar   *)
(* multiplication at a time (a job), advanced loop turn by loop turn.      *)
(***************************************************************************)
EXTENDS ScalarMul

CONSTANTS
  Starts,  \* logarithms of the initial contents of b
  Scales,  \* values of Z the initial points are scaled by
  Sizes,   \* numbers of pairs given to a multiscalar multiplication
  Steps    \* bound on the register operations of a run

VARIABLES ra, rb, ru, given, last, task, taken

vars == <<ra, rb, ru, given, last, task, taken>>

-----------------------------------------------------------------------------
(* The group, by the affine addition law: the logarithm of every point to  *)
(* a generator, the reference for everything that follows.                 *)

GroupOrder == Cardinality(OnCurve)
G == 0..(GroupOrder - 1)
AffineQuotients(p, q, t) ==
  <<(((p[1] * q[2] + q[1] * p[2]) % P) * InverseTable[(1 + t) % P]) % P,
    (((p[2] * q[2] + p[1] * q[1]) % P) * InverseTable[(1 - t) % P]) % P>>
AffineSum(p, q) == AffineQuotients(p, q, (EDWARDS_D.v * ((((p[1] * q[1]) % P) * ((p[2] * q[2]) % P)) % P)) % P)
AffineTwice(q) == AffineSum(q, q)
Multiple(p, k) ==
  LET h[j \in 0..k] == CASE j = 0 -> <<0, 1>>
                         [] j > 0 /\ j % 2 = 0 -> AffineTwice(h[j \div 2])
                         [] OTHER -> AffineSum(h[j - 1], p)
  IN  h[k]
\* A point whose order is the group's
Generator == CHOOSE xy \in OnCurve : {Multiple(xy, g) : g \in G} = OnCurve
Points == [g \in G |-> Multiple(Generator, g)]
Logs == [xy \in OnCurve |-> CHOOSE g \in G : Points[g] = xy]
Affine(p) == <<(p.X.v * InverseTable[p.Z.v]) % P, (p.Y.v * InverseTable[p.Z.v]) % P>>
Log(p) == Logs[Affine(p)]
Scaled(xy, z) ==
  [X |-> Elem(xy[1] * z), Y |-> Elem(xy[2] * z), Z |-> Elem(z), T |-> Elem(((xy[1] * xy[2]) % P) * z)]
PointAt(g, z) == Scaled(Points[g], z)
LogsOfU == [w \in F |-> {g \in G : ToMontgomery(PointAt(g, 1)) = w}]
Terms == [j \in DOMAIN given |-> <<ValueMod(given[j][1], GroupOrder),
                                    IF given[j][2] = None THEN 0 ELSE Log(given[j][2])>>]

Group == INSTANCE GroupRegisters
           WITH N <- GroupOrder, op <- last, ga <- Log(ra), gb <- Log(rb), gu <- LogsOfU[ru], terms <- Terms

-----------------------------------------------------------------------------
(* Scalars that exercise the recodings: zero, one, all 255 bits (from_bits *)
(* does not reduce), a nibble pattern that carries all the way, the top    *)
(* bit alone, a mixed one and the order.                                   *)

AllBits == 0..254
Eights == {i \in 0..254 : i % 4 = 3}
Mixed == {i \in 0..254 : (i * i + 3 * i) % 7 < 3}
Base == ED25519_BASEPOINT_POINT
InputLists ==
  {<< <<AllBits, PointAt(1, 5)>>, <<Mixed, PointAt(5, 1)>> >>,
   << <<Eights, PointAt(GroupOrder - 1, 1)>>, <<AllBits, Base>> >>,
   << <<Mixed, Base>>, <<Eights, Base>> >>,
   << <<AllBits, Base>>, <<ZeroScalar, Base>> >>,
   << <<Eights, Base>>, <<OneScalar, PointAt(52, 1)>> >>,
   << <<BASEPOINT_ORDER, PointAt(3, 1)>>, <<ZeroScalar, None>> >>}
\* size pairs, the inputs repeated
Pairs(size) == [j \in 1..size |-> given[((j - 1) % Len(given)) + 1]]
Complete == \A j \in DOMAIN given : given[j][2] # None

Idle == [kind |-> "idle"]
Init ==
  /\ last = <<"init", 0>> /\ task = Idle /\ taken = 0 /\ ru = 0
  /\ \/ /\ given = <<>>
        /\ \E g \in G, h \in Starts, z \in Scales : ra = PointAt(g, z) /\ rb = PointAt(h, 1)
     \/ /\ given \in InputLists
        /\ ra = Identity /\ rb = Identity

-----------------------------------------------------------------------------
(* Register operations                                                     *)

Ready == given = <<>> /\ taken < Steps
Does(name, arg) == last' = <<name, arg>> /\ taken' = taken + 1 /\ UNCHANGED <<ru, given, task>>

Add == Ready /\ ra' = EdwardsAdd(ra, rb) /\ Does("add", 0) /\ UNCHANGED rb
Sum == Ready /\ ra' = EdwardsSum(<<ra, rb>>) /\ Does("add", 1) /\ UNCHANGED rb
Sub == Ready /\ ra' = EdwardsSub(ra, rb) /\ Does("sub", 0) /\ UNCHANGED rb
Neg == Ready /\ ra' = EdwardsNeg(ra) /\ Does("neg", 0) /\ UNCHANGED rb
Double == Ready /\ ra' = EdwardsDouble(ra) /\ Does("pow2", 1) /\ UNCHANGED rb
Cofactor == Ready /\ ra' = MulByCofactor(ra) /\ Does("pow2", 3) /\ UNCHANGED rb
\* Out to a vector and back: double, add
VectorDouble(back) == Ready /\ ra' = Lower(back, BackDouble(back, Lift(back, ra))) /\ Does("pow2", 1) /\ UNCHANGED rb
VectorAdd(back) ==
  /\ Ready
  /\ ra' = Lower(back, AddCached(back, Lift(back, ra), Cache(back, Lift(back, rb))))
  /\ Does("add", 2) /\ UNCHANGED rb
VectorSub(back) ==
  /\ Ready
  /\ ra' = Lower(back, SubCached(back, Lift(back, ra), Cache(back, Lift(back, rb))))
  /\ Does("sub", 2) /\ UNCHANGED rb
\* conditional_select of both, with the choice set
Swap ==
  /\ Ready
  /\ ra' = EdwardsSelect(ra, rb, TRUE) /\ rb' = EdwardsSelect(rb, ra, TRUE)
  /\ Does("swap", 0)
\* Compressed and decompressed again: over serde, as a ristretto point, as a u-coordinate
Recode == Ready /\ ra' = Deserialize(Serialize(ra)) /\ Does("same", 0) /\ UNCHANGED rb
IsEven(p) == Log(p) % 2 = 0
RistrettoRecode ==
  /\ Ready /\ IsEven(ra)
  /\ ra' = RistrettoDecompress(RistrettoCompress(ra))
  /\ Does("coset", 0) /\ UNCHANGED rb
MontgomeryRecode ==
  /\ Ready
  /\ ra' = ToEdwards(ToMontgomery(ra), IF IsNegative(FMul(ra.X, Invert(ra.Z))) THEN 1 ELSE 0)
  /\ Does("lossy", 0) /\ UNCHANGED rb

RegisterStep ==
  \/ Add \/ Sum \/ Sub \/ Neg \/ Double \/ Cofactor \/ Swap
  \/ Recode \/ RistrettoRecode \/ MontgomeryRecode
  \/ \E back \in VectorBacks : VectorDouble(back) \/ VectorAdd(back) \/ VectorSub(back)

-----------------------------------------------------------------------------
(* Multiplications                                                         *)

Engines == {"serial", "avx2", "ifma"}
CanStart == given # <<>> /\ taken = 0 /\ task = Idle
\* size is the number of pairs of the sum the job computes
Begin(j, size) ==
  /\ task' = j @@ [size |-> size]
  /\ last' = <<"quiet", 0>> /\ taken' = 1
  /\ UNCHANGED <<ra, rb, ru, given>>

StartMul(back) == CanStart /\ Begin(VariableBase(back, Pairs(1)), 1)
StartStraus(back) == CanStart /\ Complete /\ Begin(Straus(back, Pairs(2)), 2)
\* A point that failed to decompress makes the whole sum None.
StartVartime(back, size) ==
  /\ CanStart
  /\ IF Complete THEN Begin(VartimeMultiscalar(back, Pairs(size)), size)
                 ELSE /\ last' = <<"quiet", 0>> /\ taken' = 1
                      /\ task' = [kind |-> "done"]
                      /\ UNCHANGED <<ra, rb, ru, given>>
StartPrecomputed(back) == CanStart /\ Complete /\ Begin(PrecomputedStraus(back, Pairs(2)), 2)
StartDoubleBase(back) ==
  /\ CanStart /\ given[2][2] = Base
  /\ Begin(VartimeDoubleBase(back, Pairs(2)), 2)
StartTable(w) ==
  /\ CanStart /\ given[1][2] = Base
  /\ Begin(TableMul(w, given[1][1]), 1)
StartLadder == CanStart /\ Begin(MontgomeryLadder(ToMontgomery(given[1][2]), given[1][1]), 1)

Running == task.kind \notin {"idle", "done"}
Advance ==
  /\ Running /\ task.i >= 0
  /\ task' = [task EXCEPT !.acc = Turn(task), !.i = @ - 1]
  /\ UNCHANGED <<ra, rb, ru, given, last, taken>>
Finish ==
  /\ Running /\ task.i < 0
  /\ IF task.kind = "ladder"
     THEN ru' = LadderResult(task) /\ ra' = ra /\ last' = <<"ladder", 0>>
     ELSE ra' = Result(task) /\ ru' = ru /\ last' = <<"multiscalar", task.size>>
  /\ task' = [kind |-> "done"]
  /\ UNCHANGED <<rb, given, taken>>

JobStep ==
  \/ Advance \/ Finish \/ StartLadder
  \/ \E back \in Engines :
       \/ StartMul(back) \/ StartStraus(back) \/ StartPrecomputed(back) \/ StartDoubleBase(back)
       \/ \E size \in Sizes : StartVartime(back, size)
  \/ \E w \in 4..8 : StartTable(w)

Next == RegisterStep \/ JobStep

Spec == Init /\ [][Next]_vars

-----------------------------------------------------------------------------
(* Properties                                                              *)

\* Every operation and every finished multiplication, on every backend, computes the group
\* operation; loop turns change no register.  A ristretto point may change its representative,
\* and a u-coordinate does not tell the identity from the point of order two.
GroupImplemented == Group!Spec

\* A point that can be read, or that a loop is working on, is on the curve and its T is XY/Z.
PointsValid ==
  /\ IsValid(ra) /\ IsValid(rb)
  /\ Running /\ task.kind # "ladder" /\ task.acc # None => IsValid(Result(task))

\* Additions and lazy negations are not reduced, and the formulas never stack more of them
\* than a multiplication, a square or a negation of the backend accepts.
Coordinates(x) ==
  IF task.kind = "ladder" THEN UNION {{q.U, q.W} : q \in {x[1], x[2]}} ELSE {x[k] : k \in DOMAIN x}
HeadroomKept ==
  /\ \A r \in {ra, rb} : \A k \in DOMAIN r : r[k].b < Over
  /\ Running /\ task.acc # None => \A e \in Coordinates(task.acc) : e.b < Over

Recoded == {AllBits, Eights, Mixed, {254}, {}, {0}, {63, 64}, {191, 252}, 60..130, AllBits \ {0}, BASEPOINT_ORDER,
            {i \in 0..254 : i % 5 = 4}, {i \in 0..254 : i % 8 = 7}}
Moduli == {9973, 10007, 8191}
DigitSum(d, w, m) ==
  LET top == Max(DOMAIN d)
  IN  Iterate(LAMBDA st : [i |-> st.i - 1, v |-> (st.v * 2 ^ w + d[st.i]) % m], [i |-> top, v |-> 0], top + 1).v
Represents(d, w, s) == \A m \in Moduli : DigitSum(d, w, m) = ValueMod(s, m)
RadixDigitsExact(d, s, w) ==
  /\ Represents(d, w, s)
  /\ \A i \in DOMAIN d : d[i] \in -(2 ^ (w - 1))..(2 ^ (w - 1)) /\ (i >= Additions(w) => d[i] = 0)
  /\ ToRadix2wSizeHint(w) = Additions(w)
NafDigitsExact(d, s, w) ==
  /\ Represents(d, 1, s)
  /\ \A i \in 0..255 : d[i] # 0 =>
       /\ d[i] % 2 = 1 /\ d[i] \in -(2 ^ (w - 1))..(2 ^ (w - 1))
       /\ \A j \in (i + 1)..(i + w - 1) : j < 256 => d[j] = 0
\* The exponents of the addition chains, modulo the moduli: p - 2, (p - 5) / 8 and l - 2 for
\* the real p and l.
AddExponents(x, y) == <<(x[1] + y[1]) % 9973, (x[2] + y[2]) % 10007>>
Chains == INSTANCE FieldPowers WITH Times <- AddExponents
OrderBytes == <<237, 211, 245, 92, 26, 99, 18, 88, 214, 156, 247, 162, 222, 249, 222, 20>>
OrderBits == UNION {{8 * (j - 1) + i : i \in BitsOf(OrderBytes[j])} : j \in 1..16} \cup {252}
ChainsExact ==
  LET x == <<1, 1>>
      power(bits, c) == <<(ValueMod(bits, 9973) - c) % 9973, (ValueMod(bits, 10007) - c) % 10007>>
  IN  /\ Chains!InvertChain(x) = power({255}, 21)
      /\ Chains!PowP58Chain(x) = power({252}, 3)
      /\ Chains!MontgomeryInvertChain(x) = power(OrderBits, 2)
\* Facts about operators alone are looked at once per list of inputs, not in every state.
Untouched == given # <<>> /\ taken = 0
\* A recoded scalar is the scalar: the signed digits sum to it, also when it is not reduced and
\* when a window crosses a word, no digit is outside its table and none is left over for the
\* loops; and an addition chain raises to the power it is named for.
RecodingsExact ==
  Untouched => /\ ChainsExact
               /\ \A s \in Recoded : /\ \A w \in 4..8 : RadixDigitsExact(ToRadix2w(s, w), s, w)
                                   /\ \A w \in {5, 8} : NafDigitsExact(NonAdjacentForm(s, w), s, w)

\* Inverses and square roots by powers: the four cases of sqrt_ratio_i; a batch inverts every
\* input or, on a zero, panics; the inverse of the scalar zero is zero, and unreduced scalars
\* are reduced by arithmetic, rejected by from_canonical_bytes.
RootExact(x, y, r) ==
  LET root == SquareMod(r[2].v)
  IN  /\ ~IsNegative(r[2])
      /\ CASE x = 0 -> r[1] /\ root = 0
           [] x # 0 /\ y = 0 -> ~r[1] /\ root = 0
           [] OTHER -> (y * root) % P = IF r[1] THEN x ELSE (SQRT_M1.v * x) % P
BatchExact(x, y, out) ==
  IF x = 0 \/ y = 0 THEN out = "panic"
  ELSE (out[1].v * x) % P = 1 /\ (out[2].v * 3) % P = 1 /\ (out[3].v * y) % P = 1
ScalarBatchExact(s, t, r) == r.out = <<ScalarInvert(s), ScalarInvert(t)>> /\ r.ret = ScalarProduct(r.out)
Inverses ==
  /\ \A x, y \in F : RootExact(x, y, SqrtRatioI(Elem(x), Elem(y)))
  /\ \A x, y \in {0, 1, 2, 77, P - 1} : BatchExact(x, y, BatchInvert(<<Elem(x), Elem(3), Elem(y)>>))
  /\ \A s \in Recoded :
       /\ Residue(ScalarMul(ScalarInvert(s), s)) = IF Residue(s) = 0 THEN 0 ELSE 1
       /\ FromCanonicalBytes(s) = IF IsCanonical(s) THEN s ELSE "None"
       /\ FromCanonicalBytes(s \cup {255}) = "None"
       /\ ScalarAdd(s, ScalarNeg(s)) = ZeroScalar /\ ScalarSub(s, s) = ZeroScalar
       /\ \A t \in Recoded :
            Residue(s) # 0 /\ Residue(t) # 0 => ScalarBatchExact(s, t, ScalarBatchInvert(<<s, t>>))

InversesExact == Untouched => Inverses

\* Encodings: every y of the curve decodes, whatever its sign bit, and a decoded point encodes
\* as itself when its bytes were canonical; a ristretto string decodes exactly when it is the
\* encoding of a coset, the four members of a coset have one encoding and no other coset has
\* it; the batched encoding of doubles agrees, or panics when a double is the identity's
\* coset; and hashing reaches only points of the right subgroup.
Strings == 0..(2 * SignBit - 1)
Evens == {g \in G : g % 2 = 0}
SameCoset(g, h) == (4 * (g - h)) % GroupOrder = 0
RistrettoCodes == [g \in Evens |-> RistrettoCompress(PointAt(g, 3))]
DecodedExact(s, y, p) ==
  /\ (p # None) <=> \E xy \in OnCurve : xy[2] = y.v
  /\ p # None => /\ p.Y = y
                 /\ (Compress(p) = s) <=> (s % SignBit < P /\ (IsNegative(p.X) <=> s >= SignBit))
InSubgroup(p, index) == p # None /\ IsValid(p) /\ Log(p) % index = 0
EdwardsEncodings ==
  /\ \A s \in Strings : /\ DecodedExact(s, FromBytes(s), Decompress(s))
                        /\ InSubgroup(EdwardsFromDigest(s), 8)
  /\ \A g \in G : /\ IsTorsionFree(PointAt(g, 2)) <=> g % 8 = 0
                  /\ IsSmallOrder(PointAt(g, 2)) <=> g % Order = 0
  /\ \A w \in 4..8 : EdwardsEq(TableBasepoint(BasepointTables[w]), Base)
RistrettoEncodings(codes) ==
  /\ \A s \in Strings : (RistrettoDecompress(s) # None) <=> \E g \in Evens : codes[g] = s
  /\ \A g, h \in Evens :
       /\ (codes[g] = codes[h]) <=> SameCoset(g, h)
       /\ RistrettoEq(PointAt(g, 1), PointAt(h, 2)) <=> SameCoset(g, h)
  /\ \A g \in Evens :
       /\ \A i \in 0..3 : RistrettoCompress(Coset4(PointAt(g, 1))[i]) = codes[g]
       /\ DoubleAndCompressBatch(<<PointAt(g, 3), PointAt(2, 1)>>) =
            IF SameCoset(2 * g, 0) THEN "panic" ELSE <<codes[(2 * g) % GroupOrder], codes[4]>>
  /\ \A x, y \in {1, 5, 6, 54, 102} : InSubgroup(FromUniformBytes(x, y), 2)
  /\ \A x \in F : InSubgroup(ElligatorRistrettoFlavor(Elem(x)), 2)
EncodingsUnique == Untouched => EdwardsEncodings /\ RistrettoEncodings(RistrettoCodes)
=============================================================================
