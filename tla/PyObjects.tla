---------------------------- MODULE PyObjects ----------------------------
(***************************************************************************)
(* The group classes the native library exports to Python (lib.rs): G1,    *)
(* G2, GT and Curve25519G.  An object is a group element and a table of    *)
(* precomputed multiples (pp, pplevel) that preprocess builds and ppmul,   *)
(* pppow and pow read.  Every method that changes the element is expected  *)
(* to drop the table.  A panic is a Python exception (pyo3 0.10 catches    *)
(* it): the object lives on as the method left it.                         *)
(*                                                                         *)
(* Elements of G1, G2 and Curve25519G are their discrete logarithms in a   *)
(* group of the small prime order Order; elements of GT are elements of    *)
(* the field of P elements, the pairing's results being the powers of Gen. *)
(* Scalars are sets of bit positions at their real width, and the windows  *)
(* of ppmul are the real ones: only the group is small.                    *)
(***************************************************************************)
EXTENDS Integers, FiniteSets, FiniteSetsExt

CONSTANTS
  Objs,     \* the Python variables that hold objects of the class
  Order,    \* the (small) order of G1, G2 and Curve25519G
  P, Gen,   \* GT lives in the field of P elements; Gen has order Order
  Levels,   \* the levels a program preprocesses with
  Scalars   \* the scalars it multiplies by: sets of bit positions

ASSUME ObjsAssumption == Cardinality(Objs) >= 2
ASSUME GroupAssumption == Order \in Nat \ {0, 1} /\ P \in Nat \ {0, 1} /\ Gen \in 1..P-1
ASSUME LevelsAssumption == Levels \subseteq 0..16
ASSUME ScalarsAssumption == Scalars \subseteq SUBSET (0..254)

Classes == {"G1", "G2", "GT", "Curve25519G"}
NoTable == -1

VARIABLES
  cls,      \* the class this behaviour is about
  obj       \* variable -> [val, pp, pplevel]; pp: the element the table was built from

vars == <<cls, obj>>

---------------------------------------------------------------------------
(* The groups.                                                             *)

Values(c) == IF c = "GT" THEN 0..P-1 ELSE 0..Order-1
Identity(c) == IF c = "GT" THEN 1 ELSE 0
Op(c, x, y) == IF c = "GT" THEN (x * y) % P ELSE (x + y) % Order
Neg(c, x) == CHOOSE y \in Values(c) : Op(c, x, y) = Identity(c)

\* What G1::random, G2::random, Fq12::random and RistrettoPoint::random draw from.
Random(c) == IF c \in {"G1", "G2"} THEN Values(c) \ {0} ELSE Values(c)

\* Fr has 255 bits; a Curve25519 scalar is below 2^252 + 2^125.
ScalarsOf(c) == IF c = "Curve25519G" THEN {s \in Scalars : s \subseteq 0..252} ELSE Scalars

\* A scalar modulo m, bit by bit.
Residue(s, m) ==
  LET two[k \in 0..263] == IF k = 0 THEN 1 % m
                           ELSE LET h == two[k \div 2] IN (h * h * (1 + (k % 2))) % m
  IN  MapThenSumSet(LAMBDA k : two[k], s) % m

\* x added to itself (in GT: multiplied by itself) as often as the scalar s says:
\* mul_assign in G1, G2 and Curve25519G, pow in GT.
Multiple(c, x, s) ==
  IF c # "GT" THEN (x * Residue(s, Order)) % Order
  ELSE IF x = 0 THEN (IF s = {} THEN 1 ELSE 0)
  ELSE (x^Residue(s, P - 1)) % P

\* The results of Multiple, computed once: TIMES[c][x][s].
TIMES == [c \in Classes |-> [x \in Values(c) |-> [s \in ScalarsOf(c) |-> Multiple(c, x, s)]]]

\* The pairing of two elements: Gen to the product of their logarithms.
PairingOf(x, y) ==
  LET pow[n \in 0..Order * Order] == IF n = 0 THEN 1 ELSE (pow[n - 1] * Gen) % P
  IN  pow[x * y]

---------------------------------------------------------------------------
(* The preprocessing tables.  A table of level L holds, window after       *)
(* window, the 2^L - 1 nonzero digits' multiples.                          *)

\* Variant: one window too few.
TableLenG1Short(L) == (2^L - 1) * (255 \div L)
TableLenG1(L) == (2^L - 1) * ((255 + L - 1) \div L)
TableLenG2(L) == ((2^L - 1) * (255 + L - 1)) \div L
TableLenGT(L) == ((2^L - 1) * (255 + L - 1)) \div L
TableLenRistG(L) == (2^L - 1) * ((252 + L - 1) \div L)

TableLen(c, L) ==
  CASE c = "G1" -> TableLenG1(L) [] c = "G2" -> TableLenG2(L)
    [] c = "GT" -> TableLenGT(L) [] c = "Curve25519G" -> TableLenRistG(L)

\* hex_to_bin of the scalar's text, as the set of the positions (from the right) that
\* hold '1'.  An Fr prints as "Fr(0x" and 64 hex digits: the 'F' is a hex digit too and
\* the '0' of "0x" another, the remaining characters vanish.
HexToBin(c, s) == IF c = "Curve25519G" THEN s ELSE s \cup 260..263
BinLen(c) == IF c = "Curve25519G" THEN 256 ELSE 264

\* The windows ppmul adds a table entry for: a window is added when the scan reaches the
\* next one, so the last is not, except that Curve25519G adds it at bit 255.
FlushedHex(L) == 0..(263 \div L - 1)
\* Variant: the incomplete last window is dropped.
FlushedRistGNoTail(L) == 0..(255 \div L - 1)
FlushedRistG(L) == 0..(255 \div L)
Flushed(c, L) == IF c = "Curve25519G" THEN FlushedRistG(L) ELSE FlushedHex(L)

\* The table entry of window w's digit, and the multiples the walk adds up.
Digit(L, bits, w) == MapThenSumSet(LAMBDA k : 2^(k % L), {k \in bits : k \div L = w})
Entry(L, bits, w) == (2^L - 1) * w + (Digit(L, bits, w) - 1)

\* Where ppmul ends for a scalar: the set of scalar bits its additions amount to, and
\* whether an index beyond the table ends it before the last one.
Walk(c, L, s) ==
  LET bits == HexToBin(c, s)
      used == {w \in Flushed(c, L) : \E k \in bits : k \div L = w}
      beyond == {w \in used : Entry(L, bits, w) >= TableLen(c, L)}
  IN  [bits |-> {k \in bits : k \div L \in used /\ \A w \in beyond : k \div L < w},
       raises |-> beyond # {}]

\* What the walk over x's table adds up to, for every class, level, scalar and x,
\* computed once.
WALKS ==
  [c \in Classes |-> [L \in Levels \ {0} |-> [s \in ScalarsOf(c) |->
     LET w == Walk(c, L, s)
     IN  [x \in Values(c) |-> [val |-> Multiple(c, x, w.bits), raises |-> w.raises]]]]]

\* ppmul and pppow: what is stored in out for the object x, and whether they raise.  At
\* level 0 the first bit's position is divided by zero, when out is the identity.
PpMul(c, x, s) ==
  IF x.pp = NoTable THEN [val |-> TIMES[c][x.val][s], raises |-> FALSE]
  ELSE IF x.pplevel = 0 THEN [val |-> Identity(c), raises |-> TRUE]
  ELSE WALKS[c][x.pplevel][s][x.pp]

\* The levels for which the last window added ends between the scalar's last bit and
\* the 'F' (hexadecimal text), or the table has room for bit 252 (Curve25519G).
SoundLevel(c, L) ==
  IF c = "Curve25519G" THEN 252 % L # 0 ELSE 255 <= L * (263 \div L) /\ L * (263 \div L) <= 260

---------------------------------------------------------------------------
(* The steps methods are made of.                                          *)

Obj(c) == [val : Values(c), pp : Values(c) \cup {NoTable}, pplevel : Levels]
Fresh(v) == [val |-> v, pp |-> NoTable, pplevel |-> 0]

\* self.g = v; the table is dropped if there is one.
Assign(o, v) ==
  /\ obj' = [obj EXCEPT ![o] =
               [val |-> v,
                pp |-> IF @.pplevel # 0 THEN NoTable ELSE @.pp,
                pplevel |-> 0]]
  /\ UNCHANGED cls

\* out.g = v or self.g = v, and nothing else.
Store(o, v) == obj' = [obj EXCEPT ![o].val = v] /\ UNCHANGED cls

\* o is bound to a new object.
Bind(o, v) == obj' = [obj EXCEPT ![o] = Fresh(v)] /\ UNCHANGED cls

\* unwrap() of a failure, an index out of bounds, before anything was written.
Raise == UNCHANGED vars

\* preprocess sets the level first: at level 0 it then divides by it, and the panic leaves
\* the table there was.
Preprocess(o, L) ==
  /\ obj' = [obj EXCEPT ![o].pp = IF L = 0 THEN @ ELSE obj[o].val, ![o].pplevel = L]
  /\ UNCHANGED cls

Power(o, s) == PpMul(cls, obj[o], s)

\* r is bound to o's power, unless that raises.
BindPower(o, s, r) == IF Power(o, s).raises THEN Raise ELSE Bind(r, Power(o, s).val)

\* The seed of randomize and rand is copied into eight words; a ninth panics.
SeedLengths == {8, 9}
DrawInto(o, n) == IF n > 8 THEN Raise ELSE \E v \in Random(cls) : Assign(o, v)
DrawNew(o, n) == IF n > 8 THEN Raise ELSE \E v \in Random(cls) : Bind(o, v)

---------------------------------------------------------------------------
(* class G1                                                                *)

G1New(o) == cls = "G1" /\ Bind(o, 1)

\* randomize, load_fq_proj, load_fq_affine
G1Load(o) ==
  /\ cls = "G1"
  /\ \/ \E n \in SeedLengths : DrawInto(o, n)
     \/ \E v \in Values("G1") : Assign(o, v)

\* one, zero, double, negate, affine_negate, add_assign, sub_assign, mul_assign
G1Arith(o, other, s) ==
  /\ cls = "G1"
  /\ \/ Assign(o, 1)
     \/ Assign(o, 0)
     \/ Assign(o, Op("G1", obj[o].val, obj[o].val))
     \/ Assign(o, Neg("G1", obj[o].val))
     \/ Assign(o, Op("G1", obj[o].val, obj[other].val))
     \/ Assign(o, Op("G1", obj[o].val, Neg("G1", obj[other].val)))
     \/ Assign(o, TIMES["G1"][obj[o].val][s])

\* Variant: __copy__ into a variable keeps the table it had.
G1CopyKeepsTable(o, other) == cls = "G1" /\ Store(o, obj[other].val)
G1Copy(o, other) == cls = "G1" /\ Assign(o, obj[other].val)

\* __setstate__ of other's __getstate__, or of bytes that are no point
G1SetState(o, other) == cls = "G1" /\ (Assign(o, obj[other].val) \/ Raise)

G1Preprocess(o, L) == cls = "G1" /\ Preprocess(o, L)

G1PpMul(o, s, out) ==
  /\ cls = "G1"
  /\ Store(out, Power(o, s).val)

\* pow: the result is a new object
G1Pow(o, s, r) ==
  /\ cls = "G1"
  /\ BindPower(o, s, r)

\* hash, hash_many, identity, rand
G1Make(o) ==
  /\ cls = "G1"
  /\ \/ \E v \in Random("G1") : Bind(o, v)
     \/ Bind(o, 0)
     \/ \E n \in SeedLengths : DrawNew(o, n)

\* __mul__, __imul__, __truediv__, __pow__
G1Number(o, other, s, r) ==
  /\ cls = "G1"
  /\ \/ Bind(r, Op("G1", obj[o].val, obj[other].val))
     \/ Assign(o, Op("G1", obj[o].val, obj[other].val))
     \/ Bind(r, Op("G1", obj[o].val, Neg("G1", obj[other].val)))
     \/ BindPower(o, s, r)

\* blsmultiexp of two pairs: the sum of the objects' pow
BlsMultiExp(o, other, s, t, r) ==
  /\ cls = "G1"
  /\ IF Power(o, s).raises \/ Power(other, t).raises
     THEN Raise
     ELSE Bind(r, Op("G1", Op("G1", 0, Power(o, s).val), Power(other, t).val))

---------------------------------------------------------------------------
(* class G2                                                                *)

G2New(o) == cls = "G2" /\ Bind(o, 1)

\* randomize, load_fq_proj, load_fq_affine; load_fq_affine keeps the infinity flag of
\* the point it overwrites
G2Load(o) ==
  /\ cls = "G2"
  /\ \/ \E n \in SeedLengths : DrawInto(o, n)
     \/ \E v \in Values("G2") : Assign(o, v)
     \/ \E v \in Values("G2") \ {0} : Assign(o, IF obj[o].val = 0 THEN 0 ELSE v)

\* one, zero, double, negate, affine_negate, add_assign, sub_assign, mul_assign
G2Arith(o, other, s) ==
  /\ cls = "G2"
  /\ \/ Assign(o, 1)
     \/ Assign(o, 0)
     \/ Assign(o, Op("G2", obj[o].val, obj[o].val))
     \/ Assign(o, Neg("G2", obj[o].val))
     \/ Assign(o, Op("G2", obj[o].val, obj[other].val))
     \/ Assign(o, Op("G2", obj[o].val, Neg("G2", obj[other].val)))
     \/ Assign(o, TIMES["G2"][obj[o].val][s])

G2Pow(o, s, r) ==
  /\ cls = "G2"
  /\ BindPower(o, s, r)

G2Copy(o, other) == cls = "G2" /\ Assign(o, obj[other].val)

\* Variant: the level is recorded and the table is not stored.
G2PreprocessForgets(o, L) ==
  cls = "G2" /\ obj' = [obj EXCEPT ![o].pplevel = L] /\ UNCHANGED cls
G2Preprocess(o, L) == cls = "G2" /\ Preprocess(o, L)

G2PpMul(o, s, out) ==
  /\ cls = "G2"
  /\ Store(out, Power(o, s).val)

\* hash, hash_many, identity, rand
G2Make(o) ==
  /\ cls = "G2"
  /\ \/ \E v \in Random("G2") : Bind(o, v)
     \/ Bind(o, 0)
     \/ \E n \in SeedLengths : DrawNew(o, n)

\* __mul__, __imul__, __pow__
G2Number(o, other, s, r) ==
  /\ cls = "G2"
  /\ \/ Bind(r, Op("G2", obj[o].val, obj[other].val))
     \/ Assign(o, Op("G2", obj[o].val, obj[other].val))
     \/ BindPower(o, s, r)

---------------------------------------------------------------------------
(* class GT                                                                *)

GTNew(o) == cls = "GT" /\ Bind(o, 0)

\* randomize, from_strs
GTLoad(o) ==
  /\ cls = "GT"
  /\ \/ \E n \in SeedLengths : DrawInto(o, n)
     \/ \E v \in Values("GT") : Assign(o, v)

\* conjugate inverts the elements of the pairing's group; of another unit it is a unit the
\* model leaves open.
Conjugates(x) ==
  CASE x = 0 -> {0}
    [] \E n \in 0..Order-1 : x = PairingOf(1, n) -> {Neg("GT", x)}
    [] OTHER -> Values("GT") \ {0}

\* add_assign, sub_assign, mul_assign, pow_assign, inverse, conjugate
GTArith(o, other, s) ==
  /\ cls = "GT"
  /\ \/ Assign(o, (obj[o].val + obj[other].val) % P)
     \/ Assign(o, (obj[o].val - obj[other].val) % P)
     \/ Assign(o, Op("GT", obj[o].val, obj[other].val))
     \/ Assign(o, TIMES["GT"][obj[o].val][s])
     \/ IF obj[o].val = 0 THEN Raise ELSE Assign(o, Neg("GT", obj[o].val))
     \/ \E v \in Conjugates(obj[o].val) : Assign(o, v)

GTPreprocess(o, L) == cls = "GT" /\ Preprocess(o, L)

GTPpPow(o, s, out) ==
  /\ cls = "GT"
  /\ Store(out, Power(o, s).val)

\* one, zero, copy
GTCopy(o, other) ==
  /\ cls = "GT"
  /\ \/ Assign(o, 1)
     \/ Assign(o, 0)
     \/ Assign(o, obj[other].val)

GTMake(o) == cls = "GT" /\ \E n \in SeedLengths : DrawNew(o, n)

\* __mul__, __imul__, __pow__
GTNumber(o, other, s, r) ==
  /\ cls = "GT"
  /\ \/ Bind(r, Op("GT", obj[o].val, obj[other].val))
     \/ Assign(o, Op("GT", obj[o].val, obj[other].val))
     \/ BindPower(o, s, r)

\* G1.py_pairing_with and G2.py_pairing_with store the pairing in the GT object they are
\* given; pair returns a new one.
G1PairingWith(r) == cls = "GT" /\ \E x \in Values("G1"), y \in Values("G2") : Store(r, PairingOf(x, y))
G2PairingWith(r) == cls = "GT" /\ \E y \in Values("G2"), x \in Values("G1") : Store(r, PairingOf(x, y))
Pair(r) == cls = "GT" /\ \E x \in Values("G1"), y \in Values("G2") : Bind(r, PairingOf(x, y))

---------------------------------------------------------------------------
(* class Curve25519G                                                       *)

RistGNew(o) == cls = "Curve25519G" /\ Bind(o, 0)

\* one (the identity), negate, add_assign, sub_assign, mul_assign, copy
RistGArith(o, other, s) ==
  /\ cls = "Curve25519G"
  /\ \/ Assign(o, 0)
     \/ Assign(o, Neg(cls, obj[o].val))
     \/ Assign(o, Op(cls, obj[o].val, obj[other].val))
     \/ Assign(o, Op(cls, obj[o].val, Neg(cls, obj[other].val)))
     \/ Assign(o, TIMES[cls][obj[o].val][s])
     \/ Assign(o, obj[other].val)

\* __setstate__ of other's __getstate__; bytes that are no point raise a TypeError
RistGSetState(o, other) == cls = "Curve25519G" /\ Store(o, obj[other].val)

RistGPreprocess(o, L) == cls = "Curve25519G" /\ Preprocess(o, L)

RistGPpMul(o, s, out) ==
  /\ cls = "Curve25519G"
  /\ Store(out, Power(o, s).val)

RistGPow(o, s, r) ==
  /\ cls = "Curve25519G"
  /\ BindPower(o, s, r)

\* hash, hash_many, identity, rand
RistGMake(o) ==
  /\ cls = "Curve25519G"
  /\ \/ \E v \in Random(cls) : Bind(o, v)
     \/ Bind(o, 0)
     \/ \E n \in SeedLengths : DrawNew(o, n)

\* __mul__, __imul__, __truediv__, __pow__
RistGNumber(o, other, s, r) ==
  /\ cls = "Curve25519G"
  /\ \/ Bind(r, Op(cls, obj[o].val, obj[other].val))
     \/ Assign(o, Op(cls, obj[o].val, obj[other].val))
     \/ Bind(r, Op(cls, obj[o].val, Neg(cls, obj[other].val)))
     \/ BindPower(o, s, r)

\* curve25519multiexp of two pairs: the elements, not the tables, are multiplied
Curve25519MultiExp(o, other, s, t, r) ==
  /\ cls = "Curve25519G"
  /\ Bind(r, Op(cls, TIMES[cls][obj[o].val][s], TIMES[cls][obj[other].val][t]))

---------------------------------------------------------------------------
Init ==
  /\ cls \in Classes
  /\ obj = [o \in Objs |-> Fresh(CASE cls \in {"G1", "G2"} -> 1 [] OTHER -> 0)]

\* An object cannot be self and other (or out) of one call: the cell is borrowed.
Next ==
  \E o \in Objs :
    \/ G1New(o) \/ G1Load(o) \/ G1Make(o)
    \/ G2New(o) \/ G2Load(o) \/ G2Make(o)
    \/ GTNew(o) \/ GTLoad(o) \/ GTMake(o) \/ G1PairingWith(o) \/ G2PairingWith(o) \/ Pair(o)
    \/ RistGNew(o) \/ RistGMake(o)
    \/ \E L \in Levels :
         G1Preprocess(o, L) \/ G2Preprocess(o, L) \/ GTPreprocess(o, L) \/ RistGPreprocess(o, L)
    \/ \E other \in Objs \ {o} :
         G1Copy(o, other) \/ G1SetState(o, other) \/ G2Copy(o, other) \/ GTCopy(o, other)
           \/ RistGSetState(o, other)
    \/ \E s \in ScalarsOf(cls), r \in Objs : G1Pow(o, s, r) \/ G2Pow(o, s, r) \/ RistGPow(o, s, r)
    \/ \E other \in Objs \ {o}, s \in ScalarsOf(cls) :
         \/ G1Arith(o, other, s) \/ G1PpMul(o, s, other)
         \/ G2Arith(o, other, s) \/ G2PpMul(o, s, other)
         \/ GTArith(o, other, s) \/ GTPpPow(o, s, other)
         \/ RistGArith(o, other, s) \/ RistGPpMul(o, s, other)
    \/ \E other \in Objs \ {o}, s \in ScalarsOf(cls), r \in Objs :
         \/ G1Number(o, other, s, r) \/ G2Number(o, other, s, r)
         \/ GTNumber(o, other, s, r) \/ RistGNumber(o, other, s, r)
         \/ \E t \in ScalarsOf(cls) :
              BlsMultiExp(o, other, s, t, r) \/ Curve25519MultiExp(o, other, s, t, r)

Spec == Init /\ [][Next]_vars

---------------------------------------------------------------------------
(* Properties                                                              *)

\* Every object has an element of its class, and one with a level has a table.  (The
\* converse fails: preprocess(0) takes the level of an object and leaves its table.)
TypeOK ==
  /\ cls \in Classes
  /\ obj \in [Objs -> Obj(cls)]
  /\ \A o \in Objs : obj[o].pplevel # 0 => obj[o].pp # NoTable

\* ppmul would walk the table, and it is the table of another element.
Stale(x) == x.pplevel # 0 /\ x.pp # x.val

\* A table with a level stays the one of the object's element through every method, a
\* preprocess that raises and is tried again included, except where the object is the out
\* argument of ppmul or pppow, the result argument of py_pairing_with, or a Curve25519G
\* whose __setstate__ is called: those write the element and keep table and level.
TablesFollowElements ==
  [][\A o \in Objs : ~Stale(obj[o]) /\ Stale(obj'[o]) =>
       \/ G1PairingWith(o) \/ G2PairingWith(o)
       \/ \E other \in Objs \ {o} :
            \/ RistGSetState(o, other)
            \/ \E s \in ScalarsOf(cls) :
                 \/ G1PpMul(other, s, o) \/ G2PpMul(other, s, o)
                 \/ GTPpPow(other, s, o) \/ RistGPpMul(other, s, o)]_vars

\* With a table that is not stale, built at a sound level, ppmul, pppow and pow compute
\* the scalar multiple, bit for bit what the plain multiplication does, and never raise;
\* a table that a raising preprocess left is never read for a result.
TablesMultiply ==
  \A o \in Objs, s \in ScalarsOf(cls) :
    LET power == PpMul(cls, obj[o], s)
    IN  ~Stale(obj[o]) /\ (obj[o].pplevel = 0 \/ SoundLevel(cls, obj[o].pplevel))
          => \/ power = [val |-> TIMES[cls][obj[o].val][s], raises |-> FALSE]
             \/ power.raises /\ obj[o].pplevel = 0 /\ obj[o].pp # NoTable

\* The levels at which every scalar's walk amounts to the scalar.
EXACT ==
  [c \in Classes |-> {L \in 1..16 : \A s \in ScalarsOf(c) : Walk(c, L, s) = [bits |-> s, raises |-> FALSE]}]

\* The sound levels are the only ones: at any other level between 1 and 16 some scalar's
\* ppmul raises or adds up to another multiple, the letter F of the scalar's text being
\* read as a digit or the top bits never being added.
OtherLevelsMiscompute == EXACT[cls] = {L \in 1..16 : SoundLevel(cls, L)}
=============================================================================
