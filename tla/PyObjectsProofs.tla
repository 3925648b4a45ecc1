---------------------------- MODULE PyObjectsProofs ----------------------------
(***************************************************************************)
(* Which calls of the Python classes can leave an object with a table of   *)
(* another element: for any number of objects, any groups, levels and      *)
(* scalars.                                                                *)
(***************************************************************************)
EXTENDS PyObjects, TLAPS

(* Objects have the three fields.                                          *)
Shape(x) == x = [val |-> x.val, pp |-> x.pp, pplevel |-> x.pplevel]
TableInv ==
  /\ obj = [o \in Objs |-> obj[o]]
  /\ \A o \in Objs : Shape(obj[o])

(* No object gets stale, respectively no object but o.                     *)
NoneGetsStale == TableInv' /\ \A q \in Objs : Stale(obj'[q]) => Stale(obj[q])
OnlyGetsStale(o) == TableInv' /\ \A q \in Objs \ {o} : Stale(obj'[q]) => Stale(obj[q])

(* self.g = v with the table dropped.                                      *)
LEMMA AssignStale ==
  ASSUME TableInv, NEW o \in Objs, NEW v, Assign(o, v)
  PROVE  NoneGetsStale
<1>1. \A q \in Objs : obj'[q] = IF q = o
        THEN [val |-> v, pp |-> IF obj[o].pplevel # 0 THEN NoTable ELSE obj[o].pp, pplevel |-> 0]
        ELSE obj[q]
  BY DEF Assign, TableInv
<1>2. obj' = [q \in Objs |-> obj'[q]]
  BY DEF Assign, TableInv
<1>3. obj'[o].pplevel = 0
  BY <1>1
<1> QED BY <1>1, <1>2, <1>3 DEF NoneGetsStale, TableInv, Shape, Stale

(* A new object.                                                           *)
LEMMA BindStale ==
  ASSUME TableInv, NEW o \in Objs, NEW v, Bind(o, v)
  PROVE  NoneGetsStale
<1>1. \A q \in Objs : obj'[q] = IF q = o THEN Fresh(v) ELSE obj[q]
  BY DEF Bind, TableInv
<1>2. obj' = [q \in Objs |-> obj'[q]]
  BY DEF Bind, TableInv
<1> QED BY <1>1, <1>2 DEF NoneGetsStale, TableInv, Shape, Stale, Fresh

(* A call that raises before it writes.                                     *)
LEMMA RaiseStale == ASSUME TableInv, UNCHANGED obj PROVE NoneGetsStale
BY DEF NoneGetsStale, TableInv, Shape, Stale

(* What preprocess writes in an object.                                    *)
LEMMA TwoFields ==
  ASSUME NEW x, Shape(x), NEW d, NEW L
  PROVE  [x EXCEPT !.pp = d, !.pplevel = L] = [val |-> x.val, pp |-> d, pplevel |-> L]
<1>1. x = [val |-> x.val, pp |-> x.pp, pplevel |-> x.pplevel]
  BY DEF Shape
<1>2. ASSUME NEW a, NEW b, NEW c, x = [val |-> a, pp |-> b, pplevel |-> c]
      PROVE  [x EXCEPT !.pp = d, !.pplevel = L] = [val |-> a, pp |-> d, pplevel |-> L]
  <2>1. [x EXCEPT !.pp = d] = [val |-> a, pp |-> d, pplevel |-> c]
    BY <1>2
  <2>2. [[val |-> a, pp |-> d, pplevel |-> c] EXCEPT !.pplevel = L]
          = [val |-> a, pp |-> d, pplevel |-> L]
    OBVIOUS
  <2>3. [x EXCEPT !.pp = d, !.pplevel = L] = [[x EXCEPT !.pp = d] EXCEPT !.pplevel = L]
    OBVIOUS
  <2> QED BY <2>1, <2>2, <2>3
<1> QED BY <1>1, <1>2

(* preprocess builds the table from the element.  At level 0 it raises and *)
(* leaves the table there was, of whichever element, without a level: the  *)
(* table is not walked until preprocess has built another one.             *)
LEMMA PreprocessStale ==
  ASSUME TableInv, NEW o \in Objs, NEW L, Preprocess(o, L)
  PROVE  NoneGetsStale
<1> DEFINE d == IF L = 0 THEN obj[o].pp ELSE obj[o].val
<1>1. \A q \in Objs : obj'[q] = IF q = o
        THEN [val |-> obj[o].val, pp |-> d, pplevel |-> L] ELSE obj[q]
  <2>1. Shape(obj[o])
    BY DEF TableInv
  <2>2. obj'[o] = [obj[o] EXCEPT !.pp = d, !.pplevel = L]
    BY DEF TableInv, Preprocess
  <2> HIDE DEF d
  <2>3. [obj[o] EXCEPT !.pp = d, !.pplevel = L]
          = [val |-> obj[o].val, pp |-> d, pplevel |-> L]
    BY <2>1, TwoFields
  <2>4. \A q \in Objs : q # o => obj'[q] = obj[q]
    BY DEF TableInv, Preprocess
  <2> QED BY <2>2, <2>3, <2>4
<1>2. obj' = [q \in Objs |-> obj'[q]]
  BY DEF TableInv, Preprocess
<1>3. L # 0 => d = obj[o].val
  OBVIOUS
<1> HIDE DEF d
<1> QED BY <1>1, <1>2, <1>3 DEF NoneGetsStale, TableInv, Shape, Stale

(* out.g = v and nothing else.                                             *)
LEMMA StoreStale ==
  ASSUME TableInv, NEW o \in Objs, NEW v, Store(o, v)
  PROVE  OnlyGetsStale(o)
<1>1. \A q \in Objs : obj'[q] = IF q = o
        THEN [val |-> v, pp |-> obj[o].pp, pplevel |-> obj[o].pplevel] ELSE obj[q]
  BY DEF Store, TableInv, Shape
<1>2. obj' = [q \in Objs |-> obj'[q]]
  BY DEF Store, TableInv
<1> QED BY <1>1, <1>2 DEF OnlyGetsStale, TableInv, Shape, Stale

(* The calls of Next that keep every table true to its element: all        *)
(* methods but those that write an out argument or load a pickle.          *)
LEMMA QuietCalls ==
  ASSUME TableInv, NEW o \in Objs, NEW other \in Objs, NEW r \in Objs, NEW L, NEW s, NEW t
  PROVE  /\ G1New(o) \/ G1Load(o) \/ G1Make(o) => NoneGetsStale
         /\ G2New(o) \/ G2Load(o) \/ G2Make(o) => NoneGetsStale
         /\ GTNew(o) \/ GTLoad(o) \/ GTMake(o) \/ Pair(o) => NoneGetsStale
         /\ RistGNew(o) \/ RistGMake(o) => NoneGetsStale
         /\ G1Preprocess(o, L) \/ G2Preprocess(o, L) \/ GTPreprocess(o, L)
              \/ RistGPreprocess(o, L) => NoneGetsStale
         /\ G1Copy(o, other) \/ G1SetState(o, other) \/ G2Copy(o, other) \/ GTCopy(o, other)
              => NoneGetsStale
         /\ G1Pow(o, s, r) \/ G2Pow(o, s, r) \/ RistGPow(o, s, r) => NoneGetsStale
         /\ G1Arith(o, other, s) \/ G2Arith(o, other, s) \/ GTArith(o, other, s)
              \/ RistGArith(o, other, s) => NoneGetsStale
         /\ G1Number(o, other, s, r) \/ G2Number(o, other, s, r) \/ GTNumber(o, other, s, r)
              \/ RistGNumber(o, other, s, r) => NoneGetsStale
         /\ BlsMultiExp(o, other, s, t, r) \/ Curve25519MultiExp(o, other, s, t, r)
              => NoneGetsStale
<1>1. /\ \A v : Assign(o, v) => NoneGetsStale
      /\ \A v : \A q \in Objs : Bind(q, v) => NoneGetsStale
      /\ Raise => NoneGetsStale
  BY AssignStale, BindStale, RaiseStale DEF Raise, vars
<1>2. /\ \A n : DrawInto(o, n) \/ DrawNew(o, n) => NoneGetsStale
      /\ BindPower(o, s, r) => NoneGetsStale
  BY <1>1 DEF DrawInto, DrawNew, BindPower
<1>3. G1New(o) \/ G1Load(o) \/ G1Make(o) => NoneGetsStale
  BY <1>1, <1>2 DEF G1New, G1Load, G1Make
<1>4. G2New(o) \/ G2Load(o) \/ G2Make(o) => NoneGetsStale
  BY <1>1, <1>2 DEF G2New, G2Load, G2Make
<1>5. GTNew(o) \/ GTLoad(o) \/ GTMake(o) \/ Pair(o) => NoneGetsStale
  BY <1>1, <1>2 DEF GTNew, GTLoad, GTMake, Pair
<1>6. RistGNew(o) \/ RistGMake(o) => NoneGetsStale
  BY <1>1, <1>2 DEF RistGNew, RistGMake
<1>7. G1Preprocess(o, L) \/ G2Preprocess(o, L) \/ GTPreprocess(o, L)
        \/ RistGPreprocess(o, L) => NoneGetsStale
  BY <1>1, PreprocessStale DEF G1Preprocess, G2Preprocess, GTPreprocess, RistGPreprocess
<1>8. G1Copy(o, other) \/ G1SetState(o, other) \/ G2Copy(o, other) \/ GTCopy(o, other)
        => NoneGetsStale
  BY <1>1 DEF G1Copy, G1SetState, G2Copy, GTCopy
<1>9. G1Pow(o, s, r) \/ G2Pow(o, s, r) \/ RistGPow(o, s, r) => NoneGetsStale
  BY <1>2 DEF G1Pow, G2Pow, RistGPow
<1>10. G1Arith(o, other, s) \/ G2Arith(o, other, s) => NoneGetsStale
  BY <1>1 DEF G1Arith, G2Arith
<1>11. GTArith(o, other, s) \/ RistGArith(o, other, s) => NoneGetsStale
  BY <1>1 DEF GTArith, RistGArith
<1>12. G1Number(o, other, s, r) \/ G2Number(o, other, s, r) => NoneGetsStale
  BY <1>1, <1>2 DEF G1Number, G2Number
<1>13. GTNumber(o, other, s, r) \/ RistGNumber(o, other, s, r) => NoneGetsStale
  BY <1>1, <1>2 DEF GTNumber, RistGNumber
<1>14. BlsMultiExp(o, other, s, t, r) \/ Curve25519MultiExp(o, other, s, t, r)
         => NoneGetsStale
  BY <1>1 DEF BlsMultiExp, Curve25519MultiExp
<1> QED BY <1>3, <1>4, <1>5, <1>6, <1>7, <1>8, <1>9, <1>10, <1>11, <1>12, <1>13, <1>14

(* The calls that write an object's element and keep its table.            *)
Overwrites(o) ==
  \/ G1PairingWith(o) \/ G2PairingWith(o)
  \/ \E other \in Objs \ {o} :
       \/ RistGSetState(o, other)
       \/ \E s \in ScalarsOf(cls) :
            \/ G1PpMul(other, s, o) \/ G2PpMul(other, s, o)
            \/ GTPpPow(other, s, o) \/ RistGPpMul(other, s, o)

(* They disturb no other object.                                           *)
LEMMA OverwritingCalls ==
  ASSUME TableInv, NEW o \in Objs, Overwrites(o)
  PROVE  OnlyGetsStale(o)
<1>1. \A v : Store(o, v) => OnlyGetsStale(o)
  BY StoreStale
<1>3. G1PairingWith(o) \/ G2PairingWith(o) => OnlyGetsStale(o)
  BY <1>1 DEF G1PairingWith, G2PairingWith
<1>4. \A other \in Objs : RistGSetState(o, other) => OnlyGetsStale(o)
  BY <1>1 DEF RistGSetState
<1>5. \A other \in Objs, s \in ScalarsOf(cls) :
        G1PpMul(other, s, o) \/ G2PpMul(other, s, o) \/ GTPpPow(other, s, o)
          \/ RistGPpMul(other, s, o) => OnlyGetsStale(o)
  BY <1>1 DEF G1PpMul, G2PpMul, GTPpPow, RistGPpMul
<1> QED BY <1>3, <1>4, <1>5 DEF Overwrites

(* Every step is one or the other.                                         *)
LEMMA StepKinds ==
  ASSUME TableInv, Next
  PROVE  NoneGetsStale \/ \E o \in Objs : Overwrites(o) /\ OnlyGetsStale(o)
<1>1. PICK o \in Objs :
       \/ G1New(o) \/ G1Load(o) \/ G1Make(o)
       \/ G2New(o) \/ G2Load(o) \/ G2Make(o)
       \/ GTNew(o) \/ GTLoad(o) \/ GTMake(o) \/ G1PairingWith(o) \/ G2PairingWith(o) \/ Pair(o)
       \/ RistGNew(o) \/ RistGMake(o)
       \/ \E L \in Levels :
            G1Preprocess(o, L) \/ G2Preprocess(o, L) \/ GTPreprocess(o, L) \/ RistGPreprocess(o, L)
       \/ \E other \in Objs \ {o} :
            G1Copy(o, other) \/ G1SetState(o, other) \/ G2Copy(o, other) \/ GTCopy(o, other)
              \/ RistGSetState(o, other)
       \/ \E s \in ScalarsOf(cls), r \in Objs : G1Pow(o, s, r) \/ G2Pow(o, s, r) \/ RistGPow(o, s, r)
       \/ \E other \in Objs \ {o}, s \in ScalarsOf(cls) :
            \/ G1Arith(o, other, s) \/ G1PpMul(o, s, other)
            \/ G2Arith(o, other, s) \/ G2PpMul(o, s, other)
            \/ GTArith(o, other, s) \/ GTPpPow(o, s, other)
            \/ RistGArith(o, other, s) \/ RistGPpMul(o, s, other)
       \/ \E other \in Objs \ {o}, s \in ScalarsOf(cls), r \in Objs :
            \/ G1Number(o, other, s, r) \/ G2Number(o, other, s, r)
            \/ GTNumber(o, other, s, r) \/ RistGNumber(o, other, s, r)
            \/ \E t \in ScalarsOf(cls) :
                 BlsMultiExp(o, other, s, t, r) \/ Curve25519MultiExp(o, other, s, t, r)
  BY DEF Next
<1>2. CASE G1PairingWith(o) \/ G2PairingWith(o)
  <2>1. Overwrites(o)
    BY <1>2 DEF Overwrites
  <2> QED BY <2>1, OverwritingCalls
<1>3. CASE \E other \in Objs \ {o} : RistGSetState(o, other)
  <2>1. Overwrites(o)
    BY <1>3 DEF Overwrites
  <2> QED BY <2>1, OverwritingCalls
<1>4. CASE \E other \in Objs \ {o}, s \in ScalarsOf(cls) :
             G1PpMul(o, s, other) \/ G2PpMul(o, s, other) \/ GTPpPow(o, s, other)
               \/ RistGPpMul(o, s, other)
  <2>1. PICK other \in Objs \ {o}, s \in ScalarsOf(cls) :
          G1PpMul(o, s, other) \/ G2PpMul(o, s, other) \/ GTPpPow(o, s, other)
            \/ RistGPpMul(o, s, other)
    BY <1>4
  <2>2. other \in Objs /\ o \in Objs \ {other}
    BY <2>1
  <2>3. Overwrites(other)
    BY <2>1, <2>2 DEF Overwrites
  <2> QED BY <2>2, <2>3, OverwritingCalls
<1> QED BY <1>1, <1>2, <1>3, <1>4, QuietCalls

(* Every call keeps the objects' fields.                                   *)
THEOREM TableInvariance == Spec => []TableInv
<1>1. Init => TableInv
  BY DEF Init, TableInv, Shape, Fresh
<1>2. ASSUME TableInv, [Next]_vars PROVE TableInv'
  <2>1. CASE Next
    BY <1>2, <2>1, StepKinds DEF NoneGetsStale, OnlyGetsStale
  <2>2. CASE UNCHANGED vars
    BY <1>2, <2>2, RaiseStale DEF vars, NoneGetsStale
  <2> QED BY <1>2, <2>1, <2>2
<1> QED BY <1>1, <1>2, PTL DEF Spec

(* A table with a level follows its object's element through every method, *)
(* a preprocess that raises included, but ppmul, pppow and py_pairing_with *)
(* on their out argument and Curve25519G's __setstate__: the classes of    *)
(* lib.rs for any number of objects.                                       *)
THEOREM TablesFollow == Spec => TablesFollowElements
<1> DEFINE A == \A o \in Objs : ~Stale(obj[o]) /\ Stale(obj'[o]) => Overwrites(o)
<1>1. ASSUME TableInv, [Next]_vars PROVE [A]_vars
  <2>1. CASE Next
    BY <1>1, <2>1, StepKinds DEF NoneGetsStale, OnlyGetsStale
  <2>2. CASE UNCHANGED vars
    BY <2>2
  <2> QED BY <1>1, <2>1, <2>2
<1>2. Spec => [][A]_vars
  BY <1>1, TableInvariance, PTL DEF Spec
<1> QED BY <1>2 DEF TablesFollowElements, Overwrites
=============================================================================
