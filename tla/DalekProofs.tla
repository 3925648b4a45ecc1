---------------------------- MODULE DalekProofs ----------------------------
(***************************************************************************)
(* curve25519-dalek: the 64-bit backend is exact for every radix and word  *)
(* that leave the room the assumptions ask for, and the point formulas are *)
(* the complete addition law of the curve for every modulus and d.         *)
(*                                                                         *)
(* The field: on operands below Headroom no 64-bit operation of reduce,    *)
(* sub, negate, mul and pow2k loses a bit, the result is an operand again, *)
(* and it stands for the right field element; to_bytes encodes the one     *)
(* representative below the modulus.                                       *)
(*                                                                         *)
(* The scalars: no product sum of two scalars reaches two words, so that   *)
(* a Montgomery reduction of anything below R * l divides it by R modulo l *)
(* and is canonical; add, sub, mul, square, the Montgomery form and the    *)
(* reduction of 512 bits follow.                                           *)
(*                                                                         *)
(* The points: limbs of the formulas of curve_models never exceed what the *)
(* next multiplication accepts, so each register stands for an integer     *)
(* modulo P; because d is not a square no denominator of the addition law  *)
(* is zero, and the result of every addition and doubling is a point of    *)
(* the curve with the sum's affine coordinates.                            *)
(***************************************************************************)
EXTENDS FieldElement51, Scalar52, Edwards, TLAPS

\* The number a field element stands for, before reduction modulo Limb^5 - Fold
Value(x) == x[0] + Limb * (x[1] + Limb * (x[2] + Limb * (x[3] + Limb * x[4])))
Modulus == Limb * (Limb * (Limb * (Limb * Limb))) - Fold

\* Division by the radix.
LEMMA Division ==
  ASSUME NEW n \in Nat
  PROVE  /\ n \div Limb \in Nat /\ n % Limb \in 0..(Limb - 1)
         /\ n = Limb * (n \div Limb) + (n % Limb)
BY LimbAssumption, RoomAssumption

\* A number below Word has a quotient that, folded back, stays small.
LEMMA Quotient ==
  ASSUME NEW n \in 0..(Word - 1)
  PROVE  /\ n \div Limb < Word
         /\ Limb * (n \div Limb) < Word
BY Division, LimbAssumption, RoomAssumption

\* A number below Word is unchanged by 64-bit arithmetic.
LEMMA NoWrap ==
  ASSUME NEW n \in Nat, n < Word
  PROVE  W64(n) = n
BY LimbAssumption DEF W64

\* A common factor Limb cancels in an inequality.
LEMMA Cancel ==
  ASSUME NEW a \in Nat, NEW b \in Nat, Limb * a < Limb * b
  PROVE  a < b
BY LimbAssumption, RoomAssumption

\* A digit and the folded carry of a word stay below Headroom.
LEMMA FoldFits ==
  ASSUME NEW r \in 0..(Limb - 1), NEW n \in 0..(Word - 1)
  PROVE  r + Fold * (n \div Limb) < Headroom
<1> DEFINE q == n \div Limb
<1>1. q \in Nat /\ Limb * q < Word
  BY Quotient, Division, LimbAssumption
<1>2. Fold * (Limb * q) <= Fold * Word
  BY <1>1, LimbAssumption
<1>3. Limb * (r + Fold * q) = Limb * r + Fold * (Limb * q)
  BY <1>1, LimbAssumption
<1>4. Limb * r <= Limb * Limb
  BY LimbAssumption
<1>5. /\ Limb * r \in Nat /\ Fold * (Limb * q) \in Nat /\ Fold * Word \in Nat /\ Limb * Limb \in Nat
      /\ Limb * Headroom \in Nat /\ Fold * q \in Nat
  BY <1>1, LimbAssumption
<1> HIDE DEF q
<1>6. Limb * (r + Fold * q) < Limb * Headroom
  BY <1>2, <1>3, <1>4, <1>5, RoomAssumption
<1>7. r + Fold * q < Headroom
  BY <1>5, <1>6, Cancel, LimbAssumption
<1> QED BY <1>7 DEF q

\* The operands of a multiplication are words.
LEMMA HeadroomInWord == Headroom < Word
BY LimbAssumption, RoomAssumption

\* The limbs one parallel round of carries leaves: no addition wrapped, all are below Headroom.
LEMMA ReduceLimbs ==
  ASSUME NEW x \in FE51, NEW i \in I5
  PROVE  /\ Reduce51(x)[i] \in Nat /\ Reduce51(x)[i] < Headroom
         /\ Reduce51(x)[i] = (x[i] % Limb) + (IF i = 0 THEN Fold * (x[4] \div Limb) ELSE x[i - 1] \div Limb)
<1>1. \A j \in I5 : x[j] \in 0..(Word - 1) /\ x[j] \in Nat
  BY LimbAssumption DEF FE51, I5
<1>2. \A j \in I5 : x[j] \div Limb \in Nat /\ x[j] % Limb \in 0..(Limb - 1)
  BY <1>1, Division
<1>3. CASE i = 0
  <2>1. x[4] \div Limb \in Nat /\ Limb * (x[4] \div Limb) < Word /\ x[0] % Limb \in 0..(Limb - 1)
    BY <1>1, <1>2, Quotient DEF I5
  <2>2. (x[0] % Limb) + Fold * (x[4] \div Limb) \in Nat
    BY <2>1, LimbAssumption, RoomAssumption
  <2>3. (x[0] % Limb) + Fold * (x[4] \div Limb) < Headroom
    BY <1>1, <2>1, FoldFits DEF I5
  <2>4. W64((x[0] % Limb) + Fold * (x[4] \div Limb)) = (x[0] % Limb) + Fold * (x[4] \div Limb)
    BY <2>2, <2>3, HeadroomInWord, NoWrap, LimbAssumption
  <2>5. Reduce51(x)[0] = (x[0] % Limb) + Fold * (x[4] \div Limb)
    BY <2>4 DEF Reduce51, I5
  <2> QED BY <1>3, <2>2, <2>3, <2>5
<1>4. CASE i # 0
  <2>1. i - 1 \in I5
    BY <1>4 DEF I5
  <2>2. /\ x[i - 1] \div Limb \in Nat /\ Limb * (x[i - 1] \div Limb) < Word
        /\ x[i] % Limb \in 0..(Limb - 1) /\ x[i - 1] \in 0..(Word - 1)
    BY <1>1, <1>2, <2>1, Quotient
  <2>3. (x[i] % Limb) + (x[i - 1] \div Limb) \in Nat
    BY <2>2, LimbAssumption
  <2>4. (x[i] % Limb) + Fold * (x[i - 1] \div Limb) < Headroom
    BY <2>2, FoldFits
  <2>5. x[i - 1] \div Limb <= Fold * (x[i - 1] \div Limb)
    BY <2>2, LimbAssumption, RoomAssumption
  <2>6. (x[i] % Limb) + (x[i - 1] \div Limb) < Headroom
    BY <2>2, <2>4, <2>5, LimbAssumption
  <2>7. W64((x[i] % Limb) + (x[i - 1] \div Limb)) = (x[i] % Limb) + (x[i - 1] \div Limb)
    BY <2>3, <2>6, HeadroomInWord, NoWrap, LimbAssumption
  <2>8. Reduce51(x)[i] = (x[i] % Limb) + (x[i - 1] \div Limb)
    BY <1>4, <2>7 DEF Reduce51
  <2> QED BY <1>4, <2>3, <2>6, <2>8
<1> QED BY <1>3, <1>4

\* Five carries taken in parallel, the top one folded back: the number changes by a multiple of
\* the modulus.
LEMMA ParallelCarries ==
  ASSUME NEW q \in [I5 -> Nat], NEW r \in [I5 -> Nat]
  PROVE  Value([i \in I5 |-> r[i] + (IF i = 0 THEN Fold * q[4] ELSE q[i - 1])])
           = Value([i \in I5 |-> Limb * q[i] + r[i]]) - q[4] * Modulus
<1> DEFINE r0 == r[0]  r1 == r[1]  r2 == r[2]  r3 == r[3]  r4 == r[4]
           q0 == q[0]  q1 == q[1]  q2 == q[2]  q3 == q[3]  q4 == q[4]
           x0 == Limb * q0 + r0
           x1 == Limb * q1 + r1
           x2 == Limb * q2 + r2
           x3 == Limb * q3 + r3
           x4 == Limb * q4 + r4
<1>n. /\ r0 \in Nat /\ r1 \in Nat /\ r2 \in Nat /\ r3 \in Nat /\ r4 \in Nat
      /\ q0 \in Nat /\ q1 \in Nat /\ q2 \in Nat /\ q3 \in Nat /\ q4 \in Nat
  BY DEF I5
<1>v. Value([i \in I5 |-> Limb * q[i] + r[i]]) = x0 + Limb * (x1 + Limb * (x2 + Limb * (x3 + Limb * x4)))
  BY DEF Value, I5
<1>w. Value([i \in I5 |-> r[i] + (IF i = 0 THEN Fold * q[4] ELSE q[i - 1])])
        = (r0 + Fold * q4) + Limb * ((r1 + q0) + Limb * ((r2 + q1) + Limb * ((r3 + q2) + Limb * (r4 + q3))))
  BY DEF Value, I5
<1>x. x0 = Limb * q0 + r0 /\ x1 = Limb * q1 + r1 /\ x2 = Limb * q2 + r2 /\ x3 = Limb * q3 + r3 /\ x4 = Limb * q4 + r4
  OBVIOUS
<1> HIDE DEF r0, r1, r2, r3, r4, q0, q1, q2, q3, q4, x0, x1, x2, x3, x4
<1> DEFINE t4 == r4
           t3 == r3 + Limb * (t4 + q3)
           t2 == r2 + Limb * (t3 + q2)
           t1 == r1 + Limb * (t2 + q1)
           t0 == r0 + Limb * (t1 + q0)
           u4 == Limb * q4
           u3 == Limb * u4
           u2 == Limb * u3
           u1 == Limb * u2
           u0 == Limb * u1
<1>1. t4 \in Nat /\ t3 \in Nat /\ t2 \in Nat /\ t1 \in Nat /\ t0 \in Nat
  BY <1>n, LimbAssumption
<1>2. u4 \in Nat /\ u3 \in Nat /\ u2 \in Nat /\ u1 \in Nat /\ u0 \in Nat
  BY <1>n, LimbAssumption
<1>3. x4 = t4 + u4
  BY <1>n, <1>x, <1>1, <1>2, LimbAssumption
<1>4. u0 = q4 * (Limb * (Limb * (Limb * (Limb * Limb))))
  BY <1>n, LimbAssumption
<1>5. (r0 + Fold * q4) + Limb * ((r1 + q0) + Limb * ((r2 + q1) + Limb * ((r3 + q2) + Limb * (r4 + q3)))) = t0 + Fold * q4
  BY <1>n, LimbAssumption
<1>6. /\ t3 = r3 + Limb * (t4 + q3) /\ t2 = r2 + Limb * (t3 + q2)
      /\ t1 = r1 + Limb * (t2 + q1) /\ t0 = r0 + Limb * (t1 + q0)
      /\ u3 = Limb * u4 /\ u2 = Limb * u3 /\ u1 = Limb * u2 /\ u0 = Limb * u1
  OBVIOUS
<1> HIDE DEF t0, t1, t2, t3, t4, u0, u1, u2, u3, u4
<1>7. x3 + Limb * x4 = t3 + u3
  <2>1. x3 + Limb * x4 = (Limb * q3 + r3) + Limb * (t4 + u4)
    BY <1>x, <1>3
  <2>2. (Limb * q3 + r3) + Limb * (t4 + u4) = (r3 + Limb * (t4 + q3)) + Limb * u4
    BY <1>n, <1>1, <1>2, LimbAssumption
  <2> QED BY <1>6, <2>1, <2>2
<1>8. x2 + Limb * (x3 + Limb * x4) = t2 + u2
  <2>1. x2 + Limb * (x3 + Limb * x4) = (Limb * q2 + r2) + Limb * (t3 + u3)
    BY <1>x, <1>7
  <2>2. (Limb * q2 + r2) + Limb * (t3 + u3) = (r2 + Limb * (t3 + q2)) + Limb * u3
    BY <1>n, <1>1, <1>2, LimbAssumption
  <2> QED BY <1>6, <2>1, <2>2
<1>9. x1 + Limb * (x2 + Limb * (x3 + Limb * x4)) = t1 + u1
  <2>1. x1 + Limb * (x2 + Limb * (x3 + Limb * x4)) = (Limb * q1 + r1) + Limb * (t2 + u2)
    BY <1>x, <1>8
  <2>2. (Limb * q1 + r1) + Limb * (t2 + u2) = (r1 + Limb * (t2 + q1)) + Limb * u2
    BY <1>n, <1>1, <1>2, LimbAssumption
  <2> QED BY <1>6, <2>1, <2>2
<1>10. x0 + Limb * (x1 + Limb * (x2 + Limb * (x3 + Limb * x4))) = t0 + u0
  <2>1. x0 + Limb * (x1 + Limb * (x2 + Limb * (x3 + Limb * x4))) = (Limb * q0 + r0) + Limb * (t1 + u1)
    BY <1>x, <1>9
  <2>2. (Limb * q0 + r0) + Limb * (t1 + u1) = (r0 + Limb * (t1 + q0)) + Limb * u1
    BY <1>n, <1>1, <1>2, LimbAssumption
  <2> QED BY <1>6, <2>1, <2>2
<1>11. q4 * Modulus = u0 - Fold * q4
  BY <1>n, <1>4, LimbAssumption DEF Modulus
<1>12. q[4] = q4
  BY DEF q4
<1>13. (r0 + Fold * q4) + Limb * ((r1 + q0) + Limb * ((r2 + q1) + Limb * ((r3 + q2) + Limb * (r4 + q3))))
        = (x0 + Limb * (x1 + Limb * (x2 + Limb * (x3 + Limb * x4)))) - q4 * Modulus
  BY <1>n, <1>1, <1>2, <1>5, <1>10, <1>11, LimbAssumption
<1> QED BY <1>v, <1>w, <1>12, <1>13

\* reduce: for limbs of any size no addition wraps, every limb of the result is an operand a
\* multiplication accepts, and the number changes by a multiple of the modulus.
THEOREM ReduceExact ==
  ASSUME NEW x \in FE51
  PROVE  /\ Reduce51(x) \in FE51
         /\ Bounded51(Reduce51(x), Headroom)
         /\ Value(Reduce51(x)) = Value(x) - (x[4] \div Limb) * Modulus
<1> DEFINE y == Reduce51(x)
<1>1. \A i \in I5 : y[i] \in Nat /\ y[i] < Headroom
  BY ReduceLimbs
<1>2. y = [i \in I5 |-> y[i]]
  BY DEF Reduce51
<1>3. y \in FE51
  <2>1. \A i \in I5 : y[i] \in 0..(Word - 1)
    BY <1>1, HeadroomInWord, LimbAssumption
  <2> HIDE DEF y
  <2> QED BY <1>2, <2>1 DEF FE51
<1>4. \A i \in I5 : x[i] \in Nat
  BY LimbAssumption DEF FE51, I5
<1>5. \A i \in I5 : x[i] \div Limb \in Nat /\ x[i] % Limb \in Nat /\ x[i] = Limb * (x[i] \div Limb) + (x[i] % Limb)
  BY <1>4, Division, LimbAssumption
<1>6. Value(y) = Value(x) - (x[4] \div Limb) * Modulus
  <2> DEFINE q == [i \in I5 |-> x[i] \div Limb]
             r == [i \in I5 |-> x[i] % Limb]
  <2>1. q \in [I5 -> Nat] /\ r \in [I5 -> Nat]
    BY <1>5
  <2>2. x = [i \in I5 |-> Limb * q[i] + r[i]]
    <3>1. x = [i \in I5 |-> x[i]]
      BY DEF FE51
    <3> QED BY <1>5, <3>1
  <2>3. y = [i \in I5 |-> r[i] + (IF i = 0 THEN Fold * q[4] ELSE q[i - 1])]
    <3>1. \A i \in I5 : y[i] = r[i] + (IF i = 0 THEN Fold * q[4] ELSE q[i - 1])
      BY ReduceLimbs DEF I5
    <3> HIDE DEF y, q, r
    <3> QED BY <1>2, <3>1
  <2>4. q[4] = x[4] \div Limb
    BY DEF I5
  <2> HIDE DEF q, r, y
  <2> QED BY <2>1, <2>2, <2>3, <2>4, ParallelCarries
<1> QED BY <1>1, <1>3, <1>6 DEF Bounded51

\* The limbs of sixteen times the modulus: none is below a multiplication's operand, so that sub
\* and negate, which subtract from them, do not borrow.
LEMMA SixteenModulus ==
  /\ \A i \in I5 : SixteenP(i) \in Nat /\ Headroom <= SixteenP(i) /\ SixteenP(i) <= 16 * Limb
  /\ Value([i \in I5 |-> SixteenP(i)]) = 16 * Modulus
<1>1. \A i \in I5 : SixteenP(i) \in Nat /\ Headroom <= SixteenP(i) /\ SixteenP(i) <= 16 * Limb
  BY LimbAssumption, RoomAssumption DEF SixteenP
<1> DEFINE t == 16 * (Limb - 1)
           u == t + Limb * t
           v == t + Limb * u
           w == t + Limb * v
<1>2. Value([i \in I5 |-> SixteenP(i)]) = 16 * (Limb - Fold) + Limb * w
  BY LimbAssumption DEF Value, SixteenP, I5
<1>3. u = 16 * (Limb * Limb) - 16
  BY LimbAssumption
<1>4. v = 16 * (Limb * (Limb * Limb)) - 16
  BY <1>3, LimbAssumption
<1>5. w = 16 * (Limb * (Limb * (Limb * Limb))) - 16
  BY <1>4, LimbAssumption
<1> HIDE DEF w
<1>6. 16 * (Limb - Fold) + Limb * w = 16 * Modulus
  BY <1>5, LimbAssumption DEF Modulus
<1> QED BY <1>1, <1>2, <1>6

\* Limbwise sums and differences are sums and differences of the numbers.
LEMMA ValueLinear ==
  ASSUME NEW a \in [I5 -> Int], NEW b \in [I5 -> Int], NEW c \in [I5 -> Int]
  PROVE  Value([i \in I5 |-> (a[i] + b[i]) - c[i]]) = (Value(a) + Value(b)) - Value(c)
<1> DEFINE s == [i \in I5 |-> (a[i] + b[i]) - c[i]]
<1>1. \A i \in I5 : a[i] \in Int /\ b[i] \in Int /\ c[i] \in Int /\ s[i] = (a[i] + b[i]) - c[i]
  OBVIOUS
<1>2. 0 \in I5 /\ 1 \in I5 /\ 2 \in I5 /\ 3 \in I5 /\ 4 \in I5
  BY DEF I5
<1> HIDE DEF s
<1> DEFINE V(f, i) == CASE i = 3 -> f[3] + Limb * f[4]
                         [] i = 2 -> f[2] + Limb * (f[3] + Limb * f[4])
                         [] i = 1 -> f[1] + Limb * (f[2] + Limb * (f[3] + Limb * f[4]))
<1>3. /\ V(a, 3) \in Int /\ V(b, 3) \in Int /\ V(c, 3) \in Int
      /\ s[3] + Limb * s[4] = (V(a, 3) + V(b, 3)) - V(c, 3)
  BY <1>1, <1>2, LimbAssumption
<1>4. /\ V(a, 2) \in Int /\ V(b, 2) \in Int /\ V(c, 2) \in Int
      /\ s[2] + Limb * (s[3] + Limb * s[4]) = (V(a, 2) + V(b, 2)) - V(c, 2)
  <2>1. V(a, 2) = a[2] + Limb * V(a, 3) /\ V(b, 2) = b[2] + Limb * V(b, 3) /\ V(c, 2) = c[2] + Limb * V(c, 3)
    OBVIOUS
  <2> HIDE DEF V
  <2> QED BY <1>1, <1>2, <1>3, <2>1, LimbAssumption
<1>5. /\ V(a, 1) \in Int /\ V(b, 1) \in Int /\ V(c, 1) \in Int
      /\ s[1] + Limb * (s[2] + Limb * (s[3] + Limb * s[4])) = (V(a, 1) + V(b, 1)) - V(c, 1)
  <2>1. V(a, 1) = a[1] + Limb * V(a, 2) /\ V(b, 1) = b[1] + Limb * V(b, 2) /\ V(c, 1) = c[1] + Limb * V(c, 2)
    OBVIOUS
  <2> HIDE DEF V
  <2> QED BY <1>1, <1>2, <1>4, <2>1, LimbAssumption
<1>6. Value(a) = a[0] + Limb * V(a, 1) /\ Value(b) = b[0] + Limb * V(b, 1) /\ Value(c) = c[0] + Limb * V(c, 1)
  BY DEF Value
<1>7. Value(s) = s[0] + Limb * (s[1] + Limb * (s[2] + Limb * (s[3] + Limb * s[4])))
  BY DEF Value
<1> HIDE DEF V
<1>8. Value(s) = (Value(a) + Value(b)) - Value(c)
  BY <1>1, <1>2, <1>5, <1>6, <1>7, LimbAssumption
<1> QED BY <1>8 DEF s

\* sub: on operands a multiplication accepts no word wraps, the difference is again such an
\* operand, and it is congruent to x - y.
THEOREM SubExact ==
  ASSUME NEW x \in FE51, NEW y \in FE51, Bounded51(x, Headroom), Bounded51(y, Headroom)
  PROVE  /\ Sub51(x, y) \in FE51
         /\ Bounded51(Sub51(x, y), Headroom)
         /\ \E k \in Int : Value(Sub51(x, y)) = (Value(x) - Value(y)) + k * Modulus
<1> DEFINE p == [i \in I5 |-> SixteenP(i)]
           d == [i \in I5 |-> (x[i] + p[i]) - y[i]]
<1>1. \A i \in I5 : x[i] \in Nat /\ x[i] < Headroom /\ y[i] \in Nat /\ y[i] < Headroom
  BY LimbAssumption DEF FE51, Bounded51
<1>2. \A i \in I5 : p[i] = SixteenP(i) /\ p[i] \in Nat /\ Headroom <= p[i] /\ p[i] <= 16 * Limb
  BY SixteenModulus
<1> HIDE DEF p
<1>3. \A i \in I5 : /\ x[i] + p[i] \in Nat /\ x[i] + p[i] < Word
                    /\ (x[i] + p[i]) - y[i] \in Nat /\ (x[i] + p[i]) - y[i] < Word
  BY <1>1, <1>2, LimbAssumption, RoomAssumption
<1>4. \A i \in I5 : W64(W64(x[i] + SixteenP(i)) - y[i]) = (x[i] + p[i]) - y[i]
  BY <1>2, <1>3, NoWrap
<1>5. Sub51(x, y) = Reduce51(d)
  <2>1. [i \in I5 |-> W64(W64(x[i] + SixteenP(i)) - y[i])] = d
    BY <1>4
  <2> QED BY <2>1 DEF Sub51
<1>6. d \in FE51
  BY <1>3, LimbAssumption DEF FE51
<1>7. Value(d) = (Value(x) + 16 * Modulus) - Value(y)
  <2>1. x \in [I5 -> Int] /\ y \in [I5 -> Int] /\ p \in [I5 -> Int]
    BY <1>1, <1>2, LimbAssumption DEF FE51, p
  <2>2. Value(d) = (Value(x) + Value(p)) - Value(y)
    BY <2>1, ValueLinear
  <2> QED BY <2>2, SixteenModulus DEF p
<1>8. d[4] \div Limb \in Nat
  BY <1>3, Division DEF I5
<1>9. Value(x) \in Int /\ Value(y) \in Int /\ Modulus \in Int
  BY <1>1, LimbAssumption DEF Value, Modulus, I5
<1> HIDE DEF d
<1>10. Value(Sub51(x, y)) = Value(d) - (d[4] \div Limb) * Modulus
  BY <1>5, <1>6, ReduceExact
<1>11. Value(Sub51(x, y)) = (Value(x) - Value(y)) + (16 - (d[4] \div Limb)) * Modulus
  BY <1>7, <1>8, <1>9, <1>10
<1>12. 16 - (d[4] \div Limb) \in Int
  BY <1>8
<1> QED BY <1>5, <1>6, <1>11, <1>12, ReduceExact

\* negate: the same, for -x.
THEOREM NegateExact ==
  ASSUME NEW x \in FE51, Bounded51(x, Headroom)
  PROVE  /\ Negate51(x) \in FE51
         /\ Bounded51(Negate51(x), Headroom)
         /\ \E k \in Int : Value(Negate51(x)) = k * Modulus - Value(x)
<1> DEFINE z == [i \in I5 |-> 0]
<1>1. \A i \in I5 : x[i] \in Nat /\ x[i] < Headroom
  BY LimbAssumption DEF FE51, Bounded51
<1>2. z \in FE51 /\ Bounded51(z, Headroom) /\ Value(z) = 0
  BY LimbAssumption, RoomAssumption DEF FE51, Bounded51, Value, I5
<1>3. Negate51(x) = Sub51(z, x)
  <2>1. \A i \in I5 : SixteenP(i) \in Nat /\ SixteenP(i) < Word
    BY SixteenModulus, LimbAssumption, RoomAssumption
  <2>2. \A i \in I5 : W64(z[i] + SixteenP(i)) = SixteenP(i)
    BY <2>1, NoWrap
  <2>3. [i \in I5 |-> W64(W64(z[i] + SixteenP(i)) - x[i])] = [i \in I5 |-> W64(SixteenP(i) - x[i])]
    BY <2>2
  <2> QED BY <2>3 DEF Negate51, Sub51
<1>4. Value(x) \in Int /\ Modulus \in Int
  BY <1>1, LimbAssumption DEF Value, Modulus, I5
<1> HIDE DEF z
<1>5. PICK k \in Int : Value(Sub51(z, x)) = (Value(z) - Value(x)) + k * Modulus
  BY <1>2, SubExact
<1>6. Value(Negate51(x)) = k * Modulus - Value(x)
  BY <1>2, <1>3, <1>4, <1>5
<1> QED BY <1>2, <1>3, <1>6, SubExact

\* The quotient of a number below Limb * Word is a word.
LEMMA WideQuotient ==
  ASSUME NEW n \in Nat, n < Limb * Word
  PROVE  n \div Limb \in Nat /\ n \div Limb < Word /\ W64(n \div Limb) = n \div Limb
<1>1. n \div Limb \in Nat /\ n % Limb \in 0..(Limb - 1) /\ n = Limb * (n \div Limb) + (n % Limb)
  BY Division
<1>2. Limb * (n \div Limb) <= n
  BY <1>1, LimbAssumption
<1>3. Limb * (n \div Limb) < Limb * Word
  BY <1>1, <1>2, LimbAssumption
<1>4. n \div Limb < Word
  BY <1>1, <1>3, Cancel, LimbAssumption
<1> QED BY <1>1, <1>4, NoWrap

\* The chain of carries that ends mul and pow2k: for coefficients within these bounds no word
\* wraps, the limbs stay below Headroom, and the number changes by a multiple of the modulus.
LEMMA CarryExact ==
  ASSUME NEW c \in [I5 -> Nat],
         \A i \in 0..3 : c[i] + Word < Limb * Word,
         Fold * (c[4] + Word) + Limb * Limb < Limb * Word
  PROVE  /\ Carry51(c) \in FE51
         /\ Bounded51(Carry51(c), Headroom)
         /\ \E k \in Nat : Value(Carry51(c)) = Value(c) - k * Modulus
<1> DEFINE q0 == c[0] \div Limb
           r0 == c[0] % Limb
           c1 == c[1] + q0
           q1 == c1 \div Limb
           r1 == c1 % Limb
           c2 == c[2] + q1
           q2 == c2 \div Limb
           r2 == c2 % Limb
           c3 == c[3] + q2
           q3 == c3 \div Limb
           r3 == c3 % Limb
           c4 == c[4] + q3
           q4 == c4 \div Limb
           r4 == c4 % Limb
           o == r0 + Fold * q4
           h == o \div Limb
           l == o % Limb
<1>0. c[0] \in Nat /\ c[1] \in Nat /\ c[2] \in Nat /\ c[3] \in Nat /\ c[4] \in Nat
  BY DEF I5
<1>1. /\ q0 \in Nat /\ q0 < Word /\ W64(q0) = q0
      /\ r0 \in 0..(Limb - 1) /\ c[0] = Limb * q0 + r0
  <2>1. c[0] < Limb * Word
    BY <1>0, LimbAssumption
  <2> QED BY <1>0, <2>1, Division, WideQuotient
<1>2. /\ c1 \in Nat /\ q1 \in Nat /\ q1 < Word /\ W64(q1) = q1
      /\ r1 \in 0..(Limb - 1) /\ c1 = Limb * q1 + r1
  <2>1. c1 \in Nat /\ c1 < Limb * Word
    <3> HIDE DEF q0
    <3> QED BY <1>0, <1>1, LimbAssumption
  <2> HIDE DEF c1
  <2> QED BY <2>1, Division, WideQuotient
<1>3. /\ c2 \in Nat /\ q2 \in Nat /\ q2 < Word /\ W64(q2) = q2
      /\ r2 \in 0..(Limb - 1) /\ c2 = Limb * q2 + r2
  <2>1. c2 \in Nat /\ c2 < Limb * Word
    <3> HIDE DEF q1
    <3> QED BY <1>0, <1>2, LimbAssumption
  <2> HIDE DEF c2
  <2> QED BY <2>1, Division, WideQuotient
<1>4. /\ c3 \in Nat /\ q3 \in Nat /\ q3 < Word /\ W64(q3) = q3
      /\ r3 \in 0..(Limb - 1) /\ c3 = Limb * q3 + r3
  <2>1. c3 \in Nat /\ c3 < Limb * Word
    <3> HIDE DEF q2
    <3> QED BY <1>0, <1>3, LimbAssumption
  <2> HIDE DEF c3
  <2> QED BY <2>1, Division, WideQuotient
<1>5. /\ c4 \in Nat /\ q4 \in Nat /\ q4 < Word /\ W64(q4) = q4
      /\ r4 \in 0..(Limb - 1) /\ c4 = Limb * q4 + r4
      /\ Fold * c4 + Limb * Limb < Limb * Word
  <2>1. c4 \in Nat /\ c4 < c[4] + Word
    <3> HIDE DEF q3
    <3> QED BY <1>0, <1>4, LimbAssumption
  <2>2. Fold * c4 + Limb * Limb < Limb * Word /\ c4 <= Fold * c4
    <3> HIDE DEF c4
    <3>1. Fold * c4 <= Fold * (c[4] + Word)
      BY <1>0, <2>1, LimbAssumption
    <3>2. c4 <= Fold * c4
      BY <2>1, LimbAssumption, RoomAssumption
    <3> QED BY <1>0, <2>1, <3>1, <3>2, LimbAssumption
  <2> HIDE DEF c4
  <2>3. c4 < Limb * Word
    BY <2>1, <2>2, LimbAssumption
  <2> QED BY <2>1, <2>2, <2>3, Division, WideQuotient
<1> HIDE DEF q0, r0, c1, q1, r1, c2, q2, r2, c3, q3, r3, c4, q4, r4
<1>6. o \in Nat /\ o < Word /\ Fold * q4 \in Nat /\ Fold * q4 < Word
  <2>1. Fold * (Limb * q4) <= Fold * c4
    BY <1>5, LimbAssumption
  <2>2. Limb * o = Limb * r0 + Fold * (Limb * q4)
    BY <1>1, <1>5, LimbAssumption
  <2>3. Limb * r0 <= Limb * Limb
    BY <1>1, LimbAssumption
  <2>4. /\ o \in Nat /\ Fold * q4 \in Nat /\ Limb * r0 \in Nat /\ Limb * Limb \in Nat
        /\ Fold * c4 \in Nat /\ Fold * (Limb * q4) \in Nat /\ Limb * Word \in Nat
    BY <1>1, <1>5, LimbAssumption
  <2>5. Fold * q4 <= o
    BY <1>1, <2>4, LimbAssumption
  <2> HIDE DEF o
  <2>6. Limb * o < Limb * Word
    BY <1>5, <2>1, <2>2, <2>3, <2>4
  <2>7. o < Word
    BY <2>4, <2>6, Cancel, LimbAssumption
  <2> QED BY <2>4, <2>5, <2>7, LimbAssumption
<1>7. W64(Fold * q4) = Fold * q4 /\ W64(r0 + Fold * q4) = o
  BY <1>6, NoWrap
<1>8. /\ h \in Nat /\ l \in 0..(Limb - 1) /\ o = Limb * h + l
      /\ r1 + h \in Nat /\ r1 + h < Headroom
  <2>1. h \in Nat /\ l \in 0..(Limb - 1) /\ o = Limb * h + l
    <3> HIDE DEF o
    <3> QED BY <1>6, Division
  <2>2. r1 + Fold * h < Headroom
    <3> HIDE DEF o
    <3>1. o \in 0..(Word - 1)
      BY <1>6, LimbAssumption
    <3> QED BY <1>2, <3>1, FoldFits
  <2> HIDE DEF h
  <2>3. h <= Fold * h
    BY <2>1, LimbAssumption, RoomAssumption
  <2> QED BY <1>2, <2>1, <2>2, <2>3, LimbAssumption
<1>9. Carry51(c) = [i \in I5 |-> CASE i = 0 -> l [] i = 1 -> r1 + h [] i = 2 -> r2 [] i = 3 -> r3 [] i = 4 -> r4]
  <2>1. c[0] % Limb = r0 /\ c[1] + W64(c[0] \div Limb) = c1
    BY <1>1 DEF r0, q0, c1
  <2>2. c1 % Limb = r1 /\ c[2] + W64(c1 \div Limb) = c2
    BY <1>2 DEF r1, q1, c2
  <2>3. c2 % Limb = r2 /\ c[3] + W64(c2 \div Limb) = c3
    BY <1>3 DEF r2, q2, c3
  <2>4. c3 % Limb = r3 /\ c[4] + W64(c3 \div Limb) = c4
    BY <1>4 DEF r3, q3, c4
  <2>5. c4 % Limb = r4 /\ W64(r0 + W64(Fold * W64(c4 \div Limb))) = o
    BY <1>5, <1>7 DEF r4, q4
  <2>6. o % Limb = l /\ o \div Limb = h
    OBVIOUS
  <2> HIDE DEF o, h, l
  <2> DEFINE Out(a, b, d, e, g) == [i \in I5 |-> CASE i = 0 -> a [] i = 1 -> b [] i = 2 -> d [] i = 3 -> e [] i = 4 -> g]
  <2>7. Carry51(c) =
          LET d1 == c[1] + W64(c[0] \div Limb)
              d2 == c[2] + W64(d1 \div Limb)
              d3 == c[3] + W64(d2 \div Limb)
              d4 == c[4] + W64(d3 \div Limb)
              p0 == W64((c[0] % Limb) + W64(Fold * W64(d4 \div Limb)))
          IN  Out(p0 % Limb, (d1 % Limb) + (p0 \div Limb), d2 % Limb, d3 % Limb, d4 % Limb)
    BY DEF Carry51
  <2> HIDE DEF Out
  <2>8. Carry51(c) = Out(l, r1 + h, r2, r3, r4)
    BY <2>1, <2>2, <2>3, <2>4, <2>5, <2>6, <2>7
  <2> QED BY <2>8 DEF Out
<1> HIDE DEF o, h, l
<1> DEFINE y == Carry51(c)
<1>10. y[0] = l /\ y[1] = r1 + h /\ y[2] = r2 /\ y[3] = r3 /\ y[4] = r4
  BY <1>9 DEF I5
<1>11. \A i \in I5 : y[i] \in Nat /\ y[i] < Headroom
  <2> HIDE DEF y
  <2> QED BY <1>3, <1>4, <1>5, <1>8, <1>10, LimbAssumption, RoomAssumption DEF I5
<1>12. y \in FE51
  <2>1. y = [i \in I5 |-> y[i]]
    BY <1>9
  <2>2. \A i \in I5 : y[i] \in 0..(Word - 1)
    BY <1>11, HeadroomInWord, LimbAssumption
  <2> HIDE DEF y
  <2> QED BY <2>1, <2>2 DEF FE51
<1>13. Value(y) = Value(c) - q4 * Modulus
  <2>1. Value(y) = l + Limb * ((r1 + h) + Limb * (r2 + Limb * (r3 + Limb * r4)))
    BY <1>10 DEF Value
  <2>2. Value(c) = c[0] + Limb * (c[1] + Limb * (c[2] + Limb * (c[3] + Limb * c[4])))
    BY DEF Value
  <2> HIDE DEF y
  <2> DEFINE t4 == r4 + Limb * q4
             t3 == r3 + Limb * t4
             t2 == r2 + Limb * t3
             t1 == r1 + Limb * t2
  <2>3. t4 \in Int /\ t3 \in Int /\ t2 \in Int /\ t1 \in Int
    BY <1>2, <1>3, <1>4, <1>5, LimbAssumption
  <2>4. q3 + c[4] = t4 /\ c3 = c[3] + q2 /\ c2 = c[2] + q1 /\ c1 = c[1] + q0
    BY <1>0, <1>4, <1>5, LimbAssumption DEF c1, c2, c3, c4
  <2>6. r0 + Limb * t1 = (r0 + Limb * (r1 + Limb * (r2 + Limb * (r3 + Limb * r4)))) + q4 * (Limb * (Limb * (Limb * (Limb * Limb))))
    BY <1>1, <1>2, <1>3, <1>4, <1>5, LimbAssumption
  <2> HIDE DEF t1, t2, t3, t4
  <2>7. q2 + (c[3] + Limb * c[4]) = t3
    <3>1. Limb * t4 = Limb * q3 + Limb * c[4]
      BY <1>0, <1>4, <2>4, LimbAssumption
    <3>2. Limb * t4 \in Int /\ Limb * q3 \in Int /\ Limb * c[4] \in Int
      BY <1>0, <1>4, <2>3, LimbAssumption
    <3> QED BY <1>0, <1>3, <1>4, <2>4, <3>1, <3>2 DEF t3
  <2>8. q1 + (c[2] + Limb * (c[3] + Limb * c[4])) = t2
    <3> DEFINE v == c[3] + Limb * c[4]
    <3>1. v \in Int
      BY <1>0, LimbAssumption
    <3> HIDE DEF v
    <3>2. Limb * t3 = Limb * q2 + Limb * v
      BY <1>3, <2>7, <3>1, LimbAssumption DEF v
    <3>3. Limb * t3 \in Int /\ Limb * q2 \in Int /\ Limb * v \in Int
      BY <1>3, <2>3, <3>1, LimbAssumption
    <3>4. q1 + (c[2] + Limb * v) = t2
      BY <1>0, <1>2, <1>3, <2>4, <3>2, <3>3 DEF t2
    <3> QED BY <3>4 DEF v
  <2>9. q0 + (c[1] + Limb * (c[2] + Limb * (c[3] + Limb * c[4]))) = t1
    <3> DEFINE v == c[2] + Limb * (c[3] + Limb * c[4])
    <3>1. v \in Int
      BY <1>0, LimbAssumption
    <3> HIDE DEF v
    <3>2. Limb * t2 = Limb * q1 + Limb * v
      BY <1>2, <2>8, <3>1, LimbAssumption DEF v
    <3>3. Limb * t2 \in Int /\ Limb * q1 \in Int /\ Limb * v \in Int
      BY <1>2, <2>3, <3>1, LimbAssumption
    <3>4. q0 + (c[1] + Limb * v) = t1
      BY <1>0, <1>1, <1>2, <2>4, <3>2, <3>3 DEF t1
    <3> QED BY <3>4 DEF v
  <2>10. Value(c) = r0 + Limb * t1
    <3> DEFINE v == c[1] + Limb * (c[2] + Limb * (c[3] + Limb * c[4]))
    <3>1. v \in Int
      BY <1>0, LimbAssumption
    <3> HIDE DEF v
    <3>2. Limb * t1 = Limb * q0 + Limb * v
      BY <1>1, <2>9, <3>1, LimbAssumption DEF v
    <3>3. Limb * t1 \in Int /\ Limb * q0 \in Int /\ Limb * v \in Int
      BY <1>1, <2>3, <3>1, LimbAssumption
    <3>4. c[0] + Limb * v = r0 + Limb * t1
      BY <1>0, <1>1, <3>2, <3>3
    <3> QED BY <2>2, <3>4 DEF v
  <2>11. Value(y) = (r0 + Fold * q4) + Limb * (r1 + Limb * (r2 + Limb * (r3 + Limb * r4)))
    BY <1>1, <1>2, <1>3, <1>4, <1>5, <1>8, <2>1, LimbAssumption DEF o
  <2>12. q4 * Modulus = q4 * (Limb * (Limb * (Limb * (Limb * Limb)))) - Fold * q4
    BY <1>5, LimbAssumption DEF Modulus
  <2> QED BY <1>1, <1>2, <1>3, <1>4, <1>5, <2>6, <2>10, <2>11, <2>12, LimbAssumption
<1> QED BY <1>5, <1>11, <1>12, <1>13 DEF Bounded51

\* A product of two limbs below Headroom, and one whose second factor is folded.
LEMMA LimbProduct ==
  ASSUME NEW m \in Nat, NEW n \in Nat, m < Headroom, n < Headroom
  PROVE  /\ m * n \in Nat /\ m * n <= Headroom * Headroom
         /\ m * (Fold * n) \in Nat /\ m * (Fold * n) <= Fold * (Headroom * Headroom)
<1>1. m * n \in Nat /\ m * n <= m * Headroom
  BY LimbAssumption
<1>2. m * Headroom <= Headroom * Headroom
  BY LimbAssumption
<1>3. m * n <= Headroom * Headroom
  BY <1>1, <1>2, LimbAssumption
<1>4. m * (Fold * n) = Fold * (m * n)
  BY LimbAssumption
<1>5. Fold * (m * n) \in Nat /\ Fold * (m * n) <= Fold * (Headroom * Headroom)
  BY <1>1, <1>3, LimbAssumption
<1> QED BY <1>1, <1>3, <1>4, <1>5

\* Coefficient i of a product whose folded second operand is d.
Column(a, b, d, i) ==
  CASE i = 0 -> a[0]*b[0] + a[4]*d[1] + a[3]*d[2] + a[2]*d[3] + a[1]*d[4]
    [] i = 1 -> a[1]*b[0] + a[0]*b[1] + a[4]*d[2] + a[3]*d[3] + a[2]*d[4]
    [] i = 2 -> a[2]*b[0] + a[1]*b[1] + a[0]*b[2] + a[4]*d[3] + a[3]*d[4]
    [] i = 3 -> a[3]*b[0] + a[2]*b[1] + a[1]*b[2] + a[0]*b[3] + a[4]*d[4]
    [] i = 4 -> a[4]*b[0] + a[3]*b[1] + a[2]*b[2] + a[1]*b[3] + a[0]*b[4]
FoldAll(b) == [i \in I5 |-> Fold * b[i]]
\* The five coefficients of a product, the upper four columns folded back.
Columns(a, b) == [i \in I5 |-> Column(a, b, FoldAll(b), i)]

\* For operands below Headroom the coefficients satisfy the bounds CarryExact asks for.
LEMMA ColumnsFit ==
  ASSUME NEW a \in FE51, NEW b \in FE51, Bounded51(a, Headroom), Bounded51(b, Headroom)
  PROVE  /\ Columns(a, b) \in [I5 -> Nat]
         /\ \A i \in 0..3 : Columns(a, b)[i] + Word < Limb * Word
         /\ Fold * (Columns(a, b)[4] + Word) + Limb * Limb < Limb * Word
<1> DEFINE c == Columns(a, b)
           S == Headroom * Headroom
           T == Fold * S
<1>1. \A i \in I5 : a[i] \in Nat /\ a[i] < Headroom /\ b[i] \in Nat /\ b[i] < Headroom
  BY LimbAssumption DEF FE51, Bounded51
<1>2. \A i, j \in I5 : /\ a[i] * b[j] \in Nat /\ a[i] * b[j] <= S
                       /\ a[i] * (Fold * b[j]) \in Nat /\ a[i] * (Fold * b[j]) <= T
  BY <1>1, LimbProduct
<1>3. S \in Nat /\ T \in Nat /\ S <= T /\ Limb * Word \in Nat /\ Limb * Limb \in Nat
  BY LimbAssumption, RoomAssumption
<1>4. S + 4 * T + Word < Limb * Word
  BY <1>3, LimbAssumption, RoomAssumption
<1>5. Fold * (5 * S + Word) + Limb * Limb < Limb * Word
  BY <1>3, LimbAssumption, RoomAssumption
<1>6. 0 \in I5 /\ 1 \in I5 /\ 2 \in I5 /\ 3 \in I5 /\ 4 \in I5
  BY DEF I5
<1> HIDE DEF S, T
<1>7. c[0] \in Nat /\ c[0] <= S + 4 * T
  <2>1. c[0] = a[0]*b[0] + a[4]*(Fold*b[1]) + a[3]*(Fold*b[2]) + a[2]*(Fold*b[3]) + a[1]*(Fold*b[4])
    BY <1>6 DEF Columns, Column, FoldAll
  <2> HIDE DEF c
  <2> QED BY <1>2, <1>3, <1>6, <2>1
<1>8. c[1] \in Nat /\ c[1] <= S + 4 * T
  <2>1. c[1] = a[1]*b[0] + a[0]*b[1] + a[4]*(Fold*b[2]) + a[3]*(Fold*b[3]) + a[2]*(Fold*b[4])
    BY <1>6 DEF Columns, Column, FoldAll
  <2> HIDE DEF c
  <2> QED BY <1>2, <1>3, <1>6, <2>1
<1>9. c[2] \in Nat /\ c[2] <= S + 4 * T
  <2>1. c[2] = a[2]*b[0] + a[1]*b[1] + a[0]*b[2] + a[4]*(Fold*b[3]) + a[3]*(Fold*b[4])
    BY <1>6 DEF Columns, Column, FoldAll
  <2> HIDE DEF c
  <2> QED BY <1>2, <1>3, <1>6, <2>1
<1>10. c[3] \in Nat /\ c[3] <= S + 4 * T
  <2>1. c[3] = a[3]*b[0] + a[2]*b[1] + a[1]*b[2] + a[0]*b[3] + a[4]*(Fold*b[4])
    BY <1>6 DEF Columns, Column, FoldAll
  <2> HIDE DEF c
  <2> QED BY <1>2, <1>3, <1>6, <2>1
<1>11. c[4] \in Nat /\ c[4] <= 5 * S
  <2>1. c[4] = a[4]*b[0] + a[3]*b[1] + a[2]*b[2] + a[1]*b[3] + a[0]*b[4]
    BY <1>6 DEF Columns, Column, FoldAll
  <2> HIDE DEF c
  <2> QED BY <1>2, <1>3, <1>6, <2>1
<1>12. c = [i \in I5 |-> c[i]]
  BY DEF Columns
<1> HIDE DEF c
<1>13. c \in [I5 -> Nat]
  BY <1>7, <1>8, <1>9, <1>10, <1>11, <1>12 DEF I5
<1>14. \A i \in 0..3 : c[i] + Word < Limb * Word
  BY <1>3, <1>4, <1>7, <1>8, <1>9, <1>10, LimbAssumption
<1>15. Fold * (c[4] + Word) + Limb * Limb < Limb * Word
  <2>1. Fold * (c[4] + Word) <= Fold * (5 * S + Word)
    BY <1>3, <1>11, LimbAssumption
  <2> QED BY <1>3, <1>5, <1>11, <2>1, LimbAssumption
<1> QED BY <1>13, <1>14, <1>15 DEF c

\* The upper columns of the product of two five-limb numbers, folded back, change it by a
\* multiple of the modulus.
LEMMA ColumnsExact ==
  ASSUME NEW a \in [I5 -> Int], NEW b \in [I5 -> Int]
  PROVE  \E k \in Int : Value(Columns(a, b)) = Value(a) * Value(b) - k * Modulus
<1> DEFINE a0 == a[0]  a1 == a[1]  a2 == a[2]  a3 == a[3]  a4 == a[4]
           b0 == b[0]  b1 == b[1]  b2 == b[2]  b3 == b[3]  b4 == b[4]
           u0 == a4*b1 + a3*b2 + a2*b3 + a1*b4
           u1 == a4*b2 + a3*b3 + a2*b4
           u2 == a4*b3 + a3*b4
           u3 == a4*b4
           k == u0 + Limb * (u1 + Limb * (u2 + Limb * u3))
<1>1. /\ a0 \in Int /\ a1 \in Int /\ a2 \in Int /\ a3 \in Int /\ a4 \in Int
      /\ b0 \in Int /\ b1 \in Int /\ b2 \in Int /\ b3 \in Int /\ b4 \in Int
  BY DEF I5
<1>2. Value(a) = a0 + Limb * (a1 + Limb * (a2 + Limb * (a3 + Limb * a4)))
  BY DEF Value
<1>3. Value(b) = b0 + Limb * (b1 + Limb * (b2 + Limb * (b3 + Limb * b4)))
  BY DEF Value
<1>4. Value(Columns(a, b)) =
        (a0*b0 + a4*(Fold*b1) + a3*(Fold*b2) + a2*(Fold*b3) + a1*(Fold*b4))
        + Limb * ((a1*b0 + a0*b1 + a4*(Fold*b2) + a3*(Fold*b3) + a2*(Fold*b4))
        + Limb * ((a2*b0 + a1*b1 + a0*b2 + a4*(Fold*b3) + a3*(Fold*b4))
        + Limb * ((a3*b0 + a2*b1 + a1*b2 + a0*b3 + a4*(Fold*b4))
        + Limb * (a4*b0 + a3*b1 + a2*b2 + a1*b3 + a0*b4))))
  BY DEF Value, Columns, Column, FoldAll, I5
<1> HIDE DEF a0, a1, a2, a3, a4, b0, b1, b2, b3, b4
<1>5. k \in Int
  BY <1>1, LimbAssumption
<1>6. Value(Columns(a, b)) = Value(a) * Value(b) - k * Modulus
  BY <1>1, <1>2, <1>3, <1>4, LimbAssumption, SMTT(60) DEF Modulus
<1> QED BY <1>5, <1>6

\* mul: for operands below Headroom the products by 19 and the whole chain of carries fit in
\* their words, the result is again an operand a multiplication accepts, and it is congruent
\* to the product.
THEOREM MulExact ==
  ASSUME NEW a \in FE51, NEW b \in FE51, Bounded51(a, Headroom), Bounded51(b, Headroom)
  PROVE  /\ Mul51(a, b) \in FE51
         /\ Bounded51(Mul51(a, b), Headroom)
         /\ \E k \in Int : Value(Mul51(a, b)) = Value(a) * Value(b) + k * Modulus
<1>1. \A i \in I5 : a[i] \in Nat /\ a[i] < Headroom /\ b[i] \in Nat /\ b[i] < Headroom
  BY LimbAssumption DEF FE51, Bounded51
<1>2. \A i \in I5 : Fold * b[i] \in Nat /\ Fold * b[i] < Word /\ b[i] * Fold = Fold * b[i]
  BY <1>1, LimbAssumption, RoomAssumption
<1>3. \A i \in I5 : W64(b[i] * Fold) = Fold * b[i]
  BY <1>2, NoWrap
<1>4. Mul51(a, b) = Carry51(Columns(a, b))
  <2> DEFINE d == [i \in I5 |-> W64(b[i] * Fold)]
  <2>1. d = FoldAll(b)
    BY <1>3 DEF FoldAll
  <2>2. Mul51(a, b) = Carry51([i \in I5 |-> Column(a, b, d, i)])
    BY DEF Mul51, Column
  <2> HIDE DEF d
  <2> QED BY <2>1, <2>2 DEF Columns
<1>5. /\ Carry51(Columns(a, b)) \in FE51
      /\ Bounded51(Carry51(Columns(a, b)), Headroom)
      /\ \E k \in Nat : Value(Carry51(Columns(a, b))) = Value(Columns(a, b)) - k * Modulus
  BY ColumnsFit, CarryExact
<1>6. PICK m \in Nat : Value(Mul51(a, b)) = Value(Columns(a, b)) - m * Modulus
  BY <1>4, <1>5
<1>7. a \in [I5 -> Int] /\ b \in [I5 -> Int]
  BY LimbAssumption DEF FE51
<1>8. PICK n \in Int : Value(Columns(a, b)) = Value(a) * Value(b) - n * Modulus
  BY <1>7, ColumnsExact
<1>9. Value(a) \in Int /\ Value(b) \in Int /\ Modulus \in Int
  BY <1>1, LimbAssumption DEF Value, Modulus, I5
<1>10. Value(Mul51(a, b)) = Value(a) * Value(b) + (0 - (m + n)) * Modulus
  <2> DEFINE p == Value(a) * Value(b)
  <2>1. p \in Int
    BY <1>9
  <2>2. (0 - (m + n)) * Modulus = (0 - m * Modulus) - n * Modulus
    BY <1>9
  <2> HIDE DEF p
  <2>3. Value(Mul51(a, b)) = (p - n * Modulus) - m * Modulus
    BY <1>6, <1>8 DEF p
  <2>4. m * Modulus \in Int /\ n * Modulus \in Int
    BY <1>9
  <2>5. (p - n * Modulus) - m * Modulus = p + ((0 - m * Modulus) - n * Modulus)
    BY <2>1, <2>4
  <2> QED BY <2>2, <2>3, <2>5 DEF p
<1>11. 0 - (m + n) \in Int
  OBVIOUS
<1> QED BY <1>4, <1>5, <1>10, <1>11

\* A round of pow2k computes what mul does with equal operands: the doubled cross terms are the
\* same coefficients, and the two products by 19 that are kept stand for all four.
THEOREM SquareExact ==
  ASSUME NEW a \in FE51, Bounded51(a, Headroom)
  PROVE  SquareOnce51(a) = Mul51(a, a)
<1>1. \A i \in I5 : a[i] \in Nat /\ a[i] < Headroom
  BY LimbAssumption DEF FE51, Bounded51
<1>2. \A i \in I5 : /\ Fold * a[i] \in Nat /\ Fold * a[i] < Word /\ a[i] * Fold = Fold * a[i]
  BY <1>1, LimbAssumption, RoomAssumption
<1>3. \A i \in I5 : W64(a[i] * Fold) = Fold * a[i] /\ W64(Fold * a[i]) = Fold * a[i]
  BY <1>2, NoWrap
<1> DEFINE d == [i \in I5 |-> W64(a[i] * Fold)]
           Doubled(u, v, i) ==
             CASE i = 0 -> a[0]*a[0] + 2 * (a[1]*v + a[2]*u)
               [] i = 1 -> a[3]*u + 2 * (a[0]*a[1] + a[2]*v)
               [] i = 2 -> a[1]*a[1] + 2 * (a[0]*a[2] + a[4]*u)
               [] i = 3 -> a[4]*v + 2 * (a[0]*a[3] + a[1]*a[2])
               [] i = 4 -> a[2]*a[2] + 2 * (a[0]*a[4] + a[1]*a[3])
<1>4. Mul51(a, a) = Carry51([i \in I5 |-> Column(a, a, d, i)])
  BY DEF Mul51, Column
<1>5. SquareOnce51(a) = Carry51([i \in I5 |-> Doubled(W64(Fold * a[3]), W64(Fold * a[4]), i)])
  BY DEF SquareOnce51
<1>6. /\ a[0] \in Nat /\ a[1] \in Nat /\ a[2] \in Nat /\ a[3] \in Nat /\ a[4] \in Nat
      /\ d[1] = Fold * a[1] /\ d[2] = Fold * a[2] /\ d[3] = Fold * a[3] /\ d[4] = Fold * a[4]
      /\ W64(Fold * a[3]) = Fold * a[3] /\ W64(Fold * a[4]) = Fold * a[4]
  BY <1>1, <1>3 DEF I5
<1> HIDE DEF d
<1>7. \A i \in I5 : Doubled(Fold * a[3], Fold * a[4], i) = Column(a, a, d, i)
  <2>0. Doubled(Fold * a[3], Fold * a[4], 0) = Column(a, a, d, 0)
    BY <1>6, LimbAssumption DEF Column
  <2>1. Doubled(Fold * a[3], Fold * a[4], 1) = Column(a, a, d, 1)
    BY <1>6, LimbAssumption DEF Column
  <2>2. Doubled(Fold * a[3], Fold * a[4], 2) = Column(a, a, d, 2)
    BY <1>6, LimbAssumption DEF Column
  <2>3. Doubled(Fold * a[3], Fold * a[4], 3) = Column(a, a, d, 3)
    BY <1>6, LimbAssumption DEF Column
  <2>4. Doubled(Fold * a[3], Fold * a[4], 4) = Column(a, a, d, 4)
    BY <1>6, LimbAssumption DEF Column
  <2> HIDE DEF Doubled
  <2> QED BY <2>0, <2>1, <2>2, <2>3, <2>4 DEF I5
<1> HIDE DEF Doubled
<1>8. SquareOnce51(a) = Carry51([i \in I5 |-> Doubled(Fold * a[3], Fold * a[4], i)])
  BY <1>5, <1>6
<1> QED BY <1>4, <1>7, <1>8

\* Five digits in radix Limb are a number below Limb^5.
LEMMA DigitsBound ==
  ASSUME NEW d \in [I5 -> 0..(Limb - 1)]
  PROVE  Value(d) \in Nat /\ Value(d) < Limb * (Limb * (Limb * (Limb * Limb)))
<1> DEFINE d0 == d[0]  d1 == d[1]  d2 == d[2]  d3 == d[3]  d4 == d[4]
<1>d. /\ d0 \in 0..(Limb - 1) /\ d1 \in 0..(Limb - 1) /\ d2 \in 0..(Limb - 1)
      /\ d3 \in 0..(Limb - 1) /\ d4 \in 0..(Limb - 1)
  BY DEF I5
<1>v. Value(d) = d0 + Limb * (d1 + Limb * (d2 + Limb * (d3 + Limb * d4)))
  BY DEF Value
<1> HIDE DEF d0, d1, d2, d3, d4
<1> DEFINE w3 == d3 + Limb * d4
           w2 == d2 + Limb * w3
           w1 == d1 + Limb * w2
           w0 == d0 + Limb * w1
           p2 == Limb * Limb
           p3 == Limb * p2
           p4 == Limb * p3
           p5 == Limb * p4
<1>0. p2 \in Nat /\ p3 \in Nat /\ p4 \in Nat /\ p5 \in Nat
  BY LimbAssumption
<1>1. w3 \in Nat /\ w3 <= p2 - 1
  <2>1. Limb * d4 <= Limb * (Limb - 1)
    BY <1>d, LimbAssumption
  <2> QED BY <1>d, <2>1, LimbAssumption
<1> HIDE DEF w3, p2
<1>2. w2 \in Nat /\ w2 <= p3 - 1
  <2>1. Limb * w3 <= Limb * (p2 - 1)
    BY <1>0, <1>1, LimbAssumption
  <2> QED BY <1>d, <1>0, <1>1, <2>1, LimbAssumption
<1> HIDE DEF w2, p3
<1>3. w1 \in Nat /\ w1 <= p4 - 1
  <2>1. Limb * w2 <= Limb * (p3 - 1)
    BY <1>0, <1>2, LimbAssumption
  <2> QED BY <1>d, <1>0, <1>2, <2>1, LimbAssumption
<1> HIDE DEF w1, p4
<1>4. w0 \in Nat /\ w0 <= p5 - 1
  <2>1. Limb * w1 <= Limb * (p4 - 1)
    BY <1>0, <1>3, LimbAssumption
  <2> QED BY <1>d, <1>0, <1>3, <2>1, LimbAssumption
<1>5. w0 < p5
  BY <1>0, <1>4
<1> QED BY <1>v, <1>4, <1>5 DEF w1, w2, w3, p2, p3, p4

\* One round of parallel carries leaves a number below twice the modulus.
LEMMA ReduceBelowTwice ==
  ASSUME NEW x \in FE51
  PROVE  Value(Reduce51(x)) \in Nat /\ Value(Reduce51(x)) < 2 * Modulus
<1> DEFINE r == Reduce51(x)
           r0 == r[0]  r1 == r[1]  r2 == r[2]  r3 == r[3]  r4 == r[4]
<1>1. \A i \in I5 : x[i] \in Nat /\ x[i] < Word
  BY LimbAssumption DEF FE51
<1>2. \A i \in I5 : x[i] \div Limb \in Nat /\ x[i] \div Limb <= Limb - 18 /\ x[i] % Limb \in 0..(Limb - 1)
  <2> SUFFICES ASSUME NEW i \in I5
      PROVE  x[i] \div Limb \in Nat /\ x[i] \div Limb <= Limb - 18 /\ x[i] % Limb \in 0..(Limb - 1)
    OBVIOUS
  <2> DEFINE n == x[i] \div Limb
  <2>1. n \in Nat /\ x[i] % Limb \in 0..(Limb - 1) /\ x[i] = Limb * n + (x[i] % Limb)
    BY <1>1, Division
  <2> HIDE DEF n
  <2>2. Limb * n < Limb * (Limb - 17)
    BY <1>1, <2>1, LimbAssumption, RoomAssumption
  <2>3. n <= Limb - 18
    <3>1. ASSUME n >= Limb - 17 PROVE FALSE
      BY <2>1, <2>2, <3>1, LimbAssumption
    <3> QED BY <2>1, <3>1, LimbAssumption
  <2> QED BY <2>1, <2>3 DEF n
<1>3. r0 \in Nat /\ r0 < Headroom
  BY ReduceLimbs DEF I5
<1>4. \A i \in 1..4 : r[i] \in Nat /\ r[i] <= 2 * Limb - 19
  <2> SUFFICES ASSUME NEW i \in 1..4 PROVE r[i] \in Nat /\ r[i] <= 2 * Limb - 19
    OBVIOUS
  <2>1. i \in I5 /\ i - 1 \in I5 /\ i # 0
    BY DEF I5
  <2>2. r[i] \in Nat /\ r[i] = (x[i] % Limb) + (x[i - 1] \div Limb)
    BY <2>1, ReduceLimbs
  <2> HIDE DEF r
  <2> QED BY <1>2, <2>1, <2>2, LimbAssumption
<1>5. /\ r1 \in Nat /\ r1 <= 2 * Limb - 19 /\ r2 \in Nat /\ r2 <= 2 * Limb - 2
      /\ r3 \in Nat /\ r3 <= 2 * Limb - 2 /\ r4 \in Nat /\ r4 <= 2 * Limb - 2
  <2> HIDE DEF r
  <2> QED BY <1>4, LimbAssumption
<1>6. Value(r) = r0 + Limb * (r1 + Limb * (r2 + Limb * (r3 + Limb * r4)))
  BY DEF Value
<1> HIDE DEF r, r0, r1, r2, r3, r4
<1> DEFINE w3 == r3 + Limb * r4
           w2 == r2 + Limb * w3
           w1 == r1 + Limb * w2
           p2 == Limb * Limb
           p3 == Limb * p2
           p4 == Limb * p3
           p5 == Limb * p4
<1>7. p2 \in Nat /\ p3 \in Nat /\ p4 \in Nat /\ p5 \in Nat
  BY LimbAssumption
<1>8. w3 \in Nat /\ w3 <= 2 * p2 - 2
  <2>1. Limb * r4 <= Limb * (2 * Limb - 2)
    BY <1>5, LimbAssumption
  <2> QED BY <1>5, <2>1, LimbAssumption
<1>9. Modulus = p5 - Fold
  BY DEF Modulus
<1>10. Value(r) = r0 + Limb * w1
  BY <1>6
<1> HIDE DEF w3, p2
<1>11. w2 \in Nat /\ w2 <= 2 * p3 - 2
  <2>1. Limb * w3 <= Limb * (2 * p2 - 2)
    BY <1>7, <1>8, LimbAssumption
  <2> QED BY <1>5, <1>7, <1>8, <2>1, LimbAssumption
<1> HIDE DEF w2, p3
<1>12. w1 \in Nat /\ w1 <= 2 * p4 - 19
  <2>1. Limb * w2 <= Limb * (2 * p3 - 2)
    BY <1>7, <1>11, LimbAssumption
  <2> QED BY <1>5, <1>7, <1>11, <2>1, LimbAssumption
<1> HIDE DEF w1, p4
<1>13. Limb * w1 \in Nat /\ Limb * w1 <= 2 * p5 - 19 * Limb
  <2>1. Limb * w1 <= Limb * (2 * p4 - 19)
    BY <1>7, <1>12, LimbAssumption
  <2>2. Limb * (2 * p4 - 19) = 2 * p5 - 19 * Limb
    BY <1>7, LimbAssumption DEF p4
  <2>3. Limb * w1 \in Nat
    BY <1>12, LimbAssumption
  <2> HIDE DEF p5
  <2> QED BY <1>7, <2>1, <2>2, <2>3, LimbAssumption
<1> HIDE DEF p5
<1>14. r0 + Limb * w1 < 2 * p5 - 2 * Fold
  BY <1>3, <1>7, <1>13, LimbAssumption, RoomAssumption
<1> QED BY <1>3, <1>7, <1>9, <1>10, <1>13, <1>14, LimbAssumption DEF r

\* A chain of carries through five limbs, n coming in at the bottom: what each limb then holds,
\* its digit, and what is carried out at the top.
Chain(r, n) ==
  LET l0 == r[0] + n
      l1 == r[1] + l0 \div Limb
      l2 == r[2] + l1 \div Limb
      l3 == r[3] + l2 \div Limb
      l4 == r[4] + l3 \div Limb
  IN  [i \in I5 |-> CASE i = 0 -> l0 [] i = 1 -> l1 [] i = 2 -> l2 [] i = 3 -> l3 [] i = 4 -> l4]
Digits(r, n) == [i \in I5 |-> Chain(r, n)[i] % Limb]
CarriedOut(r, n) == Chain(r, n)[4] \div Limb

\* The chain writes n + Value(r) in radix Limb.
LEMMA ChainExact ==
  ASSUME NEW r \in [I5 -> Nat], NEW n \in Nat
  PROVE  /\ CarriedOut(r, n) \in Nat
         /\ Digits(r, n) \in [I5 -> 0..(Limb - 1)]
         /\ Value(r) + n = Value(Digits(r, n)) + CarriedOut(r, n) * (Limb * (Limb * (Limb * (Limb * Limb))))
         /\ Value(Digits(r, n)) \in Nat /\ Value(Digits(r, n)) < Limb * (Limb * (Limb * (Limb * Limb)))
<1> DEFINE l == Chain(r, n)
           d == Digits(r, n)
           e0 == l[0] \div Limb
           e1 == l[1] \div Limb
           e2 == l[2] \div Limb
           e3 == l[3] \div Limb
           e4 == l[4] \div Limb
<1>0. r[0] \in Nat /\ r[1] \in Nat /\ r[2] \in Nat /\ r[3] \in Nat /\ r[4] \in Nat
  BY DEF I5
<1>a. l[0] = r[0] + n /\ l[1] = r[1] + e0 /\ l[2] = r[2] + e1 /\ l[3] = r[3] + e2 /\ l[4] = r[4] + e3
  BY DEF Chain, I5
<1>b. d = [i \in I5 |-> l[i] % Limb]
  BY DEF Digits
<1>c. d = [i \in I5 |-> d[i]]
  BY DEF Digits
<1>d. CarriedOut(r, n) = e4
  BY DEF CarriedOut
<1> HIDE DEF l, d
<1>6. d[0] = l[0] % Limb /\ d[1] = l[1] % Limb /\ d[2] = l[2] % Limb /\ d[3] = l[3] % Limb /\ d[4] = l[4] % Limb
  BY <1>b DEF I5
<1>1. e0 \in Nat /\ d[0] \in 0..(Limb - 1) /\ l[0] = Limb * e0 + d[0]
  <2>1. l[0] \in Nat
    BY <1>0, <1>a
  <2> QED BY <1>6, <2>1, Division
<1>2. e1 \in Nat /\ d[1] \in 0..(Limb - 1) /\ l[1] = Limb * e1 + d[1]
  <2>1. l[1] \in Nat
    <3> HIDE DEF e0
    <3> QED BY <1>0, <1>a, <1>1
  <2> QED BY <1>6, <2>1, Division
<1>3. e2 \in Nat /\ d[2] \in 0..(Limb - 1) /\ l[2] = Limb * e2 + d[2]
  <2>1. l[2] \in Nat
    <3> HIDE DEF e1
    <3> QED BY <1>0, <1>a, <1>2
  <2> QED BY <1>6, <2>1, Division
<1>4. e3 \in Nat /\ d[3] \in 0..(Limb - 1) /\ l[3] = Limb * e3 + d[3]
  <2>1. l[3] \in Nat
    <3> HIDE DEF e2
    <3> QED BY <1>0, <1>a, <1>3
  <2> QED BY <1>6, <2>1, Division
<1>5. e4 \in Nat /\ d[4] \in 0..(Limb - 1) /\ l[4] = Limb * e4 + d[4]
  <2>1. l[4] \in Nat
    <3> HIDE DEF e3
    <3> QED BY <1>0, <1>a, <1>4
  <2> QED BY <1>6, <2>1, Division
<1> HIDE DEF e0, e1, e2, e3, e4
<1>8. d \in [I5 -> 0..(Limb - 1)]
  BY <1>1, <1>2, <1>3, <1>4, <1>5, <1>c DEF I5
<1>9. Value(d) = d[0] + Limb * (d[1] + Limb * (d[2] + Limb * (d[3] + Limb * d[4])))
  BY DEF Value
<1>10. Value(d) \in Nat /\ Value(d) < Limb * (Limb * (Limb * (Limb * Limb)))
  BY <1>8, DigitsBound
<1> DEFINE a0 == d[0]  a1 == d[1]  a2 == d[2]  a3 == d[3]  a4 == d[4]
<1>11. /\ r[0] = (Limb * e0 + a0) - n /\ r[1] = (Limb * e1 + a1) - e0 /\ r[2] = (Limb * e2 + a2) - e1
       /\ r[3] = (Limb * e3 + a3) - e2 /\ r[4] = (Limb * e4 + a4) - e3
  <2>0. a0 \in Nat /\ a1 \in Nat /\ a2 \in Nat /\ a3 \in Nat /\ a4 \in Nat
    BY <1>1, <1>2, <1>3, <1>4, <1>5, LimbAssumption
  <2>1. /\ r[0] + n = Limb * e0 + a0 /\ r[1] + e0 = Limb * e1 + a1 /\ r[2] + e1 = Limb * e2 + a2
        /\ r[3] + e2 = Limb * e3 + a3 /\ r[4] + e3 = Limb * e4 + a4
    BY <1>1, <1>2, <1>3, <1>4, <1>5, <1>a
  <2>2. /\ Limb * e0 \in Nat /\ Limb * e1 \in Nat /\ Limb * e2 \in Nat /\ Limb * e3 \in Nat /\ Limb * e4 \in Nat
    BY <1>1, <1>2, <1>3, <1>4, <1>5, LimbAssumption
  <2> HIDE DEF a0, a1, a2, a3, a4
  <2> QED BY <1>0, <1>1, <1>2, <1>3, <1>4, <1>5, <2>0, <2>1, <2>2
<1>12. Value(r) = ((Limb * e0 + a0) - n) + Limb * (((Limb * e1 + a1) - e0) + Limb * (((Limb * e2 + a2) - e1)
                    + Limb * (((Limb * e3 + a3) - e2) + Limb * ((Limb * e4 + a4) - e3))))
  BY <1>11 DEF Value
<1>13. /\ a0 \in Nat /\ a1 \in Nat /\ a2 \in Nat /\ a3 \in Nat /\ a4 \in Nat
       /\ e0 \in Nat /\ e1 \in Nat /\ e2 \in Nat /\ e3 \in Nat /\ e4 \in Nat
  BY <1>1, <1>2, <1>3, <1>4, <1>5, LimbAssumption
<1>14. Value(d) = a0 + Limb * (a1 + Limb * (a2 + Limb * (a3 + Limb * a4)))
  BY <1>9
<1> HIDE DEF a0, a1, a2, a3, a4
<1>15. Value(r) + n = Value(d) + e4 * (Limb * (Limb * (Limb * (Limb * Limb))))
  BY <1>12, <1>13, <1>14, LimbAssumption
<1> QED BY <1>5, <1>8, <1>10, <1>15, <1>d DEF d

\* to_bytes: whatever the limbs, the encoded number is the one representative below the modulus,
\* so equal field elements have equal encodings.
THEOREM CanonicalExact ==
  ASSUME NEW x \in FE51
  PROVE  /\ Canonical51(x) \in [I5 -> 0..(Limb - 1)]
         /\ Value(Canonical51(x)) \in 0..(Modulus - 1)
         /\ \E k \in Int : Value(Canonical51(x)) = Value(x) + k * Modulus
<1> DEFINE r == Reduce51(x)
           L5 == Limb * (Limb * (Limb * (Limb * Limb)))
<1>1. r \in [I5 -> Nat] /\ Value(r) \in Nat /\ Value(r) < 2 * Modulus
  <2>1. Reduce51(x) \in [I5 -> Nat]
    BY ReduceExact, LimbAssumption DEF FE51
  <2> QED BY <2>1, ReduceBelowTwice
<1>2. Value(r) = Value(x) - (x[4] \div Limb) * Modulus
  BY ReduceExact
<1>3. Canonical51(x) = Digits(r, Fold * CarriedOut(r, Fold))
  BY DEF Canonical51, Digits, CarriedOut, Chain, I5
<1> HIDE DEF r
<1> DEFINE q == CarriedOut(r, Fold)
           e4 == CarriedOut(r, Fold * q)
           c == Canonical51(x)
<1>6. q \in Nat /\ \E s \in Nat : s < L5 /\ Value(r) + Fold = s + q * L5
  BY <1>1, ChainExact, LimbAssumption
<1> HIDE DEF q
<1>9. Fold * q \in Nat
  BY <1>6, LimbAssumption
<1>10. /\ e4 \in Nat /\ c \in [I5 -> 0..(Limb - 1)]
       /\ Value(r) + Fold * q = Value(c) + e4 * L5
       /\ Value(c) \in Nat /\ Value(c) < L5
  <2>1. c = Digits(r, Fold * q)
    BY <1>3 DEF q
  <2> HIDE DEF c
  <2> QED BY <1>1, <1>9, <2>1, ChainExact
<1> HIDE DEF e4
<1>11. L5 \in Nat /\ Modulus = L5 - Fold /\ 0 < Modulus
  <2>1. L5 \in Nat /\ Modulus = L5 - Fold
    BY LimbAssumption DEF Modulus
  <2>2. Modulus > 0
    <3> HIDE DEF L5
    <3> QED BY <1>1, <2>1, LimbAssumption
  <2> HIDE DEF L5
  <2> QED BY <2>1, <2>2, LimbAssumption
<1> HIDE DEF L5, c
<1>12. PICK s \in Nat : s < L5 /\ Value(r) + Fold = s + q * L5
  BY <1>6
<1>13. q = 0 \/ q = 1
  <2>1. q * L5 < 2 * L5
    BY <1>1, <1>6, <1>11, <1>12, LimbAssumption
  <2>2. ASSUME q >= 2 PROVE FALSE
    <3>1. q * L5 >= 2 * L5
      BY <1>6, <1>11, <2>2
    <3>2. q * L5 \in Int
      BY <1>6, <1>11
    <3> QED BY <1>11, <2>1, <3>1, <3>2
  <2> QED BY <1>6, <2>2
<1>14. Value(c) = Value(r) - q * Modulus /\ Value(c) < Modulus
  <2>1. CASE q = 0
    <3>1. Value(r) = Value(c) + e4 * L5 /\ Value(r) + Fold < L5
      BY <1>1, <1>10, <1>11, <1>12, <2>1, LimbAssumption
    <3>2. e4 = 0
      <4>1. ASSUME e4 >= 1 PROVE FALSE
        <5>1. e4 * L5 >= L5 /\ e4 * L5 \in Int
          BY <1>10, <1>11, <4>1
        <5> QED BY <1>1, <1>10, <1>11, <3>1, <5>1, LimbAssumption
      <4> QED BY <1>10, <4>1
    <3> QED BY <1>1, <1>10, <1>11, <2>1, <3>1, <3>2, LimbAssumption
  <2>2. CASE q = 1
    <3>1. Value(r) + Fold = Value(c) + e4 * L5 /\ Value(r) + Fold = s + L5
      BY <1>1, <1>10, <1>11, <1>12, <2>2, LimbAssumption
    <3>2. e4 = 1
      <4>1. ASSUME e4 = 0 PROVE FALSE
        BY <1>10, <1>11, <1>12, <3>1, <4>1
      <4>2. ASSUME e4 >= 2 PROVE FALSE
        <5>1. e4 * L5 >= 2 * L5 /\ e4 * L5 \in Int
          BY <1>10, <1>11, <4>2
        <5> QED BY <1>10, <1>11, <1>12, <3>1, <5>1
      <4> QED BY <1>10, <4>1, <4>2
    <3> QED BY <1>1, <1>10, <1>11, <1>12, <2>2, <3>1, <3>2, LimbAssumption
  <2> QED BY <1>13, <2>1, <2>2
<1>15. Value(c) \in 0..(Modulus - 1)
  BY <1>10, <1>11, <1>14, LimbAssumption
<1>16. \E k \in Int : Value(c) = Value(x) + k * Modulus
  <2> DEFINE m == x[4] \div Limb
  <2>1. m \in Nat /\ Value(x) \in Int
    <3>1. \A i \in I5 : x[i] \in Nat
      BY LimbAssumption DEF FE51
    <3>2. m \in Nat
      BY <3>1, Division DEF I5
    <3>3. Value(x) \in Int
      BY <3>1, LimbAssumption DEF Value, I5
    <3> QED BY <3>2, <3>3
  <2> HIDE DEF m
  <2>2. Value(c) = Value(x) + (0 - (m + q)) * Modulus
    BY <1>2, <1>6, <1>11, <1>14, <2>1, LimbAssumption DEF m
  <2>3. 0 - (m + q) \in Int
    BY <1>6, <2>1
  <2> QED BY <2>2, <2>3
<1> QED BY <1>10, <1>15, <1>16 DEF c

-----------------------------------------------------------------------------
(* The scalars modulo l.                                                   *)

\* R, and the number nine columns stand for
MontgomeryR52 == Radix52 * (Radix52 * (Radix52 * (Radix52 * Radix52)))
Upper52(z) == z[5] + Radix52 * (z[6] + Radix52 * (z[7] + Radix52 * z[8]))
Wide52(z) == z[0] + Radix52 * (z[1] + Radix52 * (z[2] + Radix52 * (z[3] + Radix52 * (z[4] + Radix52 * Upper52(z)))))

\* Division by the radix.
LEMMA Division52 ==
  ASSUME NEW n \in Nat
  PROVE  /\ n \div Radix52 \in Nat /\ n % Radix52 \in 0..(Radix52 - 1)
         /\ n = Radix52 * (n \div Radix52) + (n % Radix52)
BY Radix52Assumption

\* The quotient of a number below Radix52 times a bound is below the bound.
LEMMA QuotientBelow52 ==
  ASSUME NEW n \in Nat, NEW m \in Nat, n < Radix52 * m
  PROVE  n \div Radix52 < m
<1>1. Radix52 * (n \div Radix52) < Radix52 * m
  BY Division52, Radix52Assumption
<1>2. n \div Radix52 \in Nat
  BY Division52
<1> DEFINE q == n \div Radix52
<1> HIDE DEF q
<1>3. q \in Nat /\ Radix52 * q < Radix52 * m
  BY <1>1, <1>2 DEF q
<1>4. q < m
  BY <1>3, Radix52Assumption
<1> QED BY <1>4 DEF q

\* R is a number, as are its parts.
LEMMA RadixPowers52 ==
  /\ MontgomeryR52 \in Nat /\ Radix52 \in Nat /\ Order52 \in Nat /\ Word52 \in Nat
  /\ Radix52 * Radix52 \in Nat /\ Radix52 * (Radix52 * Radix52) \in Nat
  /\ Radix52 * (Radix52 * (Radix52 * Radix52)) \in Nat
  /\ 2 * Order52 <= MontgomeryR52
BY Radix52Assumption, Order52Assumption DEF MontgomeryR52

\* Digits and carries are numbers.
LEMMA DigitsAreNumbers52 ==
  /\ \A n \in 0..(Radix52 - 1) : n \in Nat
  /\ \A e \in {0, 1} : e \in Nat
BY Radix52Assumption

\* The limbs of a New52.
LEMMA New52Limbs ==
  ASSUME NEW x0, NEW x1, NEW x2, NEW x3, NEW x4
  PROVE  LET x == New52(x0, x1, x2, x3, x4)
         IN  x[0] = x0 /\ x[1] = x1 /\ x[2] = x2 /\ x[3] = x3 /\ x[4] = x4
BY DEF New52, S5

\* Five digits are a scalar.
LEMMA New52Scalar ==
  ASSUME NEW x0 \in 0..(Radix52 - 1), NEW x1 \in 0..(Radix52 - 1), NEW x2 \in 0..(Radix52 - 1),
         NEW x3 \in 0..(Radix52 - 1), NEW x4 \in 0..(Radix52 - 1)
  PROVE  New52(x0, x1, x2, x3, x4) \in Scalars52
BY DEF New52, Scalars52, S5

\* A scalar's limbs.
LEMMA ScalarLimbs52 ==
  ASSUME NEW a \in Scalars52, NEW i \in S5
  PROVE  a[i] \in Nat /\ a[i] \in 0..(Radix52 - 1) /\ a[i] < Radix52
BY Radix52Assumption DEF Scalars52

\* Five limbs stand for a number below R.
LEMMA ValueBelowR52 ==
  ASSUME NEW a \in Scalars52
  PROVE  Value52(a) \in Nat /\ Value52(a) < MontgomeryR52
<1> DEFINE B == Radix52
           v3 == a[3] + B * a[4]
           v2 == a[2] + B * v3
           v1 == a[1] + B * v2
           B2 == B * B
           B3 == B * B2
           B4 == B * B3
<1>1. /\ a[0] \in Nat /\ a[1] \in Nat /\ a[2] \in Nat /\ a[3] \in Nat /\ a[4] \in Nat
      /\ a[0] < B /\ a[1] < B /\ a[2] < B /\ a[3] < B /\ a[4] < B
  BY ScalarLimbs52 DEF S5
<1>2. B \in Nat /\ B2 \in Nat /\ B3 \in Nat /\ B4 \in Nat
  BY Radix52Assumption
<1>3. Value52(a) = a[0] + B * v1 /\ MontgomeryR52 = B * B4
  BY DEF Value52, MontgomeryR52
<1>h. \A d \in Nat, v \in Nat, m \in Nat : d < B /\ v < m => d + B * v \in Nat /\ d + B * v < B * m
  <2> TAKE d \in Nat, v \in Nat, m \in Nat
  <2> HAVE d < B /\ v < m
  <2>1. B * (v + 1) <= B * m
    BY <1>2
  <2> QED BY <1>2, <2>1
<1> HIDE DEF B
<1>4. v3 \in Nat /\ v3 < B2
  BY <1>1, <1>2, <1>h
<1> HIDE DEF v3, B2
<1>5. v2 \in Nat /\ v2 < B3
  BY <1>1, <1>2, <1>4, <1>h
<1> HIDE DEF v2, B3
<1>6. v1 \in Nat /\ v1 < B4
  BY <1>1, <1>2, <1>5, <1>h
<1> HIDE DEF v1, B4
<1> QED BY <1>1, <1>2, <1>3, <1>6, <1>h

\* Splitting a number below R into limbs loses nothing.
LEMMA Limbs52Exact ==
  ASSUME NEW n \in Nat, n < MontgomeryR52
  PROVE  Limbs52(n) \in Scalars52 /\ Value52(Limbs52(n)) = n
<1> DEFINE n1 == n \div Radix52
           n2 == n1 \div Radix52
           n3 == n2 \div Radix52
           n4 == n3 \div Radix52
           B2 == Radix52 * Radix52
           B3 == Radix52 * B2
           B4 == Radix52 * B3
<1>0. Radix52 \in Nat /\ B2 \in Nat /\ B3 \in Nat /\ B4 \in Nat
  BY Radix52Assumption
<1>1. n1 \in Nat /\ n % Radix52 \in 0..(Radix52 - 1) /\ n = Radix52 * n1 + (n % Radix52) /\ n1 < B4
  BY <1>0, Division52, QuotientBelow52 DEF MontgomeryR52
<1>l. Limbs52(n) = New52(n % Radix52, n1 % Radix52, n2 % Radix52, n3 % Radix52, n4 % Radix52)
  BY DEF Limbs52
<1> HIDE DEF n1, B4
<1>2. n2 \in Nat /\ n1 % Radix52 \in 0..(Radix52 - 1) /\ n1 = Radix52 * n2 + (n1 % Radix52) /\ n2 < B3
  BY <1>0, <1>1, Division52, QuotientBelow52 DEF B4
<1> HIDE DEF n2, B3
<1>3. n3 \in Nat /\ n2 % Radix52 \in 0..(Radix52 - 1) /\ n2 = Radix52 * n3 + (n2 % Radix52) /\ n3 < B2
  BY <1>0, <1>2, Division52, QuotientBelow52 DEF B3
<1> HIDE DEF n3, B2
<1>4. n4 \in Nat /\ n3 % Radix52 \in 0..(Radix52 - 1) /\ n3 = Radix52 * n4 + (n3 % Radix52) /\ n4 < Radix52
  BY <1>0, <1>3, Division52, QuotientBelow52 DEF B2
<1> HIDE DEF n4
<1>5. n4 \in 0..(Radix52 - 1) /\ n4 % Radix52 = n4
  BY <1>4, <1>0
<1>6. Limbs52(n) \in Scalars52
  BY <1>l, <1>1, <1>2, <1>3, <1>4, <1>5, New52Scalar
<1>7. Value52(Limbs52(n)) = (n % Radix52) + Radix52 * ((n1 % Radix52) + Radix52 * ((n2 % Radix52) +
        Radix52 * ((n3 % Radix52) + Radix52 * n4)))
  BY <1>l, <1>5, New52Limbs DEF Value52
<1>8. (n3 % Radix52) + Radix52 * n4 = n3
  BY <1>4, <1>0
<1>9. (n2 % Radix52) + Radix52 * n3 = n2
  BY <1>3, <1>0
<1>10. (n1 % Radix52) + Radix52 * n2 = n1
  BY <1>2, <1>0
<1>11. (n % Radix52) + Radix52 * n1 = n
  BY <1>1, <1>0
<1> QED BY <1>6, <1>7, <1>8, <1>9, <1>10, <1>11

\* l has its limbs.
LEMMA LimbsOfL == L52 \in Scalars52 /\ Value52(L52) = Order52 /\ L52[3] = 0
<1>1. Order52 \in Nat /\ Order52 < MontgomeryR52
  BY Order52Assumption, RadixPowers52
<1> QED BY <1>1, Limbs52Exact, Order52Assumption DEF L52

\* A word is a whole number of radices.
LEMMA WordOfRadices52 == \E m \in Nat : Word52 = Radix52 * m
<1>1. Word52 = Radix52 * (Word52 \div Radix52) + (Word52 % Radix52) /\ Word52 \div Radix52 \in Nat
  BY Division52, Radix52Assumption
<1> DEFINE q == Word52 \div Radix52
<1>2. q \in Nat /\ Word52 = Radix52 * q + 0
  BY <1>1, Radix52Assumption
<1> HIDE DEF q
<1>3. Word52 = Radix52 * q
  BY <1>2, Radix52Assumption
<1> QED BY <1>2, <1>3

\* What 64-bit arithmetic drops is a multiple of the word.
LEMMA WrapsByWords52 ==
  ASSUME NEW y \in Nat
  PROVE  W52(y) \in Nat /\ \E q \in Nat : y = W52(y) + Word52 * q
<1> DEFINE w == Word52
<1>1. w \in Nat /\ w > 0
  BY Radix52Assumption
<1>2. W52(y) = y % w
  BY DEF W52
<1> HIDE DEF w
<1>3. y \div w \in Nat /\ y % w \in Nat /\ y = w * (y \div w) + (y % w)
  BY <1>1
<1>4. y = (y % w) + w * (y \div w)
  <2> DEFINE q == y \div w
             r == y % w
  <2>1. q \in Nat /\ r \in Nat /\ y = w * q + r
    BY <1>3
  <2> HIDE DEF q, r
  <2>2. y = r + w * q
    BY <2>1, <1>1
  <2> QED BY <2>2 DEF q, r
<1> QED BY <1>2, <1>3, <1>4 DEF w

\* Numbers below Word52 are unchanged by 64-bit arithmetic.
LEMMA NoWrap52 ==
  ASSUME NEW n \in Nat, n < Word52
  PROVE  W52(n) = n
BY Radix52Assumption DEF W52

\* A borrow: the low bits of the word and its top bit.
LEMMA BorrowStep52 ==
  ASSUME NEW x \in 0..(Radix52 - 1), NEW y \in 0..(Radix52 - 1), NEW w, Negative52(w) \in {0, 1}
  PROVE  LET r == Borrow52(x, y, w)
         IN  /\ Negative52(r) \in {0, 1} /\ r % Radix52 \in 0..(Radix52 - 1)
             /\ x - y - Negative52(w) = (r % Radix52) - Radix52 * Negative52(r)
<1> DEFINE c == y + Negative52(w)
           r == Borrow52(x, y, w)
<1>1. c \in Nat /\ c <= Radix52 /\ x \in Nat /\ x < Radix52 /\ W52(c) = c
  BY NoWrap52, Radix52Assumption
<1>2. r = W52(x - c)
  BY <1>1 DEF Borrow52
<1>3. PICK m \in Nat : Word52 = Radix52 * m
  BY WordOfRadices52
<1> HIDE DEF c, r
<1>4. CASE x >= c
  <2>1. r = x - c /\ x - c \in 0..(Radix52 - 1)
    BY <1>1, <1>2, <1>4, NoWrap52, Radix52Assumption
  <2>2. Negative52(r) = 0
    BY <2>1, Radix52Assumption DEF Negative52
  <2>3. r % Radix52 = r
    BY <2>1, Radix52Assumption
  <2> QED BY <2>1, <2>2, <2>3, <1>1, Radix52Assumption DEF r, c
<1>5. CASE x < c
  <2>1. r = Word52 + (x - c)
    <3>1. x - c \in Int /\ x - c < 0 /\ x - c >= - Radix52
      BY <1>1, <1>5, Radix52Assumption
    <3>2. (x - c) % Word52 = Word52 + (x - c)
      BY <3>1, Radix52Assumption
    <3> QED BY <1>2, <3>2 DEF W52
  <2>2. Negative52(r) = 1
    BY <1>1, <1>5, <2>1, Radix52Assumption DEF Negative52
  <2>3. r % Radix52 = Radix52 + (x - c)
    <3> DEFINE d == x - c
    <3>1. d \in Int /\ d < 0 /\ d >= - Radix52
      BY <1>1, <1>5, Radix52Assumption
    <3> HIDE DEF d
    <3>2. CASE d = -Radix52
      <4>1. r = Radix52 * (m - 1) /\ m - 1 \in Int
        BY <2>1, <1>3, <3>2, Radix52Assumption DEF d
      <4>2. y = Radix52 - 1 /\ x = 0
        BY <3>2, <1>1, Radix52Assumption DEF d, c
      <4> QED BY <4>1, <3>2, Radix52Assumption DEF d
    <3>3. CASE d > -Radix52
      <4>1. r = Radix52 * (m - 1) + (Radix52 + d) /\ m - 1 \in Int /\ Radix52 + d \in 0..(Radix52 - 1)
        BY <2>1, <1>3, <3>1, <3>3, Radix52Assumption DEF d
      <4> DEFINE e == Radix52 + d
      <4>2. e \in Int /\ 0 <= e /\ e < Radix52 /\ r = Radix52 * (m - 1) + e
        BY <4>1, Radix52Assumption
      <4> HIDE DEF e
      <4>3. (Radix52 * (m - 1) + e) % Radix52 = e
        BY <4>2, <1>3, Radix52Assumption
      <4>4. r % Radix52 = e
        BY <4>2, <4>3
      <4> QED BY <4>4 DEF e, d
    <3> QED BY <3>1, <3>2, <3>3, Radix52Assumption
  <2> QED BY <2>1, <2>2, <2>3, <1>1, <1>5, Radix52Assumption DEF r, c
<1> QED BY <1>1, <1>4, <1>5, Radix52Assumption DEF r

\* Five borrows: the difference of the numbers, short of R when the last one borrows.
LEMMA BorrowsExact ==
  ASSUME NEW a \in Scalars52, NEW b \in Scalars52
  PROVE  LET w == Borrows52(a, b)
             d == [i \in S5 |-> w[i] % Radix52]
         IN  /\ d \in Scalars52 /\ Negative52(w[4]) \in {0, 1}
             /\ Value52(a) - Value52(b) = Value52(d) - MontgomeryR52 * Negative52(w[4])
<1> DEFINE w == Borrows52(a, b)
           d == [i \in S5 |-> w[i] % Radix52]
           w0 == Borrow52(a[0], b[0], 0)
           w1 == Borrow52(a[1], b[1], w0)
           w2 == Borrow52(a[2], b[2], w1)
           w3 == Borrow52(a[3], b[3], w2)
           w4 == Borrow52(a[4], b[4], w3)
           d0 == w0 % Radix52   d1 == w1 % Radix52   d2 == w2 % Radix52   d3 == w3 % Radix52   d4 == w4 % Radix52
           e0 == Negative52(w0) e1 == Negative52(w1) e2 == Negative52(w2) e3 == Negative52(w3) e4 == Negative52(w4)
           a0 == a[0]  a1 == a[1]  a2 == a[2]  a3 == a[3]  a4 == a[4]
           b0 == b[0]  b1 == b[1]  b2 == b[2]  b3 == b[3]  b4 == b[4]
           B == Radix52
           u0 == B * e0
           u1 == B * (B * e1)
           u2 == B * (B * (B * e2))
<1>1. \A i \in S5 : a[i] \in 0..(Radix52 - 1) /\ b[i] \in 0..(Radix52 - 1)
  BY ScalarLimbs52
<1>2. Negative52(0) = 0
  BY Radix52Assumption DEF Negative52
<1>3. w = New52(w0, w1, w2, w3, w4)
  BY DEF Borrows52
<1>a. /\ a0 \in 0..(Radix52 - 1) /\ a1 \in 0..(Radix52 - 1) /\ a2 \in 0..(Radix52 - 1) /\ a3 \in 0..(Radix52 - 1)
      /\ a4 \in 0..(Radix52 - 1) /\ b0 \in 0..(Radix52 - 1) /\ b1 \in 0..(Radix52 - 1) /\ b2 \in 0..(Radix52 - 1)
      /\ b3 \in 0..(Radix52 - 1) /\ b4 \in 0..(Radix52 - 1)
  BY <1>1 DEF S5
<1>4. w[0] = w0 /\ w[1] = w1 /\ w[2] = w2 /\ w[3] = w3 /\ w[4] = w4
  BY <1>3, New52Limbs
<1> HIDE DEF w
<1>5. e0 \in {0, 1} /\ d0 \in 0..(Radix52 - 1) /\ a0 - b0 = d0 - B * e0
  <2>1. a0 - b0 - 0 = d0 - B * e0 /\ e0 \in {0, 1} /\ d0 \in 0..(Radix52 - 1)
    BY <1>a, <1>2, BorrowStep52
  <2> HIDE DEF a0, b0, d0, e0
  <2> QED BY <2>1, <1>a, Radix52Assumption
<1> HIDE DEF w0
<1>6. e1 \in {0, 1} /\ d1 \in 0..(Radix52 - 1) /\ a1 - b1 - e0 = d1 - B * e1
  BY <1>a, <1>5, BorrowStep52
<1> HIDE DEF w1
<1>7. e2 \in {0, 1} /\ d2 \in 0..(Radix52 - 1) /\ a2 - b2 - e1 = d2 - B * e2
  BY <1>a, <1>6, BorrowStep52
<1> HIDE DEF w2
<1>8. e3 \in {0, 1} /\ d3 \in 0..(Radix52 - 1) /\ a3 - b3 - e2 = d3 - B * e3
  BY <1>a, <1>7, BorrowStep52
<1> HIDE DEF w3
<1>9. e4 \in {0, 1} /\ d4 \in 0..(Radix52 - 1) /\ a4 - b4 - e3 = d4 - B * e4
  BY <1>a, <1>8, BorrowStep52
<1> HIDE DEF w4
<1>10. d[0] = d0 /\ d[1] = d1 /\ d[2] = d2 /\ d[3] = d3 /\ d[4] = d4
  BY <1>4 DEF S5
<1>11. d \in Scalars52
  <2>1. \A i \in S5 : i = 0 \/ i = 1 \/ i = 2 \/ i = 3 \/ i = 4
    BY DEF S5
  <2>2. \A i \in S5 : d[i] \in 0..(Radix52 - 1)
    BY <2>1, <1>10, <1>5, <1>6, <1>7, <1>8, <1>9
  <2> QED BY <2>2 DEF Scalars52
<1>12. /\ Value52(d) = d0 + B * (d1 + B * (d2 + B * (d3 + B * d4)))
       /\ Value52(a) = a0 + B * (a1 + B * (a2 + B * (a3 + B * a4)))
       /\ Value52(b) = b0 + B * (b1 + B * (b2 + B * (b3 + B * b4)))
       /\ MontgomeryR52 = B * (B * (B * (B * B)))
  BY <1>10 DEF Value52, MontgomeryR52
<1>b. B \in Nat
  BY Radix52Assumption
<1> HIDE DEF a0, a1, a2, a3, a4, b0, b1, b2, b3, b4, d0, d1, d2, d3, d4, e0, e1, e2, e3, e4, B, d
<1>13. B \in Nat /\ a0 \in Nat /\ a1 \in Nat /\ a2 \in Nat /\ a3 \in Nat /\ a4 \in Nat
       /\ b0 \in Nat /\ b1 \in Nat /\ b2 \in Nat /\ b3 \in Nat /\ b4 \in Nat
       /\ d0 \in Nat /\ d1 \in Nat /\ d2 \in Nat /\ d3 \in Nat /\ d4 \in Nat
       /\ e0 \in Nat /\ e1 \in Nat /\ e2 \in Nat /\ e3 \in Nat /\ e4 \in Nat
  BY <1>b, <1>a, <1>5, <1>6, <1>7, <1>8, <1>9, DigitsAreNumbers52
<1> DEFINE f4 == a4 - b4
           g4 == d4
           f3 == (a3 + B * a4) - (b3 + B * b4)
           g3 == d3 + B * d4
           f2 == (a2 + B * (a3 + B * a4)) - (b2 + B * (b3 + B * b4))
           g2 == d2 + B * g3
           f1 == (a1 + B * (a2 + B * (a3 + B * a4))) - (b1 + B * (b2 + B * (b3 + B * b4)))
           g1 == d1 + B * g2
           f0 == (a0 + B * (a1 + B * (a2 + B * (a3 + B * a4)))) - (b0 + B * (b1 + B * (b2 + B * (b3 + B * b4))))
           p1 == B * e4
           p2 == B * p1
           p3 == B * p2
           p4 == B * p3
<1>14. g3 \in Nat /\ g2 \in Nat /\ g1 \in Nat /\ p1 \in Nat /\ p2 \in Nat /\ p3 \in Nat /\ p4 \in Nat
  BY <1>13
<1>15. f4 \in Int /\ f3 \in Int /\ f2 \in Int /\ f1 \in Int
  BY <1>13
<1>16. f4 = d4 + e3 - p1
  BY <1>9, <1>13
<1>17. f3 = (a3 - b3) + B * f4
  BY <1>13
<1> HIDE DEF f4
<1>18. f3 = g3 + e2 - p2
  <2>1. f3 = (d3 - B * e3 + e2) + B * (d4 + e3 - p1)
    BY <1>8, <1>13, <1>16, <1>17
  <2> HIDE DEF p1
  <2> QED BY <2>1, <1>13, <1>14
<1>19. f2 = (a2 - b2) + B * f3
  BY <1>13
<1> HIDE DEF f3, g3
<1>20. f2 = g2 + e1 - p3
  <2>1. f2 = (d2 - B * e2 + e1) + B * (g3 + e2 - p2)
    BY <1>7, <1>13, <1>18, <1>19
  <2> HIDE DEF p2
  <2> QED BY <2>1, <1>13, <1>14
<1>21. f1 = (a1 - b1) + B * f2
  BY <1>13
<1> HIDE DEF f2, g2
<1>22. f1 = g1 + e0 - p4
  <2>1. f1 = (d1 - B * e1 + e0) + B * (g2 + e1 - p3)
    BY <1>6, <1>13, <1>20, <1>21
  <2> HIDE DEF p3
  <2> QED BY <2>1, <1>13, <1>14
<1>23. f0 = (a0 - b0) + B * f1
  BY <1>13
<1> HIDE DEF f1, g1
<1>24. f0 = (d0 + B * g1) - B * p4
  <2>1. f0 = (d0 - B * e0) + B * (g1 + e0 - p4)
    BY <1>5, <1>13, <1>22, <1>23
  <2> HIDE DEF p4, f0
  <2> QED BY <2>1, <1>13, <1>14
<1>25. B * p4 = MontgomeryR52 * e4
  BY <1>12, <1>13
<1>26. Value52(d) = d0 + B * g1
  BY <1>12 DEF g1, g2, g3
<1>27. Value52(a) - Value52(b) = f0
  BY <1>12
<1>28. Value52(a) - Value52(b) = Value52(d) - MontgomeryR52 * e4
  BY <1>24, <1>25, <1>26, <1>27
<1> QED BY <1>4, <1>9, <1>11, <1>28 DEF d, e4, w, d4

\* Five carries over words that leave room: the number, or what exceeds R once.
LEMMA CarriesExact ==
  ASSUME NEW x \in [S5 -> Nat], \A i \in S5 : x[i] <= 2 * Radix52 - 2
  PROVE  /\ Carries52(x) \in Scalars52
         /\ \E t \in {0, 1} : Value52(x) = Value52(Carries52(x)) + MontgomeryR52 * t
<1> DEFINE B == Radix52
           x0 == x[0]  x1 == x[1]  x2 == x[2]  x3 == x[3]  x4 == x[4]
           c0 == Carry52(x0, 0)
           c1 == Carry52(x1, c0)
           c2 == Carry52(x2, c1)
           c3 == Carry52(x3, c2)
           c4 == Carry52(x4, c3)
           q0 == c0 \div B  q1 == c1 \div B  q2 == c2 \div B  q3 == c3 \div B  q4 == c4 \div B
           r0 == c0 % B  r1 == c1 % B  r2 == c2 % B  r3 == c3 % B  r4 == c4 % B
<1>s. ASSUME NEW y \in Nat, y <= 2 * Radix52 - 2, NEW c, c \div Radix52 \in {0, 1}
      PROVE  LET n == Carry52(y, c)
             IN  /\ n \div Radix52 \in {0, 1} /\ n % Radix52 \in 0..(Radix52 - 1)
                 /\ y + (c \div Radix52) = (n % Radix52) + Radix52 * (n \div Radix52)
  <2> DEFINE k == c \div Radix52
             n == Carry52(y, c)
  <2>1. k \in Nat /\ k <= 1 /\ y + k \in Nat /\ y + k < 2 * Radix52 /\ y + k < Word52
    BY <1>s, Radix52Assumption
  <2>2. n = y + k
    BY <2>1, NoWrap52 DEF Carry52
  <2> HIDE DEF k, n
  <2>3. /\ n \in Nat /\ n < Radix52 * 2 /\ n \div Radix52 \in Nat /\ n % Radix52 \in 0..(Radix52 - 1)
        /\ n = Radix52 * (n \div Radix52) + (n % Radix52)
    BY <2>1, <2>2, Division52, Radix52Assumption
  <2>4. n \div Radix52 < 2
    BY <2>3, QuotientBelow52
  <2>5. n \div Radix52 \in {0, 1}
    BY <2>3, <2>4
  <2>6. y + k = (n % Radix52) + Radix52 * (n \div Radix52)
    BY <2>1, <2>2, <2>3, Radix52Assumption
  <2> QED BY <2>3, <2>5, <2>6 DEF k, n
<1>1. /\ x0 \in Nat /\ x1 \in Nat /\ x2 \in Nat /\ x3 \in Nat /\ x4 \in Nat
      /\ x0 <= 2 * B - 2 /\ x1 <= 2 * B - 2 /\ x2 <= 2 * B - 2 /\ x3 <= 2 * B - 2 /\ x4 <= 2 * B - 2
  BY DEF S5
<1>2. Carries52(x) = New52(r0, r1, r2, r3, r4)
  BY DEF Carries52
<1>3. 0 \div B = 0
  BY Radix52Assumption
<1>v. Value52(x) = x0 + B * (x1 + B * (x2 + B * (x3 + B * x4)))
  BY DEF Value52
<1> HIDE DEF x0, x1, x2, x3, x4
<1>4. q0 \in {0, 1} /\ r0 \in 0..(Radix52 - 1) /\ x0 + 0 = r0 + B * q0
  BY <1>1, <1>3, <1>s
<1> HIDE DEF c0
<1>5. q1 \in {0, 1} /\ r1 \in 0..(Radix52 - 1) /\ x1 + q0 = r1 + B * q1
  BY <1>1, <1>4, <1>s
<1> HIDE DEF c1
<1>6. q2 \in {0, 1} /\ r2 \in 0..(Radix52 - 1) /\ x2 + q1 = r2 + B * q2
  BY <1>1, <1>5, <1>s
<1> HIDE DEF c2
<1>7. q3 \in {0, 1} /\ r3 \in 0..(Radix52 - 1) /\ x3 + q2 = r3 + B * q3
  BY <1>1, <1>6, <1>s
<1> HIDE DEF c3
<1>8. q4 \in {0, 1} /\ r4 \in 0..(Radix52 - 1) /\ x4 + q3 = r4 + B * q4
  BY <1>1, <1>7, <1>s
<1> HIDE DEF c4
<1>9. Carries52(x) \in Scalars52
  BY <1>2, <1>4, <1>5, <1>6, <1>7, <1>8, New52Scalar
<1>10. Value52(Carries52(x)) = r0 + B * (r1 + B * (r2 + B * (r3 + B * r4)))
  BY <1>2, New52Limbs DEF Value52
<1>12. MontgomeryR52 = B * (B * (B * (B * B)))
  BY DEF MontgomeryR52
<1>b. B \in Nat
  BY Radix52Assumption
<1> HIDE DEF B, q0, q1, q2, q3, q4, r0, r1, r2, r3, r4
<1>11. /\ B \in Nat /\ q0 \in Nat /\ q1 \in Nat /\ q2 \in Nat /\ q3 \in Nat /\ q4 \in Nat
       /\ r0 \in Nat /\ r1 \in Nat /\ r2 \in Nat /\ r3 \in Nat /\ r4 \in Nat
  BY <1>b, <1>4, <1>5, <1>6, <1>7, <1>8, DigitsAreNumbers52
<1> DEFINE p1 == B * q4
           p2 == B * p1
           p3 == B * p2
           p4 == B * p3
           h3 == r3 + B * r4
           h2 == r2 + B * h3
           h1 == r1 + B * h2
           y3 == x3 + B * x4
           y2 == x2 + B * y3
           y1 == x1 + B * y2
<1>13. /\ p1 \in Nat /\ p2 \in Nat /\ p3 \in Nat /\ p4 \in Nat /\ h1 \in Nat /\ h2 \in Nat /\ h3 \in Nat
       /\ y1 \in Nat /\ y2 \in Nat /\ y3 \in Nat
  BY <1>1, <1>11
<1>14. x4 + q3 = r4 + p1
  BY <1>8
<1>15. y3 + q2 = h3 + p2
  <2>1. y3 + q2 = r3 + B * q3 + B * x4
    BY <1>1, <1>7, <1>11
  <2>2. B * (x4 + q3) = B * (r4 + p1)
    BY <1>14
  <2> HIDE DEF p1, y3
  <2> QED BY <2>1, <2>2, <1>1, <1>11, <1>13
<1> HIDE DEF y3, h3, p1
<1>16. y2 + q1 = h2 + p3
  <2>1. y2 + q1 = r2 + B * q2 + B * y3
    BY <1>1, <1>6, <1>11, <1>13
  <2>2. B * (y3 + q2) = B * (h3 + p2)
    BY <1>15
  <2> HIDE DEF p2, y2
  <2> QED BY <2>1, <2>2, <1>1, <1>11, <1>13
<1> HIDE DEF y2, h2
<1>17. y1 + q0 = h1 + p4
  <2>1. y1 + q0 = r1 + B * q1 + B * y2
    BY <1>1, <1>5, <1>11, <1>13
  <2>2. B * (y2 + q1) = B * (h2 + p3)
    BY <1>16
  <2> HIDE DEF p3, y1
  <2> QED BY <2>1, <2>2, <1>1, <1>11, <1>13
<1> HIDE DEF y1, h1
<1>18. x0 + B * y1 = r0 + B * h1 + B * p4
  <2>1. x0 = r0 + B * q0
    BY <1>1, <1>4, <1>11
  <2>2. B * (y1 + q0) = B * (h1 + p4)
    BY <1>17
  <2> HIDE DEF p4
  <2> QED BY <2>1, <2>2, <1>1, <1>11, <1>13
<1>19. B * p4 = MontgomeryR52 * q4
  BY <1>11, <1>12 DEF p1
<1>20. Value52(x) = Value52(Carries52(x)) + MontgomeryR52 * q4
  BY <1>v, <1>10, <1>18, <1>19 DEF y1, y2, y3, h1, h2, h3
<1> QED BY <1>8, <1>9, <1>20

\* The number of a limb-wise sum.
LEMMA ValueOfSum ==
  ASSUME NEW a \in Scalars52, NEW b \in Scalars52
  PROVE  Value52([i \in S5 |-> a[i] + b[i]]) = Value52(a) + Value52(b)
<1> DEFINE a0 == a[0]  a1 == a[1]  a2 == a[2]  a3 == a[3]  a4 == a[4]
           b0 == b[0]  b1 == b[1]  b2 == b[2]  b3 == b[3]  b4 == b[4]
<1>1. Value52([i \in S5 |-> a[i] + b[i]]) =
        (a0 + b0) + Radix52 * ((a1 + b1) + Radix52 * ((a2 + b2) + Radix52 * ((a3 + b3) + Radix52 * (a4 + b4))))
  BY DEF Value52, S5
<1>2. /\ a0 \in Nat /\ a1 \in Nat /\ a2 \in Nat /\ a3 \in Nat /\ a4 \in Nat
      /\ b0 \in Nat /\ b1 \in Nat /\ b2 \in Nat /\ b3 \in Nat /\ b4 \in Nat
  BY ScalarLimbs52 DEF S5
<1>3. /\ Value52(a) = a0 + Radix52 * (a1 + Radix52 * (a2 + Radix52 * (a3 + Radix52 * a4)))
      /\ Value52(b) = b0 + Radix52 * (b1 + Radix52 * (b2 + Radix52 * (b3 + Radix52 * b4)))
  BY DEF Value52
<1> HIDE DEF a0, a1, a2, a3, a4, b0, b1, b2, b3, b4
<1> QED BY <1>1, <1>2, <1>3, Radix52Assumption

\* sub: the difference, and l added once when it is negative and l outweighs it.
LEMMA SubWorks ==
  ASSUME NEW a \in Scalars52, NEW b \in Scalars52, Value52(b) <= Value52(a) + Order52
  PROVE  /\ Sub52(a, b) \in Scalars52
         /\ Value52(Sub52(a, b)) = IF Value52(b) <= Value52(a) THEN Value52(a) - Value52(b)
                                                                ELSE Value52(a) - Value52(b) + Order52
<1> DEFINE w == Borrows52(a, b)
           e == Negative52(w[4])
           d == [i \in S5 |-> w[i] % Radix52]
           x == [i \in S5 |-> (w[i] % Radix52) + e * L52[i]]
           va == Value52(a)
           vb == Value52(b)
           vd == Value52(d)
           vc == Value52(Carries52(x))
           M == MontgomeryR52
<1>1. d \in Scalars52 /\ e \in {0, 1} /\ va - vb = vd - M * e
  BY BorrowsExact
<1>2. Sub52(a, b) = Carries52(x)
  BY DEF Sub52
<1>3. L52 \in Scalars52 /\ Value52(L52) = Order52
  BY LimbsOfL
<1>4. \A i \in S5 : d[i] \in Nat /\ d[i] <= Radix52 - 1 /\ L52[i] \in Nat /\ L52[i] <= Radix52 - 1
  BY <1>1, <1>3, ScalarLimbs52, Radix52Assumption
<1>5. \A i \in S5 : x[i] = d[i] + e * L52[i]
  OBVIOUS
<1> HIDE DEF d, e, w
<1>6. x \in [S5 -> Nat] /\ \A i \in S5 : x[i] <= 2 * Radix52 - 2
  <2>1. \A i \in S5 : x[i] \in Nat /\ x[i] <= 2 * Radix52 - 2
    <3> TAKE i \in S5
    <3>1. e * L52[i] \in Nat /\ e * L52[i] <= Radix52 - 1
      BY <1>1, <1>4, Radix52Assumption
    <3> DEFINE y == e * L52[i]
    <3>2. x[i] = d[i] + y
      BY <1>5
    <3>3. y \in Nat /\ y <= Radix52 - 1
      BY <3>1
    <3> HIDE DEF y, x
    <3> QED BY <3>2, <3>3, <1>4, Radix52Assumption
  <2> QED BY <2>1
<1>7. PICK t \in {0, 1} : Value52(x) = vc + M * t
  BY <1>6, CarriesExact
<1>8. Carries52(x) \in Scalars52
  BY <1>6, CarriesExact
<1>9. Value52(x) = vd + e * Order52
  <2>1. CASE e = 0
    <3>1. \A i \in S5 : x[i] = d[i]
      BY <1>4, <1>5, <2>1
    <3>2. Value52(x) = vd
      BY <3>1 DEF Value52, S5
    <3>3. e * Order52 = 0 /\ vd \in Nat
      BY <2>1, <1>1, ValueBelowR52, RadixPowers52
    <3> QED BY <3>2, <3>3
  <2>2. CASE e = 1
    <3>1. \A i \in S5 : x[i] = d[i] + L52[i]
      BY <1>4, <1>5, <2>2
    <3>2. Value52(x) = Value52([i \in S5 |-> d[i] + L52[i]])
      BY <3>1 DEF Value52, S5
    <3>3. Value52(x) = vd + Order52
      BY <3>2, <1>1, <1>3, ValueOfSum
    <3>4. e * Order52 = Order52
      BY <2>2, RadixPowers52
    <3> QED BY <3>3, <3>4
  <2> QED BY <1>1, <2>1, <2>2
<1>10. va \in Nat /\ vb \in Nat /\ vd \in Nat /\ vd < M /\ vc \in Nat /\ vc < M /\ M \in Nat /\ Order52 \in Nat
  BY <1>1, <1>8, ValueBelowR52, RadixPowers52
<1>11. vb <= va + Order52
  OBVIOUS
<1> HIDE DEF va, vb, vd, vc, M, x
<1>12. CASE e = 0
  <2>1. va - vb = vd /\ vd = vc + M * t
    BY <1>1, <1>7, <1>9, <1>10, <1>12
  <2>2. t = 0
    BY <2>1, <1>7, <1>10
  <2>3. vc = va - vb /\ vb <= va
    BY <2>1, <2>2, <1>10
  <2> QED BY <2>3, <1>2, <1>8 DEF va, vb, vc
<1>13. CASE e = 1
  <2>1. va - vb = vd - M /\ vd + Order52 = vc + M * t
    BY <1>1, <1>7, <1>9, <1>10, <1>13
  <2>2. va < vb
    BY <2>1, <1>10
  <2>3. t = 1
    <3>1. vc + M * t >= M
      BY <2>1, <1>10, <1>11
    <3>2. t # 0
      BY <3>1, <1>10
    <3> QED BY <3>2, <1>7
  <2>4. vc = va - vb + Order52
    BY <2>1, <2>3, <1>10
  <2> QED BY <2>2, <2>4, <1>2, <1>8, <1>10 DEF va, vb, vc
<1> QED BY <1>1, <1>12, <1>13

\* add: the sum, less l when it reaches it.
LEMMA AddWorks ==
  ASSUME NEW a \in Scalars52, NEW b \in Scalars52, Value52(a) + Value52(b) < MontgomeryR52
  PROVE  /\ Add52(a, b) \in Scalars52
         /\ Value52(Add52(a, b)) = IF Order52 <= Value52(a) + Value52(b) THEN Value52(a) + Value52(b) - Order52
                                                                          ELSE Value52(a) + Value52(b)
<1> DEFINE x == [i \in S5 |-> a[i] + b[i]]
           c == Carries52(x)
           v == Value52(a) + Value52(b)
<1>1. \A i \in S5 : a[i] \in Nat /\ b[i] \in Nat /\ a[i] < Radix52 /\ b[i] < Radix52
  BY ScalarLimbs52
<1>2. x \in [S5 -> Nat] /\ \A i \in S5 : x[i] <= 2 * Radix52 - 2
  BY <1>1, Radix52Assumption
<1>3. Value52(x) = v
  BY ValueOfSum
<1>4. v \in Nat /\ v < MontgomeryR52
  BY ValueBelowR52
<1>5. Add52(a, b) = Sub52(c, L52)
  BY DEF Add52
<1> HIDE DEF x, v
<1>6. c \in Scalars52 /\ \E t \in {0, 1} : Value52(x) = Value52(c) + MontgomeryR52 * t
  BY <1>2, CarriesExact
<1> HIDE DEF c
<1>7. Value52(c) = v
  <2>1. PICK t \in {0, 1} : v = Value52(c) + MontgomeryR52 * t
    BY <1>3, <1>6
  <2>2. Value52(c) \in Nat /\ MontgomeryR52 \in Nat
    BY <1>6, ValueBelowR52, RadixPowers52
  <2>3. t = 0
    BY <2>1, <2>2, <1>4
  <2> QED BY <2>1, <2>2, <2>3
<1>8. /\ Sub52(c, L52) \in Scalars52
      /\ Value52(Sub52(c, L52)) = IF Order52 <= v THEN v - Order52 ELSE v - Order52 + Order52
  BY <1>4, <1>6, <1>7, LimbsOfL, SubWorks, RadixPowers52
<1>9. v - Order52 + Order52 = v
  BY <1>4, RadixPowers52
<1>10. Value52(Sub52(c, L52)) = IF Order52 <= v THEN v - Order52 ELSE v
  BY <1>8, <1>9
<1>11. /\ Add52(a, b) \in Scalars52
       /\ Value52(Add52(a, b)) = IF Order52 <= v THEN v - Order52 ELSE v
  BY <1>5, <1>8, <1>10
<1>12. v = Value52(a) + Value52(b) /\ Value52(a) \in Nat /\ Value52(b) \in Nat /\ Order52 \in Nat
  BY ValueBelowR52, RadixPowers52 DEF v
<1> QED BY <1>11, <1>12

\* A product of two limbs, the bound all sums are made of
ProductBound52 == (Radix52 - 1) * (Radix52 - 1)

\* What the bound is, and that the sums of the reduction stay below two words.
LEMMA ProductBounds52 ==
  /\ ProductBound52 \in Nat /\ Radix52 - 1 <= ProductBound52
  /\ 9 * Radix52 + 9 * ProductBound52 <= Radix52 * (9 * Radix52)
  /\ Radix52 * (9 * Radix52) \in Nat /\ Radix52 * (9 * Radix52) < Word52 * Word52
  /\ Word52 * Word52 \in Nat
<1> DEFINE B == Radix52
           W == Word52
<1>1. B \in Nat /\ W \in Nat /\ 1 < B /\ 4 * B <= W
  BY Radix52Assumption
<1>p. ProductBound52 = (B - 1) * (B - 1)
  BY DEF ProductBound52
<1>b. B = Radix52 /\ W = Word52
  OBVIOUS
<1> HIDE DEF B, W
<1>2. ProductBound52 = B * B - 2 * B + 1 /\ B * B \in Nat /\ ProductBound52 \in Nat
  BY <1>1, <1>p
<1>3. B - 1 <= (B - 1) * (B - 1)
  <2> DEFINE c == B - 1
  <2>1. c \in Nat /\ 1 <= c
    BY <1>1
  <2> HIDE DEF c
  <2>2. c <= c * c
    BY <2>1
  <2> QED BY <2>2 DEF c
<1>4. 2 * B <= B * B
  BY <1>1
<1>5. B * (9 * B) = 9 * (B * B)
  BY <1>1
<1>6. 9 * B + 9 * ProductBound52 <= B * (9 * B)
  BY <1>1, <1>2, <1>5
<1>7. 16 * (B * B) <= W * W
  <2>1. (4 * B) * (4 * B) <= W * (4 * B)
    BY <1>1
  <2>2. W * (4 * B) <= W * W
    BY <1>1
  <2>3. (4 * B) * (4 * B) = 16 * (B * B) /\ W * (4 * B) \in Nat /\ W * W \in Nat
    BY <1>1
  <2> QED BY <2>1, <2>2, <2>3, <1>2
<1>8. B * (9 * B) < W * W /\ W * W \in Nat /\ B * (9 * B) \in Nat
  BY <1>1, <1>2, <1>4, <1>5, <1>7
<1> QED BY <1>2, <1>3, <1>6, <1>8, <1>p, <1>b

\* Numbers below two words are unchanged by 128-bit arithmetic.
LEMMA NoDoubleWrap52 ==
  ASSUME NEW n \in Nat, n <= Radix52 * (9 * Radix52)
  PROVE  WW52(n) = n
<1> DEFINE w == Word52 * Word52
<1>1. w \in Nat /\ n < w
  BY ProductBounds52
<1>2. WW52(n) = n % w
  BY DEF WW52
<1> HIDE DEF w
<1> QED BY <1>1, <1>2

\* A product of two limbs is within the bound.
LEMMA LimbProduct52 ==
  ASSUME NEW x \in 0..(Radix52 - 1), NEW y \in 0..(Radix52 - 1)
  PROVE  x * y \in Nat /\ x * y <= ProductBound52
<1> DEFINE c == Radix52 - 1
<1>1. x \in Nat /\ y \in Nat /\ c \in Nat /\ x <= c /\ y <= c
  BY Radix52Assumption
<1>2. ProductBound52 = c * c
  BY DEF ProductBound52
<1> HIDE DEF c
<1>3. x * y <= c * y /\ c * y <= c * c /\ x * y \in Nat /\ c * y \in Nat /\ c * c \in Nat
  BY <1>1
<1> QED BY <1>2, <1>3

\* The columns of a product stand for the product: five products of limbs fit two words.
LEMMA ProductExact ==
  ASSUME NEW a \in Scalars52, NEW b \in Scalars52
  PROVE  /\ Wide52(MulInternal52(a, b)) = Value52(a) * Value52(b)
         /\ MulInternal52(a, b) \in [0..8 -> Nat]
         /\ \A k \in 0..8 : MulInternal52(a, b)[k] <= 5 * ProductBound52
         /\ LET z == MulInternal52(a, b)
            IN  /\ z[0] = a[0]*b[0] /\ z[1] = a[0]*b[1] + a[1]*b[0] /\ z[2] = a[0]*b[2] + a[1]*b[1] + a[2]*b[0]
                /\ z[3] = a[0]*b[3] + a[1]*b[2] + a[2]*b[1] + a[3]*b[0]
                /\ z[4] = a[0]*b[4] + a[1]*b[3] + a[2]*b[2] + a[3]*b[1] + a[4]*b[0]
                /\ z[5] = a[1]*b[4] + a[2]*b[3] + a[3]*b[2] + a[4]*b[1]
                /\ z[6] = a[2]*b[4] + a[3]*b[3] + a[4]*b[2]
                /\ z[7] = a[3]*b[4] + a[4]*b[3] /\ z[8] = a[4]*b[4]
<1> DEFINE a0 == a[0]  a1 == a[1]  a2 == a[2]  a3 == a[3]  a4 == a[4]
           b0 == b[0]  b1 == b[1]  b2 == b[2]  b3 == b[3]  b4 == b[4]
           B == Radix52
           PB == ProductBound52
           z == MulInternal52(a, b)
           z0 == a0*b0
           z1 == a0*b1 + a1*b0
           z2 == a0*b2 + a1*b1 + a2*b0
           z3 == a0*b3 + a1*b2 + a2*b1 + a3*b0
           z4 == a0*b4 + a1*b3 + a2*b2 + a3*b1 + a4*b0
           z5 == a1*b4 + a2*b3 + a3*b2 + a4*b1
           z6 == a2*b4 + a3*b3 + a4*b2
           z7 == a3*b4 + a4*b3
           z8 == a4*b4
<1>1. /\ z[0] = WW52(z0) /\ z[1] = WW52(z1) /\ z[2] = WW52(z2) /\ z[3] = WW52(z3) /\ z[4] = WW52(z4)
      /\ z[5] = WW52(z5) /\ z[6] = WW52(z6) /\ z[7] = WW52(z7) /\ z[8] = WW52(z8)
      /\ z = [k \in 0..8 |-> z[k]]
  BY DEF MulInternal52
<1>2. /\ a0 \in 0..(Radix52 - 1) /\ a1 \in 0..(Radix52 - 1) /\ a2 \in 0..(Radix52 - 1) /\ a3 \in 0..(Radix52 - 1)
      /\ a4 \in 0..(Radix52 - 1) /\ b0 \in 0..(Radix52 - 1) /\ b1 \in 0..(Radix52 - 1) /\ b2 \in 0..(Radix52 - 1)
      /\ b3 \in 0..(Radix52 - 1) /\ b4 \in 0..(Radix52 - 1)
  BY ScalarLimbs52 DEF S5
<1>3. /\ Value52(a) = a0 + B * (a1 + B * (a2 + B * (a3 + B * a4)))
      /\ Value52(b) = b0 + B * (b1 + B * (b2 + B * (b3 + B * b4)))
      /\ Wide52(z) = z[0] + B * (z[1] + B * (z[2] + B * (z[3] + B * (z[4] + B * (z[5] + B * (z[6] + B * (z[7] +
                        B * z[8])))))))
  BY DEF Value52, Wide52, Upper52
<1>4. B \in Nat /\ PB \in Nat
  BY Radix52Assumption, ProductBounds52
<1>e. /\ a0 = a[0] /\ a1 = a[1] /\ a2 = a[2] /\ a3 = a[3] /\ a4 = a[4]
      /\ b0 = b[0] /\ b1 = b[1] /\ b2 = b[2] /\ b3 = b[3] /\ b4 = b[4]
  OBVIOUS
<1> HIDE DEF a0, a1, a2, a3, a4, b0, b1, b2, b3, b4, z
<1>5. \A x \in 0..(Radix52 - 1), y \in 0..(Radix52 - 1) : x * y \in Nat /\ x * y <= PB
  BY LimbProduct52
<1> HIDE DEF B, PB
<1>6. /\ z0 \in Nat /\ z1 \in Nat /\ z2 \in Nat /\ z3 \in Nat /\ z4 \in Nat /\ z5 \in Nat /\ z6 \in Nat
      /\ z7 \in Nat /\ z8 \in Nat
      /\ z0 <= 5 * PB /\ z1 <= 5 * PB /\ z2 <= 5 * PB /\ z3 <= 5 * PB /\ z4 <= 5 * PB /\ z5 <= 5 * PB
      /\ z6 <= 5 * PB /\ z7 <= 5 * PB /\ z8 <= 5 * PB
  <2>1. /\ a0*b0 \in Nat /\ a0*b1 \in Nat /\ a0*b2 \in Nat /\ a0*b3 \in Nat /\ a0*b4 \in Nat
        /\ a0*b0 <= PB /\ a0*b1 <= PB /\ a0*b2 <= PB /\ a0*b3 <= PB /\ a0*b4 <= PB
    BY <1>2, <1>5
  <2>2. /\ a1*b0 \in Nat /\ a1*b1 \in Nat /\ a1*b2 \in Nat /\ a1*b3 \in Nat /\ a1*b4 \in Nat
        /\ a1*b0 <= PB /\ a1*b1 <= PB /\ a1*b2 <= PB /\ a1*b3 <= PB /\ a1*b4 <= PB
    BY <1>2, <1>5
  <2>3. /\ a2*b0 \in Nat /\ a2*b1 \in Nat /\ a2*b2 \in Nat /\ a2*b3 \in Nat /\ a2*b4 \in Nat
        /\ a2*b0 <= PB /\ a2*b1 <= PB /\ a2*b2 <= PB /\ a2*b3 <= PB /\ a2*b4 <= PB
    BY <1>2, <1>5
  <2>4. /\ a3*b0 \in Nat /\ a3*b1 \in Nat /\ a3*b2 \in Nat /\ a3*b3 \in Nat /\ a3*b4 \in Nat
        /\ a3*b0 <= PB /\ a3*b1 <= PB /\ a3*b2 <= PB /\ a3*b3 <= PB /\ a3*b4 <= PB
    BY <1>2, <1>5
  <2>5. /\ a4*b0 \in Nat /\ a4*b1 \in Nat /\ a4*b2 \in Nat /\ a4*b3 \in Nat /\ a4*b4 \in Nat
        /\ a4*b0 <= PB /\ a4*b1 <= PB /\ a4*b2 <= PB /\ a4*b3 <= PB /\ a4*b4 <= PB
    BY <1>2, <1>5
  <2> QED BY <2>1, <2>2, <2>3, <2>4, <2>5, <1>4
<1>n. /\ a0 \in Nat /\ a1 \in Nat /\ a2 \in Nat /\ a3 \in Nat /\ a4 \in Nat
      /\ b0 \in Nat /\ b1 \in Nat /\ b2 \in Nat /\ b3 \in Nat /\ b4 \in Nat
  BY <1>2, DigitsAreNumbers52
<1>w. \A n \in Nat : n <= 5 * PB => WW52(n) = n
  BY NoDoubleWrap52, ProductBounds52, Radix52Assumption DEF PB
<1>z. /\ z0 = a0*b0 /\ z1 = a0*b1 + a1*b0 /\ z2 = a0*b2 + a1*b1 + a2*b0 /\ z3 = a0*b3 + a1*b2 + a2*b1 + a3*b0
      /\ z4 = a0*b4 + a1*b3 + a2*b2 + a3*b1 + a4*b0 /\ z5 = a1*b4 + a2*b3 + a3*b2 + a4*b1
      /\ z6 = a2*b4 + a3*b3 + a4*b2 /\ z7 = a3*b4 + a4*b3 /\ z8 = a4*b4
  OBVIOUS
<1> HIDE DEF z0, z1, z2, z3, z4, z5, z6, z7, z8
<1>7. /\ z[0] = z0 /\ z[1] = z1 /\ z[2] = z2 /\ z[3] = z3 /\ z[4] = z4 /\ z[5] = z5 /\ z[6] = z6 /\ z[7] = z7
      /\ z[8] = z8
  BY <1>1, <1>6, <1>w
<1>8. \A k \in 0..8 : z[k] \in Nat /\ z[k] <= 5 * PB
  <2>1. \A k \in 0..8 : k = 0 \/ k = 1 \/ k = 2 \/ k = 3 \/ k = 4 \/ k = 5 \/ k = 6 \/ k = 7 \/ k = 8
    OBVIOUS
  <2> QED BY <2>1, <1>6, <1>7
<1>9. z \in [0..8 -> Nat]
  BY <1>1, <1>8
<1>10. Wide52(z) = Value52(a) * Value52(b)
  <2>1. z0 + B * (z1 + B * (z2 + B * (z3 + B * (z4 + B * (z5 + B * (z6 + B * (z7 + B * z8))))))) =
          (a0 + B * (a1 + B * (a2 + B * (a3 + B * a4)))) * (b0 + B * (b1 + B * (b2 + B * (b3 + B * b4))))
    BY <1>z, <1>4, <1>n, SMTT(60)
  <2> QED BY <2>1, <1>3, <1>7
<1> QED BY <1>7, <1>8, <1>9, <1>10, <1>z, <1>e DEF z, PB

\* square_internal computes what mul_internal does: no doubled limb wraps.
LEMMA SquareInternalExact ==
  ASSUME NEW a \in Scalars52
  PROVE  SquareInternal52(a) = MulInternal52(a, a)
<1> DEFINE a0 == a[0]  a1 == a[1]  a2 == a[2]  a3 == a[3]  a4 == a[4]
<1>1. \A i \in S5 : W52(a[i] * 2) = 2 * a[i]
  <2> TAKE i \in S5
  <2>1. a[i] \in Nat /\ a[i] < Radix52
    BY ScalarLimbs52
  <2>2. a[i] * 2 \in Nat /\ a[i] * 2 < Word52 /\ a[i] * 2 = 2 * a[i]
    BY <2>1, Radix52Assumption
  <2> QED BY <2>2, NoWrap52
<1>2. W52(a0 * 2) = 2 * a0 /\ W52(a1 * 2) = 2 * a1 /\ W52(a2 * 2) = 2 * a2 /\ W52(a3 * 2) = 2 * a3
  BY <1>1 DEF S5
<1>3. a0 \in Nat /\ a1 \in Nat /\ a2 \in Nat /\ a3 \in Nat /\ a4 \in Nat
  BY ScalarLimbs52 DEF S5
<1> DEFINE s == SquareInternal52(a)
           m == MulInternal52(a, a)
<1>4. /\ s[0] = WW52(a0*a0) /\ s[1] = WW52(W52(a0 * 2)*a1) /\ s[2] = WW52(W52(a0 * 2)*a2 + a1*a1)
      /\ s[3] = WW52(W52(a0 * 2)*a3 + W52(a1 * 2)*a2) /\ s[4] = WW52(W52(a0 * 2)*a4 + W52(a1 * 2)*a3 + a2*a2)
      /\ s[5] = WW52(W52(a1 * 2)*a4 + W52(a2 * 2)*a3) /\ s[6] = WW52(W52(a2 * 2)*a4 + a3*a3)
      /\ s[7] = WW52(W52(a3 * 2)*a4) /\ s[8] = WW52(a4*a4)
  BY DEF SquareInternal52
<1>5. /\ m[0] = WW52(a0*a0) /\ m[1] = WW52(a0*a1 + a1*a0) /\ m[2] = WW52(a0*a2 + a1*a1 + a2*a0)
      /\ m[3] = WW52(a0*a3 + a1*a2 + a2*a1 + a3*a0) /\ m[4] = WW52(a0*a4 + a1*a3 + a2*a2 + a3*a1 + a4*a0)
      /\ m[5] = WW52(a1*a4 + a2*a3 + a3*a2 + a4*a1) /\ m[6] = WW52(a2*a4 + a3*a3 + a4*a2)
      /\ m[7] = WW52(a3*a4 + a4*a3) /\ m[8] = WW52(a4*a4)
  BY DEF MulInternal52
<1>6. m = [k \in 0..8 |-> m[k]]
  BY DEF MulInternal52
<1>7. s = [k \in 0..8 |-> s[k]]
  BY DEF SquareInternal52
<1>8. \A k \in 0..8 : k = 0 \/ k = 1 \/ k = 2 \/ k = 3 \/ k = 4 \/ k = 5 \/ k = 6 \/ k = 7 \/ k = 8
  OBVIOUS
<1> HIDE DEF a0, a1, a2, a3, a4, s, m
<1>c. /\ (2 * a0)*a1 = a0*a1 + a1*a0 /\ (2 * a0)*a2 + a1*a1 = a0*a2 + a1*a1 + a2*a0
      /\ (2 * a0)*a3 + (2 * a1)*a2 = a0*a3 + a1*a2 + a2*a1 + a3*a0
      /\ (2 * a0)*a4 + (2 * a1)*a3 + a2*a2 = a0*a4 + a1*a3 + a2*a2 + a3*a1 + a4*a0
      /\ (2 * a1)*a4 + (2 * a2)*a3 = a1*a4 + a2*a3 + a3*a2 + a4*a1
      /\ (2 * a2)*a4 + a3*a3 = a2*a4 + a3*a3 + a4*a2 /\ (2 * a3)*a4 = a3*a4 + a4*a3
  BY <1>3
<1>9. /\ s[0] = m[0] /\ s[1] = m[1] /\ s[2] = m[2] /\ s[3] = m[3] /\ s[4] = m[4]
      /\ s[5] = m[5] /\ s[6] = m[6] /\ s[7] = m[7] /\ s[8] = m[8]
  BY <1>2, <1>4, <1>5, <1>c
<1>10. \A k \in 0..8 : s[k] = m[k]
  BY <1>8, <1>9
<1>11. s = m
  BY <1>6, <1>7, <1>10
<1> QED BY <1>11 DEF s, m

\* The limb -1/l mod 2^52 is what constants.rs says it is.
LEMMA LFactor52 ==
  LFACTOR52 \in 0..(Radix52 - 1) /\ (LFACTOR52 * L52[0]) % Radix52 = Radix52 - 1
BY Order52Assumption DEF LFACTOR52

\* part1: the multiple of l[0] clears the low bits of any sum.
LEMMA FactorExact ==
  ASSUME NEW s \in Nat, s + ProductBound52 <= Radix52 * (9 * Radix52)
  PROVE  /\ Factor52(s) \in 0..(Radix52 - 1) /\ Cleared52(s) \in Nat /\ Cleared52(s) <= 9 * Radix52
         /\ s + Factor52(s) * L52[0] = Radix52 * Cleared52(s)
<1> DEFINE B == Radix52
           g == LFACTOR52
           l0 == L52[0]
           n == Factor52(s)
           u == W52(s) * g
<1>1. l0 \in Nat /\ g \in Nat /\ B \in Nat /\ 1 < B /\ Word52 \in Nat /\ Word52 > 0
  BY LFactor52, LimbsOfL, ScalarLimbs52, Radix52Assumption DEF S5
<1>2. PICK m \in Nat : Word52 = B * m
  BY WordOfRadices52
<1>3. \A y \in Nat : W52(y) \in Nat /\ \E q \in Nat : y = W52(y) + Word52 * q
  BY WrapsByWords52
<1>4. PICK q \in Nat : W52(s) \in Nat /\ s = W52(s) + Word52 * q
  BY <1>3
<1>5. u \in Nat
  BY <1>1, <1>4
<1> HIDE DEF u
<1>6. PICK r \in Nat : W52(u) \in Nat /\ u = W52(u) + Word52 * r
  BY <1>3, <1>5
<1>7. n = W52(u) % B
  BY DEF Factor52, u
<1>8. PICK t \in Nat : n \in 0..(B - 1) /\ W52(u) = B * t + n
  BY <1>6, <1>7, Division52
<1>9. PICK h \in Nat : g * l0 + 1 = B * h
  <2>1. g * l0 \in Nat /\ (g * l0) % B = B - 1
    BY <1>1, LFactor52
  <2> DEFINE k == (g * l0) \div B
  <2>2. k \in Nat /\ g * l0 = B * k + (B - 1)
    BY <2>1, Division52
  <2> HIDE DEF k
  <2>3. g * l0 + 1 = B * (k + 1)
    BY <2>2, <1>1
  <2> QED BY <2>2, <2>3
<1>10. n \in Nat
  BY <1>8, <1>1
<1>v. n * l0 \in Nat /\ s + n * l0 \in Nat /\ s + n * l0 <= B * (9 * B)
  <2>1. l0 \in 0..(Radix52 - 1)
    BY LimbsOfL, ScalarLimbs52 DEF S5
  <2>2. n * l0 \in Nat /\ n * l0 <= ProductBound52
    BY <2>1, <1>8, LimbProduct52
  <2> DEFINE x == n * l0
  <2>3. x \in Nat /\ x <= ProductBound52
    BY <2>2
  <2> HIDE DEF x
  <2>4. s + x \in Nat /\ s + x <= Radix52 * (9 * Radix52)
    BY <2>3, ProductBounds52
  <2> QED BY <2>2, <2>4 DEF x
<1>11. Cleared52(s) = (s + n * l0) \div B
  <2>1. Cleared52(s) = WW52(s + n * l0) \div B
    BY DEF Cleared52
  <2>2. WW52(s + n * l0) = s + n * l0
    BY <1>v, NoDoubleWrap52
  <2> QED BY <2>1, <2>2
<1>12. u = W52(s) * g
  BY DEF u
<1> HIDE DEF B, g, l0, n
<1> DEFINE ws == W52(s)
           wu == W52(u)
<1>13. /\ ws \in Nat /\ wu \in Nat /\ s = ws + (B * m) * q /\ u = wu + (B * m) * r /\ wu = B * t + n
       /\ u = ws * g
  BY <1>2, <1>4, <1>6, <1>8, <1>12
<1> HIDE DEF ws, wu
<1>14. s + n * l0 = B * (m * q + ws * h - (t + m * r) * l0)
  <2>1. n = ws * g - B * (t + m * r)
    BY <1>1, <1>5, <1>13, <1>10
  <2>2. n * l0 = ws * (g * l0) - B * ((t + m * r) * l0)
    BY <2>1, <1>1, <1>13
  <2>3. g * l0 = B * h - 1
    BY <1>9, <1>1
  <2>4. ws * (g * l0) = B * (ws * h) - ws
    BY <2>3, <1>13, <1>1
  <2>5. s = ws + B * (m * q)
    BY <1>13, <1>1
  <2>6. s + n * l0 = B * (m * q) + B * (ws * h) - B * ((t + m * r) * l0)
    <3>1. ws * (g * l0) \in Int /\ B * (ws * h) \in Int /\ B * ((t + m * r) * l0) \in Int /\ B * (m * q) \in Int
      BY <1>1, <1>13
    <3> QED BY <3>1, <2>2, <2>4, <2>5, <1>13
  <2> QED BY <2>6, <1>1, <1>13
<1> DEFINE z == m * q + ws * h - (t + m * r) * l0
<1>15. z \in Int
  BY <1>1, <1>13
<1> HIDE DEF z
<1>16. s + n * l0 \in Nat
  BY <1>1, <1>10
<1>17. s + n * l0 = B * z
  BY <1>14 DEF z
<1>18. z \in Nat
  <2>1. B * z \in Nat
    BY <1>16, <1>17
  <2> QED BY <2>1, <1>15, <1>1
<1>19. (B * z) \div B = z
  BY <1>18, <1>1
<1>20. Cleared52(s) = z
  BY <1>11, <1>17, <1>19
<1>21. z <= 9 * B
  <2>1. B * z <= B * (9 * B)
    BY <1>v, <1>17
  <2> QED BY <2>1, <1>18, <1>1
<1> QED BY <1>8, <1>17, <1>18, <1>20, <1>21 DEF B, n, l0

\* Nine columns carried upwards, the lower five without a remainder: R divides them off.
LEMMA CarriedColumns ==
  ASSUME NEW B \in Nat,
         NEW y0 \in Nat, NEW y1 \in Nat, NEW y2 \in Nat, NEW y3 \in Nat, NEW y4 \in Nat,
         NEW y5 \in Nat, NEW y6 \in Nat, NEW y7 \in Nat, NEW y8 \in Nat,
         NEW c0 \in Nat, NEW c1 \in Nat, NEW c2 \in Nat, NEW c3 \in Nat, NEW c4 \in Nat,
         NEW c5 \in Nat, NEW c6 \in Nat, NEW c7 \in Nat, NEW c8 \in Nat,
         NEW r0 \in Nat, NEW r1 \in Nat, NEW r2 \in Nat, NEW r3 \in Nat,
         y0 = B * c0, c0 + y1 = B * c1, c1 + y2 = B * c2, c2 + y3 = B * c3, c3 + y4 = B * c4,
         c4 + y5 = B * c5 + r0, c5 + y6 = B * c6 + r1, c6 + y7 = B * c7 + r2, c7 + y8 = B * c8 + r3
  PROVE  y0 + B * (y1 + B * (y2 + B * (y3 + B * (y4 + B * (y5 + B * (y6 + B * (y7 + B * y8))))))) =
           (B * (B * (B * (B * B)))) * (r0 + B * (r1 + B * (r2 + B * (r3 + B * c8))))
<1> DEFINE v3 == r3 + B * c8
           v2 == r2 + B * v3
           v1 == r1 + B * v2
           v0 == r0 + B * v1
           h8 == y8
           h7 == y7 + B * y8
           h6 == y6 + B * h7
           h5 == y5 + B * h6
           h4 == y4 + B * h5
           h3 == y3 + B * h4
           h2 == y2 + B * h3
           h1 == y1 + B * h2
           p1 == B * v0
           p2 == B * p1
           p3 == B * p2
           p4 == B * p3
<1>1. v3 \in Nat /\ v2 \in Nat /\ v1 \in Nat /\ v0 \in Nat
  OBVIOUS
<1>2. h7 \in Nat /\ h6 \in Nat /\ h5 \in Nat /\ h4 \in Nat /\ h3 \in Nat /\ h2 \in Nat /\ h1 \in Nat
  OBVIOUS
<1>p. p1 \in Nat /\ p2 \in Nat /\ p3 \in Nat /\ p4 \in Nat
  BY <1>1
<1>s. \A c \in Nat, y \in Nat, h \in Nat, d \in Nat, r \in Nat, v \in Nat :
        c + y = B * d + r /\ d + h = v => c + (y + B * h) = r + B * v
  <2> TAKE c \in Nat, y \in Nat, h \in Nat, d \in Nat, r \in Nat, v \in Nat
  <2> HAVE c + y = B * d + r /\ d + h = v
  <2>1. B * (d + h) = B * d + B * h
    OBVIOUS
  <2>2. B * d \in Nat /\ B * h \in Nat
    OBVIOUS
  <2> QED BY <2>1, <2>2
<1>z. \A x \in Nat : x + 0 = x /\ 0 + x = x
  OBVIOUS
<1> HIDE DEF v0, v1, v2, v3, h1, h2, h3, h4, h5, h6, h7, p1, p2, p3, p4
<1>3. c7 + y8 = v3
  BY DEF v3
<1>4. c6 + h7 = v2
  BY <1>1, <1>2, <1>3, <1>s DEF h7, v2
<1>5. c5 + h6 = v1
  BY <1>1, <1>2, <1>4, <1>s DEF h6, v1
<1>6. c4 + h5 = v0
  BY <1>1, <1>2, <1>5, <1>s DEF h5, v0
<1>7. c3 + h4 = p1
  <2>1. c3 + h4 = 0 + B * v0
    BY <1>1, <1>2, <1>6, <1>s DEF h4
  <2> QED BY <2>1, <1>p DEF p1
<1>8. c2 + h3 = p2
  <2>1. c2 + h3 = 0 + B * p1
    BY <1>p, <1>2, <1>7, <1>s DEF h3
  <2> QED BY <2>1, <1>p DEF p2
<1>9. c1 + h2 = p3
  <2>1. c1 + h2 = 0 + B * p2
    BY <1>p, <1>2, <1>8, <1>s DEF h2
  <2> QED BY <2>1, <1>p DEF p3
<1>10. c0 + h1 = p4
  <2>1. c0 + h1 = 0 + B * p3
    BY <1>p, <1>2, <1>9, <1>s DEF h1
  <2> QED BY <2>1, <1>p DEF p4
<1>11. y0 + B * h1 = B * p4
  <2>1. 0 + (y0 + B * h1) = 0 + B * p4
    <3>1. 0 + y0 = B * c0 + 0
      OBVIOUS
    <3> QED BY <3>1, <1>p, <1>2, <1>10, <1>s
  <2>2. y0 + B * h1 \in Nat /\ B * p4 \in Nat
    BY <1>2, <1>p
  <2> QED BY <2>1, <2>2
<1>12. B * p4 = (B * (B * (B * (B * B)))) * v0
  BY <1>1 DEF p1, p2, p3, p4
<1> QED BY <1>11, <1>12 DEF h1, h2, h3, h4, h5, h6, h7, v0, v1, v2, v3

\* The number of nine columns is that of their parts.
LEMMA WideOfSum ==
  ASSUME NEW y \in [0..8 -> Nat], NEW z \in [0..8 -> Nat], NEW p \in [0..8 -> Nat],
         \A k \in 0..8 : y[k] = z[k] + p[k]
  PROVE  Wide52(y) = Wide52(z) + Wide52(p)
<1> DEFINE B == Radix52
<1>a. B \in Nat
  BY Radix52Assumption
<1> HIDE DEF B
<1>n. /\ y[0] \in Nat /\ z[0] \in Nat /\ p[0] \in Nat /\ y[0] = z[0] + p[0]
      /\ y[1] \in Nat /\ z[1] \in Nat /\ p[1] \in Nat /\ y[1] = z[1] + p[1]
      /\ y[2] \in Nat /\ z[2] \in Nat /\ p[2] \in Nat /\ y[2] = z[2] + p[2]
      /\ y[3] \in Nat /\ z[3] \in Nat /\ p[3] \in Nat /\ y[3] = z[3] + p[3]
      /\ y[4] \in Nat /\ z[4] \in Nat /\ p[4] \in Nat /\ y[4] = z[4] + p[4]
      /\ y[5] \in Nat /\ z[5] \in Nat /\ p[5] \in Nat /\ y[5] = z[5] + p[5]
      /\ y[6] \in Nat /\ z[6] \in Nat /\ p[6] \in Nat /\ y[6] = z[6] + p[6]
      /\ y[7] \in Nat /\ z[7] \in Nat /\ p[7] \in Nat /\ y[7] = z[7] + p[7]
      /\ y[8] \in Nat /\ z[8] \in Nat /\ p[8] \in Nat /\ y[8] = z[8] + p[8]
  OBVIOUS
<1> DEFINE Y8 == y[8]  Y7 == y[7] + B * Y8  Y6 == y[6] + B * Y7  Y5 == y[5] + B * Y6  Y4 == y[4] + B * Y5
           Y3 == y[3] + B * Y4  Y2 == y[2] + B * Y3  Y1 == y[1] + B * Y2  Y0 == y[0] + B * Y1
           U8 == z[8]  U7 == z[7] + B * U8  U6 == z[6] + B * U7  U5 == z[5] + B * U6  U4 == z[4] + B * U5
           U3 == z[3] + B * U4  U2 == z[2] + B * U3  U1 == z[1] + B * U2  U0 == z[0] + B * U1
           P8 == p[8]  P7 == p[7] + B * P8  P6 == p[6] + B * P7  P5 == p[5] + B * P6  P4 == p[4] + B * P5
           P3 == p[3] + B * P4  P2 == p[2] + B * P3  P1 == p[1] + B * P2  P0 == p[0] + B * P1
<1>v. Wide52(y) = Y0 /\ Wide52(z) = U0 /\ Wide52(p) = P0
  BY DEF Wide52, Upper52, B
<1>8. Y8 \in Nat /\ U8 \in Nat /\ P8 \in Nat /\ Y8 = U8 + P8
  BY <1>n
<1> HIDE DEF Y8, U8, P8
<1>7. Y7 \in Nat /\ U7 \in Nat /\ P7 \in Nat /\ Y7 = U7 + P7
  <2>1. B * (U8 + P8) = B * U8 + B * P8
    BY <1>8, <1>a
  <2>2. B * Y8 \in Nat /\ B * U8 \in Nat /\ B * P8 \in Nat
    BY <1>8, <1>a
  <2> QED BY <2>1, <2>2, <1>8, <1>n
<1> HIDE DEF Y7, U7, P7
<1>6. Y6 \in Nat /\ U6 \in Nat /\ P6 \in Nat /\ Y6 = U6 + P6
  <2>1. B * (U7 + P7) = B * U7 + B * P7
    BY <1>7, <1>a
  <2>2. B * Y7 \in Nat /\ B * U7 \in Nat /\ B * P7 \in Nat
    BY <1>7, <1>a
  <2> QED BY <2>1, <2>2, <1>7, <1>n
<1> HIDE DEF Y6, U6, P6
<1>5. Y5 \in Nat /\ U5 \in Nat /\ P5 \in Nat /\ Y5 = U5 + P5
  <2>1. B * (U6 + P6) = B * U6 + B * P6
    BY <1>6, <1>a
  <2>2. B * Y6 \in Nat /\ B * U6 \in Nat /\ B * P6 \in Nat
    BY <1>6, <1>a
  <2> QED BY <2>1, <2>2, <1>6, <1>n
<1> HIDE DEF Y5, U5, P5
<1>4. Y4 \in Nat /\ U4 \in Nat /\ P4 \in Nat /\ Y4 = U4 + P4
  <2>1. B * (U5 + P5) = B * U5 + B * P5
    BY <1>5, <1>a
  <2>2. B * Y5 \in Nat /\ B * U5 \in Nat /\ B * P5 \in Nat
    BY <1>5, <1>a
  <2> QED BY <2>1, <2>2, <1>5, <1>n
<1> HIDE DEF Y4, U4, P4
<1>3. Y3 \in Nat /\ U3 \in Nat /\ P3 \in Nat /\ Y3 = U3 + P3
  <2>1. B * (U4 + P4) = B * U4 + B * P4
    BY <1>4, <1>a
  <2>2. B * Y4 \in Nat /\ B * U4 \in Nat /\ B * P4 \in Nat
    BY <1>4, <1>a
  <2> QED BY <2>1, <2>2, <1>4, <1>n
<1> HIDE DEF Y3, U3, P3
<1>2. Y2 \in Nat /\ U2 \in Nat /\ P2 \in Nat /\ Y2 = U2 + P2
  <2>1. B * (U3 + P3) = B * U3 + B * P3
    BY <1>3, <1>a
  <2>2. B * Y3 \in Nat /\ B * U3 \in Nat /\ B * P3 \in Nat
    BY <1>3, <1>a
  <2> QED BY <2>1, <2>2, <1>3, <1>n
<1> HIDE DEF Y2, U2, P2
<1>1. Y1 \in Nat /\ U1 \in Nat /\ P1 \in Nat /\ Y1 = U1 + P1
  <2>1. B * (U2 + P2) = B * U2 + B * P2
    BY <1>2, <1>a
  <2>2. B * Y2 \in Nat /\ B * U2 \in Nat /\ B * P2 \in Nat
    BY <1>2, <1>a
  <2> QED BY <2>1, <2>2, <1>2, <1>n
<1> HIDE DEF Y1, U1, P1
<1>0. Y0 = U0 + P0
  <2>1. B * (U1 + P1) = B * U1 + B * P1
    BY <1>1, <1>a
  <2>2. B * Y1 \in Nat /\ B * U1 \in Nat /\ B * P1 \in Nat
    BY <1>1, <1>a
  <2> QED BY <2>1, <2>2, <1>1, <1>n
<1> QED BY <1>v, <1>0

\* montgomery_reduce before its last subtraction: the columns and a multiple of l, with R
\* divided off.
LEMMA ReductionWorks ==
  ASSUME NEW z \in [0..8 -> Nat], \A k \in 0..8 : z[k] <= 5 * ProductBound52,
         Wide52(z) < MontgomeryR52 * Order52
  PROVE  \E v \in Scalars52, k \in Nat :
           /\ MontgomeryReduce52(z) = Sub52(v, L52)
           /\ MontgomeryR52 * Value52(v) = Wide52(z) + k * Order52
           /\ Value52(v) < 2 * Order52
<1> DEFINE B == Radix52
           l0 == L52[0]  l1 == L52[1]  l2 == L52[2]  l4 == L52[4]
           s0 == z[0]
           n0 == Factor52(s0)
           c0 == Cleared52(s0)
           s1 == WW52(c0 + z[1] + n0*l1)
           n1 == Factor52(s1)
           c1 == Cleared52(s1)
           s2 == WW52(c1 + z[2] + n0*l2 + n1*l1)
           n2 == Factor52(s2)
           c2 == Cleared52(s2)
           s3 == WW52(c2 + z[3] + n1*l2 + n2*l1)
           n3 == Factor52(s3)
           c3 == Cleared52(s3)
           s4 == WW52(c3 + z[4] + n0*l4 + n2*l2 + n3*l1)
           n4 == Factor52(s4)
           c4 == Cleared52(s4)
           s5 == WW52(c4 + z[5] + n1*l4 + n3*l2 + n4*l1)
           c5 == s5 \div B
           r0 == s5 % B
           s6 == WW52(c5 + z[6] + n2*l4 + n4*l2)
           c6 == s6 \div B
           r1 == s6 % B
           s7 == WW52(c6 + z[7] + n3*l4)
           c7 == s7 \div B
           r2 == s7 % B
           s8 == WW52(c7 + z[8] + n4*l4)
           c8 == s8 \div B
           r3 == s8 % B
           n == New52(n0, n1, n2, n3, n4)
           p == MulInternal52(n, L52)
           y == [k \in 0..8 |-> z[k] + p[k]]
           V == r0 + B * (r1 + B * (r2 + B * (r3 + B * c8)))
           M == MontgomeryR52
<1>1. MontgomeryReduce52(z) = Sub52(New52(r0, r1, r2, r3, W52(c8)), L52)
  BY DEF MontgomeryReduce52
<1>2. /\ l0 \in Nat /\ l1 \in Nat /\ l2 \in Nat /\ l4 \in Nat /\ L52[3] = 0 /\ Value52(L52) = Order52
      /\ L52 \in [S5 -> Nat]
  <2>1. L52 \in Scalars52 /\ L52[3] = 0 /\ Value52(L52) = Order52
    BY LimbsOfL
  <2> QED BY <2>1, Radix52Assumption DEF Scalars52, S5
<1>3. B \in Nat /\ M \in Nat /\ M = B * (B * (B * (B * B))) /\ Order52 \in Nat
  BY RadixPowers52 DEF MontgomeryR52
<1>z. \A k \in 0..8 : z[k] \in Nat
  OBVIOUS
<1>f. \A s \in Nat : s + ProductBound52 <= Radix52 * (9 * Radix52) =>
        /\ Factor52(s) \in 0..(Radix52 - 1) /\ Factor52(s) \in Nat /\ Cleared52(s) \in Nat
        /\ s + Factor52(s) * l0 = B * Cleared52(s) /\ Cleared52(s) <= 9 * Radix52
  BY FactorExact, DigitsAreNumbers52
<1>b. \A x \in Nat : x <= Radix52 * (9 * Radix52) => x \div Radix52 <= 9 * Radix52
  <2> TAKE x \in Nat
  <2> HAVE x <= Radix52 * (9 * Radix52)
  <2> DEFINE q == x \div Radix52
  <2>1. q \in Nat /\ Radix52 * q <= x
    BY Division52, Radix52Assumption
  <2> HIDE DEF q
  <2>2. Radix52 * q <= Radix52 * (9 * Radix52)
    BY <2>1, ProductBounds52, Radix52Assumption
  <2>3. q <= 9 * Radix52
    BY <2>1, <2>2, Radix52Assumption
  <2> QED BY <2>3 DEF q
\* A carry, a column and at most three products fit, and leave room for one more product.
<1>a. \A c \in Nat, x \in Nat, w \in Nat, u1 \in Nat, u2 \in Nat, u3 \in Nat :
        /\ c <= 9 * Radix52 /\ x <= 5 * ProductBound52 /\ w = c + x + u1 + u2 + u3
        /\ u1 <= ProductBound52 /\ u2 <= ProductBound52 /\ u3 <= ProductBound52
        => /\ WW52(w) = w /\ w + ProductBound52 <= Radix52 * (9 * Radix52)
           /\ w <= Radix52 * (9 * Radix52)
  <2> TAKE c \in Nat, x \in Nat, w \in Nat, u1 \in Nat, u2 \in Nat, u3 \in Nat
  <2> HAVE /\ c <= 9 * Radix52 /\ x <= 5 * ProductBound52 /\ w = c + x + u1 + u2 + u3
           /\ u1 <= ProductBound52 /\ u2 <= ProductBound52 /\ u3 <= ProductBound52
  <2>1. w + ProductBound52 <= 9 * Radix52 + 9 * ProductBound52
    BY ProductBounds52, Radix52Assumption
  <2>2. w + ProductBound52 <= Radix52 * (9 * Radix52)
    BY <2>1, ProductBounds52, Radix52Assumption
  <2>3. w <= Radix52 * (9 * Radix52)
    BY <2>2, ProductBounds52
  <2> QED BY <2>2, <2>3, NoDoubleWrap52
<1>i. \A x \in 0..(Radix52 - 1), w \in 0..(Radix52 - 1) : x * w \in Nat /\ x * w <= ProductBound52
  BY LimbProduct52
<1>l. l1 \in 0..(Radix52 - 1) /\ l2 \in 0..(Radix52 - 1) /\ l4 \in 0..(Radix52 - 1)
  BY LimbsOfL, ScalarLimbs52 DEF S5
<1>y. \A k \in 0..8 : z[k] <= 5 * ProductBound52
  OBVIOUS
<1>0. 0 \in Nat /\ 0 <= ProductBound52 /\ \A x \in Nat : x + 0 = x
  BY ProductBounds52
<1>d. \A s \in Nat : s \div B \in Nat /\ s % B \in 0..(Radix52 - 1) /\ s % B \in Nat /\ s = B * (s \div B) + (s % B)
  BY Division52, DigitsAreNumbers52
<1>m. \A x \in Nat, w \in Nat : x * w \in Nat /\ x + w \in Nat
  OBVIOUS
<1>n. n[0] = n0 /\ n[1] = n1 /\ n[2] = n2 /\ n[3] = n3 /\ n[4] = n4
  BY New52Limbs
<1>e. p = MulInternal52(n, L52)
  OBVIOUS
<1>u. n = New52(n0, n1, n2, n3, n4)
  OBVIOUS
<1>w. Wide52(p) = Wide52(MulInternal52(n, L52))
  OBVIOUS
<1>g. l0 = L52[0] /\ l1 = L52[1] /\ l2 = L52[2] /\ l4 = L52[4]
  OBVIOUS
<1>B. B = Radix52
  OBVIOUS
<1> HIDE DEF n, p, B, M, l0, l1, l2, l4
<1>4. s0 \in Nat /\ s0 + ProductBound52 <= Radix52 * (9 * Radix52)
  <2>1. z[0] \in Nat /\ z[0] <= 5 * ProductBound52
    BY <1>z, <1>y
  <2> QED BY <2>1, ProductBounds52, Radix52Assumption
<1>5. /\ n0 \in 0..(Radix52 - 1) /\ n0 \in Nat /\ c0 \in Nat /\ s0 + n0 * l0 = B * c0
      /\ c0 <= 9 * Radix52
  BY <1>4, <1>f
<1> HIDE DEF n0, c0
<1>6. /\ s1 \in Nat /\ s1 = c0 + z[1] + n0*l1 /\ s1 + ProductBound52 <= Radix52 * (9 * Radix52)
      /\ s1 <= Radix52 * (9 * Radix52)
  <2> DEFINE w == c0 + z[1] + n0*l1
  <2>1. /\ c0 \in Nat /\ c0 <= 9 * Radix52 /\ z[1] \in Nat /\ z[1] <= 5 * ProductBound52
    BY <1>5, <1>z, <1>y
  <2>2. n0*l1 \in Nat /\ n0*l1 <= ProductBound52
    BY <1>5, <1>l, <1>i
  <2>3. w \in Nat /\ w = c0 + z[1] + n0*l1 + 0 + 0
    BY <2>1, <2>2, <1>0
  <2>4. s1 = WW52(w)
    OBVIOUS
  <2> HIDE DEF w, s1
  <2>5. WW52(w) = w /\ w + ProductBound52 <= Radix52 * (9 * Radix52) /\ w <= Radix52 * (9 * Radix52)
    BY <2>1, <2>2, <2>3, <1>0, <1>a
  <2> QED BY <2>3, <2>4, <2>5 DEF w
<1> HIDE DEF s1
<1>7. /\ n1 \in 0..(Radix52 - 1) /\ n1 \in Nat /\ c1 \in Nat /\ s1 + n1 * l0 = B * c1
      /\ c1 <= 9 * Radix52
  BY <1>6, <1>f
<1> HIDE DEF n1, c1
<1>8. /\ s2 \in Nat /\ s2 = c1 + z[2] + n0*l2 + n1*l1 /\ s2 + ProductBound52 <= Radix52 * (9 * Radix52)
      /\ s2 <= Radix52 * (9 * Radix52)
  <2> DEFINE w == c1 + z[2] + n0*l2 + n1*l1
  <2>1. /\ c1 \in Nat /\ c1 <= 9 * Radix52 /\ z[2] \in Nat /\ z[2] <= 5 * ProductBound52
    BY <1>5, <1>7, <1>z, <1>y
  <2>2. n0*l2 \in Nat /\ n0*l2 <= ProductBound52 /\ n1*l1 \in Nat /\ n1*l1 <= ProductBound52
    BY <1>5, <1>7, <1>l, <1>i
  <2>3. w \in Nat /\ w = c1 + z[2] + n0*l2 + n1*l1 + 0
    BY <2>1, <2>2, <1>0
  <2>4. s2 = WW52(w)
    OBVIOUS
  <2> HIDE DEF w, s2
  <2>5. WW52(w) = w /\ w + ProductBound52 <= Radix52 * (9 * Radix52) /\ w <= Radix52 * (9 * Radix52)
    BY <2>1, <2>2, <2>3, <1>0, <1>a
  <2> QED BY <2>3, <2>4, <2>5 DEF w
<1> HIDE DEF s2
<1>9. /\ n2 \in 0..(Radix52 - 1) /\ n2 \in Nat /\ c2 \in Nat /\ s2 + n2 * l0 = B * c2
      /\ c2 <= 9 * Radix52
  BY <1>8, <1>f
<1> HIDE DEF n2, c2
<1>10. /\ s3 \in Nat /\ s3 = c2 + z[3] + n1*l2 + n2*l1 /\ s3 + ProductBound52 <= Radix52 * (9 * Radix52)
      /\ s3 <= Radix52 * (9 * Radix52)
  <2> DEFINE w == c2 + z[3] + n1*l2 + n2*l1
  <2>1. /\ c2 \in Nat /\ c2 <= 9 * Radix52 /\ z[3] \in Nat /\ z[3] <= 5 * ProductBound52
    BY <1>5, <1>7, <1>9, <1>z, <1>y
  <2>2. n1*l2 \in Nat /\ n1*l2 <= ProductBound52 /\ n2*l1 \in Nat /\ n2*l1 <= ProductBound52
    BY <1>5, <1>7, <1>9, <1>l, <1>i
  <2>3. w \in Nat /\ w = c2 + z[3] + n1*l2 + n2*l1 + 0
    BY <2>1, <2>2, <1>0
  <2>4. s3 = WW52(w)
    OBVIOUS
  <2> HIDE DEF w, s3
  <2>5. WW52(w) = w /\ w + ProductBound52 <= Radix52 * (9 * Radix52) /\ w <= Radix52 * (9 * Radix52)
    BY <2>1, <2>2, <2>3, <1>0, <1>a
  <2> QED BY <2>3, <2>4, <2>5 DEF w
<1> HIDE DEF s3
<1>11. /\ n3 \in 0..(Radix52 - 1) /\ n3 \in Nat /\ c3 \in Nat /\ s3 + n3 * l0 = B * c3
      /\ c3 <= 9 * Radix52
  BY <1>10, <1>f
<1> HIDE DEF n3, c3
<1>12. /\ s4 \in Nat /\ s4 = c3 + z[4] + n0*l4 + n2*l2 + n3*l1 /\ s4 + ProductBound52 <= Radix52 * (9 * Radix52)
      /\ s4 <= Radix52 * (9 * Radix52)
  <2> DEFINE w == c3 + z[4] + n0*l4 + n2*l2 + n3*l1
  <2>1. /\ c3 \in Nat /\ c3 <= 9 * Radix52 /\ z[4] \in Nat /\ z[4] <= 5 * ProductBound52
    BY <1>5, <1>7, <1>9, <1>11, <1>z, <1>y
  <2>2. n0*l4 \in Nat /\ n0*l4 <= ProductBound52 /\ n2*l2 \in Nat /\ n2*l2 <= ProductBound52 /\ n3*l1 \in Nat /\ n3*l1 <= ProductBound52
    BY <1>5, <1>7, <1>9, <1>11, <1>l, <1>i
  <2>3. w \in Nat /\ w = c3 + z[4] + n0*l4 + n2*l2 + n3*l1
    BY <2>1, <2>2, <1>0
  <2>4. s4 = WW52(w)
    OBVIOUS
  <2> HIDE DEF w, s4
  <2>5. WW52(w) = w /\ w + ProductBound52 <= Radix52 * (9 * Radix52) /\ w <= Radix52 * (9 * Radix52)
    BY <2>1, <2>2, <2>3, <1>0, <1>a
  <2> QED BY <2>3, <2>4, <2>5 DEF w
<1> HIDE DEF s4
<1>13. /\ n4 \in 0..(Radix52 - 1) /\ n4 \in Nat /\ c4 \in Nat /\ s4 + n4 * l0 = B * c4
      /\ c4 <= 9 * Radix52
  BY <1>12, <1>f
<1> HIDE DEF n4, c4
<1>14. /\ s5 \in Nat /\ s5 = c4 + z[5] + n1*l4 + n3*l2 + n4*l1 /\ s5 + ProductBound52 <= Radix52 * (9 * Radix52)
      /\ s5 <= Radix52 * (9 * Radix52)
  <2> DEFINE w == c4 + z[5] + n1*l4 + n3*l2 + n4*l1
  <2>1. /\ c4 \in Nat /\ c4 <= 9 * Radix52 /\ z[5] \in Nat /\ z[5] <= 5 * ProductBound52
    BY <1>7, <1>11, <1>13, <1>z, <1>y
  <2>2. n1*l4 \in Nat /\ n1*l4 <= ProductBound52 /\ n3*l2 \in Nat /\ n3*l2 <= ProductBound52 /\ n4*l1 \in Nat /\ n4*l1 <= ProductBound52
    BY <1>7, <1>11, <1>13, <1>l, <1>i
  <2>3. w \in Nat /\ w = c4 + z[5] + n1*l4 + n3*l2 + n4*l1
    BY <2>1, <2>2, <1>0
  <2>4. s5 = WW52(w)
    OBVIOUS
  <2> HIDE DEF w, s5
  <2>5. WW52(w) = w /\ w + ProductBound52 <= Radix52 * (9 * Radix52) /\ w <= Radix52 * (9 * Radix52)
    BY <2>1, <2>2, <2>3, <1>0, <1>a
  <2> QED BY <2>3, <2>4, <2>5 DEF w
<1> HIDE DEF s5
<1>15. /\ c5 \in Nat /\ r0 \in 0..(Radix52 - 1) /\ r0 \in Nat /\ s5 = B * c5 + r0
       /\ c5 <= 9 * Radix52
  BY <1>14, <1>d, <1>b, <1>B
<1> HIDE DEF c5, r0
<1>16. /\ s6 \in Nat /\ s6 = c5 + z[6] + n2*l4 + n4*l2 /\ s6 + ProductBound52 <= Radix52 * (9 * Radix52)
      /\ s6 <= Radix52 * (9 * Radix52)
  <2> DEFINE w == c5 + z[6] + n2*l4 + n4*l2
  <2>1. /\ c5 \in Nat /\ c5 <= 9 * Radix52 /\ z[6] \in Nat /\ z[6] <= 5 * ProductBound52
    BY <1>9, <1>13, <1>15, <1>z, <1>y
  <2>2. n2*l4 \in Nat /\ n2*l4 <= ProductBound52 /\ n4*l2 \in Nat /\ n4*l2 <= ProductBound52
    BY <1>9, <1>13, <1>15, <1>l, <1>i
  <2>3. w \in Nat /\ w = c5 + z[6] + n2*l4 + n4*l2 + 0
    BY <2>1, <2>2, <1>0
  <2>4. s6 = WW52(w)
    OBVIOUS
  <2> HIDE DEF w, s6
  <2>5. WW52(w) = w /\ w + ProductBound52 <= Radix52 * (9 * Radix52) /\ w <= Radix52 * (9 * Radix52)
    BY <2>1, <2>2, <2>3, <1>0, <1>a
  <2> QED BY <2>3, <2>4, <2>5 DEF w
<1> HIDE DEF s6
<1>17. /\ c6 \in Nat /\ r1 \in 0..(Radix52 - 1) /\ r1 \in Nat /\ s6 = B * c6 + r1
       /\ c6 <= 9 * Radix52
  BY <1>16, <1>d, <1>b, <1>B
<1> HIDE DEF c6, r1
<1>18. /\ s7 \in Nat /\ s7 = c6 + z[7] + n3*l4 /\ s7 + ProductBound52 <= Radix52 * (9 * Radix52)
      /\ s7 <= Radix52 * (9 * Radix52)
  <2> DEFINE w == c6 + z[7] + n3*l4
  <2>1. /\ c6 \in Nat /\ c6 <= 9 * Radix52 /\ z[7] \in Nat /\ z[7] <= 5 * ProductBound52
    BY <1>11, <1>17, <1>z, <1>y
  <2>2. n3*l4 \in Nat /\ n3*l4 <= ProductBound52
    BY <1>11, <1>17, <1>l, <1>i
  <2>3. w \in Nat /\ w = c6 + z[7] + n3*l4 + 0 + 0
    BY <2>1, <2>2, <1>0
  <2>4. s7 = WW52(w)
    OBVIOUS
  <2> HIDE DEF w, s7
  <2>5. WW52(w) = w /\ w + ProductBound52 <= Radix52 * (9 * Radix52) /\ w <= Radix52 * (9 * Radix52)
    BY <2>1, <2>2, <2>3, <1>0, <1>a
  <2> QED BY <2>3, <2>4, <2>5 DEF w
<1> HIDE DEF s7
<1>19. /\ c7 \in Nat /\ r2 \in 0..(Radix52 - 1) /\ r2 \in Nat /\ s7 = B * c7 + r2
       /\ c7 <= 9 * Radix52
  BY <1>18, <1>d, <1>b, <1>B
<1> HIDE DEF c7, r2
<1>20. /\ s8 \in Nat /\ s8 = c7 + z[8] + n4*l4 /\ s8 + ProductBound52 <= Radix52 * (9 * Radix52)
      /\ s8 <= Radix52 * (9 * Radix52)
  <2> DEFINE w == c7 + z[8] + n4*l4
  <2>1. /\ c7 \in Nat /\ c7 <= 9 * Radix52 /\ z[8] \in Nat /\ z[8] <= 5 * ProductBound52
    BY <1>13, <1>19, <1>z, <1>y
  <2>2. n4*l4 \in Nat /\ n4*l4 <= ProductBound52
    BY <1>13, <1>19, <1>l, <1>i
  <2>3. w \in Nat /\ w = c7 + z[8] + n4*l4 + 0 + 0
    BY <2>1, <2>2, <1>0
  <2>4. s8 = WW52(w)
    OBVIOUS
  <2> HIDE DEF w, s8
  <2>5. WW52(w) = w /\ w + ProductBound52 <= Radix52 * (9 * Radix52) /\ w <= Radix52 * (9 * Radix52)
    BY <2>1, <2>2, <2>3, <1>0, <1>a
  <2> QED BY <2>3, <2>4, <2>5 DEF w
<1> HIDE DEF s8
<1>21. c8 \in Nat /\ r3 \in 0..(Radix52 - 1) /\ r3 \in Nat /\ s8 = B * c8 + r3
  BY <1>20, <1>d
<1> HIDE DEF c8, r3
<1>22. n \in Scalars52 /\ n \in [S5 -> Nat]
  <2>1. n \in Scalars52
    BY <1>u, <1>5, <1>7, <1>9, <1>11, <1>13, New52Scalar
  <2> QED BY <2>1, DigitsAreNumbers52 DEF Scalars52
<1>p. /\ p[0] = n[0]*l0 /\ p[1] = n[0]*l1 + n[1]*l0 /\ p[2] = n[0]*l2 + n[1]*l1 + n[2]*l0
      /\ p[3] = n[0]*L52[3] + n[1]*l2 + n[2]*l1 + n[3]*l0
      /\ p[4] = n[0]*l4 + n[1]*L52[3] + n[2]*l2 + n[3]*l1 + n[4]*l0
      /\ p[5] = n[1]*l4 + n[2]*L52[3] + n[3]*l2 + n[4]*l1
      /\ p[6] = n[2]*l4 + n[3]*L52[3] + n[4]*l2
      /\ p[7] = n[3]*l4 + n[4]*L52[3] /\ p[8] = n[4]*l4
  BY <1>e, <1>g, <1>22, LimbsOfL, ProductExact
<1>23. /\ p[0] = n0*l0 /\ p[1] = n0*l1 + n1*l0 /\ p[2] = n0*l2 + n1*l1 + n2*l0
       /\ p[3] = n1*l2 + n2*l1 + n3*l0 /\ p[4] = n0*l4 + n2*l2 + n3*l1 + n4*l0
       /\ p[5] = n1*l4 + n3*l2 + n4*l1 /\ p[6] = n2*l4 + n4*l2 /\ p[7] = n3*l4 /\ p[8] = n4*l4
  <2>1. n0*L52[3] = 0 /\ n1*L52[3] = 0 /\ n2*L52[3] = 0 /\ n3*L52[3] = 0 /\ n4*L52[3] = 0
    BY <1>2, <1>5, <1>7, <1>9, <1>11, <1>13
  <2>2. /\ n0*l4 \in Nat /\ n1*l2 \in Nat /\ n1*l4 \in Nat /\ n2*l4 \in Nat /\ n3*l4 \in Nat
    BY <1>2, <1>5, <1>7, <1>9, <1>11, <1>m
  <2>3. \A x \in Nat : 0 + x = x /\ x + 0 = x
    OBVIOUS
  <2> QED BY <1>n, <1>p, <2>1, <2>2, <2>3
<1>24. /\ n0*l0 \in Nat /\ n0*l1 \in Nat /\ n1*l0 \in Nat /\ n0*l2 \in Nat /\ n1*l1 \in Nat /\ n2*l0 \in Nat
       /\ n1*l2 \in Nat /\ n2*l1 \in Nat /\ n3*l0 \in Nat /\ n0*l4 \in Nat /\ n2*l2 \in Nat /\ n3*l1 \in Nat
       /\ n4*l0 \in Nat /\ n1*l4 \in Nat /\ n3*l2 \in Nat /\ n4*l1 \in Nat /\ n2*l4 \in Nat /\ n4*l2 \in Nat
       /\ n3*l4 \in Nat /\ n4*l4 \in Nat
  BY <1>2, <1>5, <1>7, <1>9, <1>11, <1>13, <1>m
<1>25. p \in [0..8 -> Nat]
  BY <1>e, <1>22, LimbsOfL, ProductExact
<1>26. y \in [0..8 -> Nat] /\ \A k \in 0..8 : y[k] = z[k] + p[k]
  BY <1>25, <1>z
<1> HIDE DEF y
<1>27. Wide52(y) = Wide52(z) + Value52(n) * Order52
  <2>1. Wide52(y) = Wide52(z) + Wide52(p)
    BY <1>25, <1>26, WideOfSum
  <2>2. Wide52(p) = Value52(n) * Value52(L52)
    BY <1>e, <1>22, LimbsOfL, ProductExact
  <2> QED BY <2>1, <2>2, LimbsOfL
<1> DEFINE y0 == y[0]  y1 == y[1]  y2 == y[2]  y3 == y[3]  y4 == y[4]  y5 == y[5]  y6 == y[6]  y7 == y[7]  y8 == y[8]
<1>28. /\ y0 = B * c0 /\ c0 + y1 = B * c1 /\ c1 + y2 = B * c2 /\ c2 + y3 = B * c3 /\ c3 + y4 = B * c4
       /\ c4 + y5 = B * c5 + r0 /\ c5 + y6 = B * c6 + r1 /\ c6 + y7 = B * c7 + r2 /\ c7 + y8 = B * c8 + r3
  <2>1. /\ z[0] \in Nat /\ z[1] \in Nat /\ z[2] \in Nat /\ z[3] \in Nat /\ z[4] \in Nat /\ z[5] \in Nat
        /\ z[6] \in Nat /\ z[7] \in Nat /\ z[8] \in Nat
    BY <1>z
  <2>2. /\ y0 = z[0] + p[0] /\ y1 = z[1] + p[1] /\ y2 = z[2] + p[2] /\ y3 = z[3] + p[3] /\ y4 = z[4] + p[4]
        /\ y5 = z[5] + p[5] /\ y6 = z[6] + p[6] /\ y7 = z[7] + p[7] /\ y8 = z[8] + p[8]
    BY <1>26
  <2> HIDE DEF y0, y1, y2, y3, y4, y5, y6, y7, y8
  <2>3. y0 = s0 + n0 * l0
    BY <2>2, <1>23
  <2>4. c0 + y1 = s1 + n1 * l0
    BY <2>1, <2>2, <1>5, <1>6, <1>23, <1>24
  <2>5. c1 + y2 = s2 + n2 * l0
    BY <2>1, <2>2, <1>7, <1>8, <1>23, <1>24
  <2>6. c2 + y3 = s3 + n3 * l0
    BY <2>1, <2>2, <1>9, <1>10, <1>23, <1>24
  <2>7. c3 + y4 = s4 + n4 * l0
    BY <2>1, <2>2, <1>11, <1>12, <1>23, <1>24
  <2>8. c4 + y5 = s5
    BY <2>1, <2>2, <1>13, <1>14, <1>23, <1>24
  <2>9. c5 + y6 = s6
    BY <2>1, <2>2, <1>15, <1>16, <1>23, <1>24
  <2>10. c6 + y7 = s7
    BY <2>1, <2>2, <1>17, <1>18, <1>23, <1>24
  <2>11. c7 + y8 = s8
    BY <2>1, <2>2, <1>19, <1>20, <1>23, <1>24
  <2> HIDE DEF s0
  <2> QED BY <2>3, <2>4, <2>5, <2>6, <2>7, <2>8, <2>9, <2>10, <2>11,
             <1>5, <1>7, <1>9, <1>11, <1>13, <1>15, <1>17, <1>19, <1>21
<1>29. Wide52(y) = y0 + B * (y1 + B * (y2 + B * (y3 + B * (y4 + B * (y5 + B * (y6 + B * (y7 + B * y8)))))))
  BY DEF Wide52, Upper52, B
<1>30. /\ y0 \in Nat /\ y1 \in Nat /\ y2 \in Nat /\ y3 \in Nat /\ y4 \in Nat /\ y5 \in Nat
       /\ y6 \in Nat /\ y7 \in Nat /\ y8 \in Nat
  BY <1>26
<1> HIDE DEF y0, y1, y2, y3, y4, y5, y6, y7, y8, s0
<1>31. Wide52(y) = M * V
  <2>1. y0 + B * (y1 + B * (y2 + B * (y3 + B * (y4 + B * (y5 + B * (y6 + B * (y7 + B * y8))))))) =
          (B * (B * (B * (B * B)))) * (r0 + B * (r1 + B * (r2 + B * (r3 + B * c8))))
    BY <1>3, <1>5, <1>7, <1>9, <1>11, <1>13, <1>15, <1>17, <1>19, <1>21, <1>28, <1>30, CarriedColumns
  <2> QED BY <2>1, <1>3, <1>29
<1>32. V \in Nat
  BY <1>3, <1>15, <1>17, <1>19, <1>21, <1>m
<1> DEFINE kn == Value52(n)
           wz == Wide52(z)
<1>33. kn \in Nat /\ kn < M /\ M * V = wz + kn * Order52 /\ wz < M * Order52
  BY <1>22, <1>27, <1>31, ValueBelowR52 DEF M
<1>34. wz \in Nat
  <2> DEFINE A4 == z[4] + B * (z[5] + B * (z[6] + B * (z[7] + B * z[8])))
  <2>1. A4 \in Nat
    BY <1>3, <1>z, <1>m
  <2>2. wz = z[0] + B * (z[1] + B * (z[2] + B * (z[3] + B * A4)))
    BY DEF Wide52, Upper52, B
  <2> HIDE DEF A4
  <2> QED BY <2>1, <2>2, <1>3, <1>z, <1>m
<1>c. V = r0 + B * (r1 + B * (r2 + B * (r3 + B * c8)))
  OBVIOUS
<1> HIDE DEF kn, wz, V
<1>35. V < 2 * Order52
  <2>1. kn * Order52 <= M * Order52
    BY <1>3, <1>33
  <2>2. M * V < M * (2 * Order52)
    BY <1>3, <1>33, <1>34, <2>1
  <2> QED BY <2>2, <1>3, <1>32
<1>36. c8 < B
  <2>1. V < M
    BY <1>32, <1>35, <1>3, RadixPowers52 DEF M
  <2>2. B * (B * (B * (B * c8))) <= V
    <3>1. \A r \in Nat, x \in Nat, w \in Nat : w <= x => B * w <= r + B * x /\ B * w \in Nat /\ r + B * x \in Nat
      BY <1>3
    <3>2. c8 <= c8
      BY <1>21
    <3>3. B * c8 <= r3 + B * c8 /\ B * c8 \in Nat /\ r3 + B * c8 \in Nat
      BY <3>1, <1>21
    <3>4. /\ B * (B * c8) <= r2 + B * (r3 + B * c8) /\ B * (B * c8) \in Nat /\ r2 + B * (r3 + B * c8) \in Nat
      BY <3>1, <3>3, <1>19
    <3>5. /\ B * (B * (B * c8)) <= r1 + B * (r2 + B * (r3 + B * c8)) /\ B * (B * (B * c8)) \in Nat
          /\ r1 + B * (r2 + B * (r3 + B * c8)) \in Nat
      BY <3>1, <3>4, <1>17
    <3> QED BY <3>1, <3>5, <1>15, <1>c
  <2>3. \A x \in Nat, w \in Nat : B * x < B * w => x < w
    BY <1>3
  <2>4. B * (B * (B * (B * c8))) < B * (B * (B * (B * B)))
    <3>1. B * (B * (B * (B * c8))) \in Nat
      BY <1>3, <1>21, <1>m
    <3> QED BY <3>1, <2>1, <2>2, <1>3, <1>32
  <2>5. /\ B * c8 \in Nat /\ B * (B * c8) \in Nat /\ B * (B * (B * c8)) \in Nat
        /\ B * B \in Nat /\ B * (B * B) \in Nat /\ B * (B * (B * B)) \in Nat
    BY <1>3, <1>21, <1>m
  <2> QED BY <2>3, <2>4, <2>5, <1>3, <1>21
<1>37. W52(c8) = c8 /\ c8 \in 0..(Radix52 - 1)
  <2>1. c8 \in Nat /\ c8 < Radix52
    BY <1>21, <1>36 DEF B
  <2> QED BY <2>1, NoWrap52, Radix52Assumption
<1> DEFINE v == New52(r0, r1, r2, r3, c8)
<1>38. v \in Scalars52
  BY <1>15, <1>17, <1>19, <1>21, <1>37, New52Scalar
<1>39. Value52(v) = V
  BY <1>c, New52Limbs DEF Value52, B
<1>40. MontgomeryReduce52(z) = Sub52(v, L52)
  BY <1>1, <1>37
<1> HIDE DEF v
<1>41. MontgomeryR52 * Value52(v) = Wide52(z) + kn * Order52 /\ Value52(v) < 2 * Order52
  BY <1>33, <1>35, <1>39 DEF M, wz
<1> QED BY <1>33, <1>38, <1>40, <1>41

-----------------------------------------------------------------------------
(* Residues modulo l                                                       *)

Congruent52(x, y) == \E k \in Int : x = y + k * Order52

\* Two residues that differ by a multiple of l are equal.
LEMMA OneResidue52 ==
  ASSUME NEW v \in Nat, v < Order52, NEW x \in Int, Congruent52(v, x)
  PROVE  v = x % Order52
<1> DEFINE q == Order52
<1>1. q \in Nat /\ q > 0
  BY RadixPowers52, Order52Assumption
<1>2. PICK k \in Int : v = x + k * q
  BY DEF Congruent52
<1>3. v < q
  OBVIOUS
<1> HIDE DEF q
<1>4. x = q * (x \div q) + (x % q) /\ x \div q \in Int /\ x % q \in 0..(q - 1)
  BY <1>1
<1> DEFINE d == x \div q
           r == x % q
<1>5. d \in Int /\ r \in Nat /\ r < q /\ x = q * d + r
  BY <1>4, <1>1
<1> HIDE DEF d, r
<1>6. v - r = q * (d + k)
  BY <1>1, <1>2, <1>5
<1> DEFINE t == d + k
<1>7. t \in Int /\ v - r = q * t
  BY <1>2, <1>5, <1>6
<1> HIDE DEF t
<1>8. t = 0
  <2>1. CASE t >= 1
    <3>1. q * t >= q
      BY <2>1, <1>1, <1>7
    <3> QED BY <3>1, <1>1, <1>3, <1>5, <1>7
  <2>2. CASE t <= -1
    <3>1. q * t <= -q
      BY <2>2, <1>1, <1>7
    <3> QED BY <3>1, <1>1, <1>3, <1>5, <1>7
  <2> QED BY <2>1, <2>2, <1>7
<1>9. v = r
  BY <1>1, <1>5, <1>7, <1>8
<1> QED BY <1>9 DEF r, q

\* A number and its residue are congruent.
LEMMA ResidueCongruent52 ==
  ASSUME NEW x \in Int
  PROVE  Congruent52(x % Order52, x) /\ x % Order52 \in 0..(Order52 - 1)
<1>1. Order52 \in Nat /\ Order52 > 0
  BY RadixPowers52, Order52Assumption
<1>2. x = Order52 * (x \div Order52) + (x % Order52) /\ x \div Order52 \in Int /\ x % Order52 \in 0..(Order52 - 1)
  BY <1>1
<1>3. -(x \div Order52) \in Int /\ x % Order52 = x + (-(x \div Order52)) * Order52
  BY <1>1, <1>2
<1> QED BY <1>2, <1>3 DEF Congruent52

\* Congruence is an equivalence, and respects products and sums.
LEMMA CongruenceLaws52 ==
  ASSUME NEW x \in Int, NEW y \in Int, NEW z \in Int
  PROVE  /\ Congruent52(x, x)
         /\ Congruent52(x, y) => Congruent52(y, x)
         /\ Congruent52(x, y) => Congruent52(z * x, z * y) /\ Congruent52(x + z, y + z) /\ Congruent52(z + x, z + y)
         /\ Congruent52(x, y) /\ Congruent52(y, z) => Congruent52(x, z)
<1>1. Order52 \in Nat
  BY RadixPowers52
<1>2. Congruent52(x, x)
  <2>1. x = x + 0 * Order52
    BY <1>1
  <2> QED BY <2>1 DEF Congruent52
<1>3. ASSUME Congruent52(x, y)
      PROVE  Congruent52(y, x) /\ Congruent52(z * x, z * y) /\ Congruent52(x + z, y + z) /\ Congruent52(z + x, z + y)
  <2>1. PICK k \in Int : x = y + k * Order52
    BY <1>3 DEF Congruent52
  <2>2. -k \in Int /\ y = x + (-k) * Order52
    BY <2>1, <1>1
  <2>3. z * k \in Int /\ z * x = z * y + (z * k) * Order52
    BY <2>1, <1>1
  <2>4. x + z = (y + z) + k * Order52 /\ z + x = (z + y) + k * Order52
    BY <2>1, <1>1
  <2> QED BY <2>1, <2>2, <2>3, <2>4 DEF Congruent52
<1>4. ASSUME Congruent52(x, y), Congruent52(y, z)
      PROVE  Congruent52(x, z)
  <2>1. PICK k \in Int : x = y + k * Order52
    BY <1>4 DEF Congruent52
  <2>2. PICK j \in Int : y = z + j * Order52
    BY <1>4 DEF Congruent52
  <2>3. k + j \in Int /\ x = z + (k + j) * Order52
    BY <2>1, <2>2, <1>1
  <2> QED BY <2>3 DEF Congruent52
<1> QED BY <1>2, <1>3, <1>4

\* One case of the laws each, in the form the Montgomery products use them.
LEMMA CongruentTimes52 ==
  ASSUME NEW c \in Int, NEW x \in Int, NEW y \in Int, Congruent52(x, y)
  PROVE  Congruent52(c * x, c * y)
<1>1. \A u \in Int, v \in Int, w \in Int : Congruent52(u, v) => Congruent52(w * u, w * v)
  BY CongruenceLaws52
<1> QED BY <1>1

\* Adding the same number keeps a congruence modulo the group order.
LEMMA CongruentPlus52 ==
  ASSUME NEW c \in Int, NEW x \in Int, NEW y \in Int, Congruent52(x, y)
  PROVE  Congruent52(c + x, c + y)
<1>1. \A u \in Int, v \in Int, w \in Int : Congruent52(u, v) => Congruent52(w + u, w + v)
  BY CongruenceLaws52
<1> QED BY <1>1

\* The radix, and so R, can be cancelled modulo l: l has an inverse modulo the radix.
LEMMA CancelRadix52 ==
  ASSUME NEW x \in Int, NEW y \in Int, Congruent52(Radix52 * x, Radix52 * y)
  PROVE  Congruent52(x, y)
<1> DEFINE B == Radix52
           g == LFACTOR52
           l0 == L52[0]
           u == L52[1] + B * (L52[2] + B * (L52[3] + B * L52[4]))
           l == Order52
<1>1. l0 \in Nat /\ g \in Nat /\ B \in Nat /\ 1 < B /\ (g * l0) % B = B - 1 /\ u \in Nat /\ l \in Nat
  <2>1. L52[0] \in Nat /\ L52[1] \in Nat /\ L52[2] \in Nat /\ L52[3] \in Nat /\ L52[4] \in Nat
    BY LimbsOfL, ScalarLimbs52 DEF S5
  <2> QED BY <2>1, LFactor52, Radix52Assumption
<1>2. l = l0 + B * u
  BY LimbsOfL DEF Value52
<1>3. PICK k \in Int : B * x = B * y + k * l
  BY DEF Congruent52
<1> HIDE DEF B, g, l0, u, l
<1>4. PICK h \in Nat : g * l0 + 1 = B * h
  <2>1. g * l0 \in Nat
    BY <1>1
  <2> DEFINE e == (g * l0) \div B
  <2>2. e \in Nat /\ g * l0 = B * e + (B - 1)
    BY <2>1, <1>1, Division52 DEF B
  <2> HIDE DEF e
  <2>3. g * l0 + 1 = B * (e + 1)
    BY <2>2, <1>1
  <2> QED BY <2>2, <2>3
<1> DEFINE w == h + g * u
\* l g + 1 is a multiple of the radix
<1>5. w \in Int /\ g * l + 1 = B * w
  <2>1. g * l = g * l0 + B * (g * u)
    BY <1>1, <1>2
  <2>2. B * w = B * h + B * (g * u)
    BY <1>1, <1>4
  <2> QED BY <2>1, <2>2, <1>1, <1>4
<1> HIDE DEF w
<1> DEFINE d == x - y
<1>6. d \in Int /\ B * d = k * l
  BY <1>1, <1>3
<1> HIDE DEF d
<1>7. d = (w * k - g * d) * l
  <2>1. (g * l + 1) * d = w * (B * d)
    BY <1>1, <1>5, <1>6
  <2>2. w * (B * d) = (w * k) * l
    BY <1>1, <1>3, <1>5, <1>6
  <2>3. (g * l + 1) * d = (g * d) * l + d
    BY <1>1, <1>6
  <2>4. (w * k - g * d) * l = (w * k) * l - (g * d) * l
    BY <1>1, <1>3, <1>5, <1>6
  <2>5. (w * k) * l \in Int /\ (g * d) * l \in Int
    BY <1>1, <1>3, <1>5, <1>6
  <2> QED BY <2>1, <2>2, <2>3, <2>4, <2>5, <1>6
<1> DEFINE t == w * k - g * d
<1>8. t \in Int
  BY <1>1, <1>3, <1>5, <1>6
<1>9. x = y + d
  BY DEF d
<1> HIDE DEF t
<1>10. x = y + t * Order52
  BY <1>7, <1>9 DEF t, l
<1> QED BY <1>8, <1>10 DEF Congruent52

\* R has an inverse modulo l.
LEMMA CancelMontgomery52 ==
  ASSUME NEW x \in Int, NEW y \in Int, Congruent52(MontgomeryR52 * x, MontgomeryR52 * y)
  PROVE  Congruent52(x, y)
<1> DEFINE B == Radix52
<1>1. B \in Nat
  BY Radix52Assumption
<1>2. /\ MontgomeryR52 * x = B * (B * (B * (B * (B * x))))
      /\ MontgomeryR52 * y = B * (B * (B * (B * (B * y))))
  BY <1>1 DEF MontgomeryR52
<1>3. \A v \in Int, w \in Int : Congruent52(B * v, B * w) => Congruent52(v, w)
  BY CancelRadix52
<1> HIDE DEF B
<1>4. /\ B * x \in Int /\ B * (B * x) \in Int /\ B * (B * (B * x)) \in Int /\ B * (B * (B * (B * x))) \in Int
      /\ B * y \in Int /\ B * (B * y) \in Int /\ B * (B * (B * y)) \in Int /\ B * (B * (B * (B * y))) \in Int
  BY <1>1
<1>5. Congruent52(B * (B * (B * (B * (B * x)))), B * (B * (B * (B * (B * y)))))
  BY <1>2
<1>6. Congruent52(B * (B * (B * (B * x))), B * (B * (B * (B * y))))
  BY <1>3, <1>4, <1>5
<1>7. Congruent52(B * (B * (B * x)), B * (B * (B * y)))
  BY <1>3, <1>4, <1>6
<1>8. Congruent52(B * (B * x), B * (B * y))
  BY <1>3, <1>4, <1>7
<1>9. Congruent52(B * x, B * y)
  BY <1>3, <1>4, <1>8
<1> QED BY <1>3, <1>9

\* The constants R and RR are the residues of R and of its square.
LEMMA TimesR52Exact ==
  ASSUME NEW x \in Nat
  PROVE  TimesR52(x) \in Nat /\ TimesR52(x) < Order52 /\ Congruent52(TimesR52(x), MontgomeryR52 * x)
<1> DEFINE B == Radix52
<1>1. B \in Nat /\ Order52 \in Nat
  BY RadixPowers52
<1>2. \A v \in Nat : ShiftMod52(v) \in Nat /\ ShiftMod52(v) < Order52 /\ Congruent52(ShiftMod52(v), B * v)
  <2> TAKE v \in Nat
  <2>1. v * B = B * v /\ v * B \in Int
    BY <1>1
  <2>2. ShiftMod52(v) = (v * B) % Order52
    BY DEF ShiftMod52
  <2>3. Congruent52(ShiftMod52(v), v * B) /\ ShiftMod52(v) \in 0..(Order52 - 1)
    BY <2>1, <2>2, ResidueCongruent52
  <2>4. \A n \in 0..(Order52 - 1) : n \in Nat /\ n < Order52
    BY <1>1
  <2> QED BY <2>1, <2>3, <2>4
<1> HIDE DEF B
<1>3. ASSUME NEW v \in Nat, NEW w \in Nat, Congruent52(v, w)
      PROVE  /\ ShiftMod52(v) \in Nat /\ ShiftMod52(v) < Order52 /\ Congruent52(ShiftMod52(v), B * w)
             /\ B * w \in Nat
  <2>1. ShiftMod52(v) \in Nat /\ ShiftMod52(v) < Order52 /\ Congruent52(ShiftMod52(v), B * v)
    BY <1>2
  <2>2. ShiftMod52(v) \in Int /\ B * v \in Int /\ B * w \in Int /\ B * w \in Nat /\ B \in Int /\ v \in Int /\ w \in Int
    BY <1>1, <2>1
  <2>3. Congruent52(B * v, B * w)
    BY <1>3, <2>2, CongruenceLaws52
  <2>4. Congruent52(ShiftMod52(v), B * w)
    BY <2>1, <2>2, <2>3, CongruenceLaws52
  <2> QED BY <2>1, <2>2, <2>4
<1> DEFINE s1 == ShiftMod52(x)   s2 == ShiftMod52(s1)   s3 == ShiftMod52(s2)   s4 == ShiftMod52(s3)
           s5 == ShiftMod52(s4)
<1>4. s1 \in Nat /\ Congruent52(s1, B * x) /\ B * x \in Nat
  <2>1. Congruent52(x, x)
    BY CongruenceLaws52
  <2> QED BY <2>1, <1>3
<1> HIDE DEF s1
<1>5. s2 \in Nat /\ Congruent52(s2, B * (B * x)) /\ B * (B * x) \in Nat
  BY <1>3, <1>4
<1> HIDE DEF s2
<1>6. s3 \in Nat /\ Congruent52(s3, B * (B * (B * x))) /\ B * (B * (B * x)) \in Nat
  BY <1>3, <1>5
<1> HIDE DEF s3
<1>7. s4 \in Nat /\ Congruent52(s4, B * (B * (B * (B * x)))) /\ B * (B * (B * (B * x))) \in Nat
  BY <1>3, <1>6
<1> HIDE DEF s4
<1>8. s5 \in Nat /\ s5 < Order52 /\ Congruent52(s5, B * (B * (B * (B * (B * x)))))
  BY <1>3, <1>7
<1>9. TimesR52(x) = s5
  BY DEF TimesR52, s1, s2, s3, s4, s5
<1>10. MontgomeryR52 * x = B * (B * (B * (B * (B * x))))
  BY <1>1 DEF MontgomeryR52, B
<1> QED BY <1>8, <1>9, <1>10

\* The constants R and RR are canonical, and congruent to R and R^2.
LEMMA MontgomeryConstants52 ==
  /\ R52 \in Scalars52 /\ Value52(R52) < Order52 /\ Congruent52(Value52(R52), MontgomeryR52)
  /\ RR52 \in Scalars52 /\ Value52(RR52) < Order52 /\ Congruent52(Value52(RR52), MontgomeryR52 * MontgomeryR52)
<1> DEFINE r == TimesR52(1)
           rr == TimesR52(TimesR52(1))
           M == MontgomeryR52
<1>1. M \in Nat /\ Order52 \in Nat /\ Order52 <= M
  BY RadixPowers52
<1>2. r \in Nat /\ r < Order52 /\ Congruent52(r, M)
  <2>1. r \in Nat /\ r < Order52 /\ Congruent52(r, M * 1)
    BY TimesR52Exact
  <2>2. M * 1 = M
    BY <1>1
  <2> QED BY <2>1, <2>2
<1>3. R52 \in Scalars52 /\ Value52(R52) = r
  <2>1. r < M
    BY <1>1, <1>2
  <2> QED BY <1>2, <2>1, Limbs52Exact DEF R52
<1>4. rr \in Nat /\ rr < Order52 /\ Congruent52(rr, M * r)
  BY <1>2, TimesR52Exact
<1>5. RR52 \in Scalars52 /\ Value52(RR52) = rr
  <2>1. rr < M
    BY <1>1, <1>4
  <2> QED BY <1>4, <2>1, Limbs52Exact DEF RR52
<1> HIDE DEF r, rr, M
<1>6. M * r \in Int /\ M * M \in Int /\ rr \in Int /\ r \in Int /\ M \in Int
  BY <1>1, <1>2, <1>4
<1>7. Congruent52(rr, M * M)
  <2>1. Congruent52(M * r, M * M)
    BY <1>2, <1>6, CongruenceLaws52
  <2> QED BY <2>1, <1>4, <1>6, CongruenceLaws52
<1> QED BY <1>2, <1>3, <1>4, <1>5, <1>7 DEF M

-----------------------------------------------------------------------------
(* The operations of the scalar backend                                    *)

\* montgomery_reduce, for any columns of products below R * l: no 128-bit sum overflows, one
\* subtraction of l suffices, and R times the result is the number it was given, modulo l.
THEOREM MontgomeryReduceExact ==
  ASSUME NEW z \in [0..8 -> Nat], \A k \in 0..8 : z[k] <= 5 * ProductBound52,
         Wide52(z) < MontgomeryR52 * Order52
  PROVE  LET r == MontgomeryReduce52(z)
         IN  /\ r \in Scalars52 /\ Value52(r) < Order52
             /\ Congruent52(MontgomeryR52 * Value52(r), Wide52(z))
<1> DEFINE r == MontgomeryReduce52(z)
           M == MontgomeryR52
<1>1. PICK v \in Scalars52, k \in Nat :
        /\ r = Sub52(v, L52)
        /\ M * Value52(v) = Wide52(z) + k * Order52
        /\ Value52(v) < 2 * Order52
  BY ReductionWorks
<1>2. L52 \in Scalars52 /\ Value52(L52) = Order52
  BY LimbsOfL
<1>3. Value52(v) \in Nat /\ M \in Nat /\ Order52 \in Nat /\ Order52 > 0
  BY ValueBelowR52, RadixPowers52, Order52Assumption
<1>4. Value52(L52) <= Value52(v) + Order52
  BY <1>2, <1>3
<1>5. /\ r \in Scalars52
      /\ Value52(r) = IF Order52 <= Value52(v) THEN Value52(v) - Order52 ELSE Value52(v) - Order52 + Order52
  BY <1>1, <1>2, <1>4, SubWorks
<1> DEFINE x == Value52(v)
           y == Value52(r)
           w == Wide52(z)
<1>6. /\ x \in Nat /\ x < 2 * Order52 /\ M * x = w + k * Order52
      /\ y = IF Order52 <= x THEN x - Order52 ELSE x - Order52 + Order52
  BY <1>1, <1>3, <1>5
<1>w. w = M * x - k * Order52
  <2>1. w \in Int
    <3>1. \A i \in 0..8 : z[i] \in Nat
      OBVIOUS
    <3>2. \A a \in Nat, b \in Nat : a + Radix52 * b \in Nat
      BY Radix52Assumption
    <3>3. /\ z[0] \in Nat /\ z[1] \in Nat /\ z[2] \in Nat /\ z[3] \in Nat /\ z[4] \in Nat /\ z[5] \in Nat
          /\ z[6] \in Nat /\ z[7] \in Nat /\ z[8] \in Nat
      BY <3>1
    <3>4. z[7] + Radix52 * z[8] \in Nat
      BY <3>2, <3>3
    <3>5. Upper52(z) \in Nat
      BY <3>2, <3>3, <3>4 DEF Upper52
    <3>6. z[4] + Radix52 * Upper52(z) \in Nat
      BY <3>2, <3>3, <3>5
    <3>7. z[3] + Radix52 * (z[4] + Radix52 * Upper52(z)) \in Nat
      BY <3>2, <3>3, <3>6
    <3>8. z[2] + Radix52 * (z[3] + Radix52 * (z[4] + Radix52 * Upper52(z))) \in Nat
      BY <3>2, <3>3, <3>7
    <3>9. z[1] + Radix52 * (z[2] + Radix52 * (z[3] + Radix52 * (z[4] + Radix52 * Upper52(z)))) \in Nat
      BY <3>2, <3>3, <3>8
    <3>10. w \in Nat
      BY <3>2, <3>3, <3>9 DEF Wide52
    <3> QED BY <3>10
  <2> HIDE DEF w, x, M
  <2> QED BY <2>1, <1>1, <1>3, <1>6
<1> HIDE DEF x, y, w, M, r
<1>7. CASE Order52 <= x
  <2>1. y = x - Order52 /\ y \in Nat /\ y < Order52
    BY <1>3, <1>6, <1>7
  <2>2. M * y = w + (k - M) * Order52 /\ k - M \in Int
    <3>1. M * y = M * x - M * Order52
      BY <1>3, <1>6, <2>1
    <3> QED BY <3>1, <1>3, <1>6, <1>w
  <2>3. Congruent52(M * y, w)
    BY <2>2 DEF Congruent52
  <2> QED BY <2>1, <2>3, <1>5 DEF y, r, M, w
<1>8. CASE ~ (Order52 <= x)
  <2>1. y = x /\ y \in Nat /\ y < Order52
    BY <1>3, <1>6, <1>8
  <2>2. M * y = w + k * Order52 /\ k \in Int
    BY <2>1, <1>6
  <2>3. Congruent52(M * y, w)
    BY <2>2 DEF Congruent52
  <2> QED BY <2>1, <2>3, <1>5 DEF y, r, M, w
<1> QED BY <1>7, <1>8

\* The product of two scalars with R divided off: canonical, whenever the product is below R * l.
LEMMA MontgomeryMulWorks ==
  ASSUME NEW a \in Scalars52, NEW b \in Scalars52, Value52(a) * Value52(b) < MontgomeryR52 * Order52
  PROVE  LET r == MontgomeryMul52(a, b)
         IN  /\ r \in Scalars52 /\ Value52(r) \in Nat /\ Value52(r) < Order52
             /\ Congruent52(MontgomeryR52 * Value52(r), Value52(a) * Value52(b))
<1> DEFINE z == MulInternal52(a, b)
           r == MontgomeryMul52(a, b)
<1>1. /\ z \in [0..8 -> Nat] /\ \A k \in 0..8 : z[k] <= 5 * ProductBound52
      /\ Wide52(z) = Value52(a) * Value52(b)
  BY ProductExact
<1>2. r = MontgomeryReduce52(z)
  BY DEF MontgomeryMul52
<1> HIDE DEF z, r
<1>3. /\ MontgomeryReduce52(z) \in Scalars52 /\ Value52(MontgomeryReduce52(z)) < Order52
      /\ Congruent52(MontgomeryR52 * Value52(MontgomeryReduce52(z)), Wide52(z))
  BY <1>1, MontgomeryReduceExact
<1>4. /\ r \in Scalars52 /\ Value52(r) < Order52
      /\ Congruent52(MontgomeryR52 * Value52(r), Value52(a) * Value52(b))
  BY <1>1, <1>2, <1>3
<1>5. Value52(r) \in Nat
  BY <1>4, ValueBelowR52
<1> QED BY <1>4, <1>5 DEF r

\* With a factor that stands for R times x, R is gone: the result stands for x times the other.
LEMMA MontgomeryMulBy ==
  ASSUME NEW a \in Scalars52, NEW b \in Scalars52, Value52(b) < Order52, NEW x \in Nat,
         Congruent52(Value52(b), MontgomeryR52 * x)
  PROVE  LET r == MontgomeryMul52(a, b)
         IN  /\ r \in Scalars52 /\ Value52(r) \in Nat /\ Value52(r) < Order52
             /\ Congruent52(Value52(r), Value52(a) * x)
<1> DEFINE r == MontgomeryMul52(a, b)
           va == Value52(a)
           vb == Value52(b)
           vr == Value52(r)
           M == MontgomeryR52
           l == Order52
<1>1. va \in Nat /\ va < M /\ vb \in Nat /\ vb < l /\ M \in Nat /\ l \in Nat /\ l > 0
  BY ValueBelowR52, RadixPowers52, Order52Assumption
<1>2. va * vb < M * l
  <2> HIDE DEF va, vb, M, l
  <2>1. va * vb <= va * l
    BY <1>1
  <2>2. (va + 1) * l <= M * l
    BY <1>1
  <2>3. va * vb \in Nat /\ va * l \in Nat /\ M * l \in Nat /\ (va + 1) * l = va * l + l
    BY <1>1
  <2> QED BY <2>1, <2>2, <2>3, <1>1
<1>3. r \in Scalars52 /\ vr \in Nat /\ vr < l /\ Congruent52(M * vr, va * vb)
  BY <1>2, MontgomeryMulWorks
<1>4. Congruent52(vb, M * x)
  OBVIOUS
<1>c. \A p \in Int, q \in Int : Congruent52(M * p, M * q) => Congruent52(p, q)
  BY CancelMontgomery52
<1> HIDE DEF r, va, vb, vr, M, l
<1>5. va \in Int /\ vb \in Int /\ M * x \in Int /\ va * vb \in Int /\ va * (M * x) \in Int /\ M * vr \in Int
      /\ va * x \in Int /\ vr \in Int
  BY <1>1, <1>3
<1>6. Congruent52(va * vb, va * (M * x))
  <2> DEFINE y == M * x
  <2>1. y \in Int /\ Congruent52(vb, y)
    BY <1>4, <1>5
  <2> HIDE DEF y
  <2>2. Congruent52(va * vb, va * y)
    BY <2>1, <1>5, CongruentTimes52
  <2> QED BY <2>2 DEF y
<1>7. Congruent52(M * vr, va * (M * x))
  BY <1>3, <1>5, <1>6, CongruenceLaws52
<1>8. va * (M * x) = M * (va * x)
  BY <1>1
<1>9. Congruent52(vr, va * x)
  BY <1>5, <1>7, <1>8, <1>c
<1> QED BY <1>3, <1>9 DEF r, va, vr, l

\* sub, on canonical scalars (the subtrahend may be l itself): the difference modulo l.
THEOREM ScalarSubExact ==
  ASSUME NEW a \in Scalars52, NEW b \in Scalars52, Value52(a) < Order52, Value52(b) <= Order52
  PROVE  /\ Sub52(a, b) \in Scalars52
         /\ Value52(Sub52(a, b)) = (Value52(a) - Value52(b)) % Order52
<1> DEFINE va == Value52(a)
           vb == Value52(b)
           v == Value52(Sub52(a, b))
<1>1. va \in Nat /\ vb \in Nat /\ va < Order52 /\ vb <= Order52 /\ Order52 \in Nat
  BY ValueBelowR52, RadixPowers52
<1>2. vb <= va + Order52
  BY <1>1
<1>3. Sub52(a, b) \in Scalars52 /\ v = IF vb <= va THEN va - vb ELSE va - vb + Order52
  BY <1>2, SubWorks
<1> HIDE DEF va, vb, v
<1>4. v \in Nat /\ v < Order52 /\ Congruent52(v, va - vb)
  <2>1. CASE vb <= va
    <3>1. v = va - vb /\ va - vb \in Int /\ v \in Nat /\ v < Order52
      BY <1>1, <1>3, <2>1
    <3> QED BY <3>1, CongruenceLaws52
  <2>2. CASE ~ (vb <= va)
    <3>1. v = (va - vb) + 1 * Order52 /\ v \in Nat /\ v < Order52
      BY <1>1, <1>3, <2>2
    <3> QED BY <3>1 DEF Congruent52
  <2> QED BY <2>1, <2>2
<1>5. va - vb \in Int
  BY <1>1
<1>6. v = (va - vb) % Order52
  BY <1>4, <1>5, OneResidue52
<1> QED BY <1>3, <1>6 DEF v, va, vb

\* add, on scalars whose sum is below twice l: the sum modulo l.
THEOREM ScalarAddExact ==
  ASSUME NEW a \in Scalars52, NEW b \in Scalars52, Value52(a) + Value52(b) < 2 * Order52
  PROVE  /\ Add52(a, b) \in Scalars52
         /\ Value52(Add52(a, b)) = (Value52(a) + Value52(b)) % Order52
<1> DEFINE va == Value52(a)
           vb == Value52(b)
           s == va + vb
           v == Value52(Add52(a, b))
<1>1. s \in Nat /\ s < 2 * Order52 /\ Order52 \in Nat /\ s < MontgomeryR52
  BY ValueBelowR52, RadixPowers52
<1>2. Add52(a, b) \in Scalars52 /\ v = IF Order52 <= s THEN s - Order52 ELSE s
  <2>1. Value52(a) + Value52(b) < MontgomeryR52
    BY <1>1
  <2>2. /\ Add52(a, b) \in Scalars52
        /\ Value52(Add52(a, b)) = IF Order52 <= Value52(a) + Value52(b) THEN Value52(a) + Value52(b) - Order52
                                                                        ELSE Value52(a) + Value52(b)
    BY <2>1, AddWorks
  <2>3. s = Value52(a) + Value52(b) /\ v = Value52(Add52(a, b))
    OBVIOUS
  <2>6. Value52(a) \in Nat /\ Value52(b) \in Nat /\ Order52 \in Nat /\ s \in Nat
    BY <1>1, ValueBelowR52
  <2> HIDE DEF va, vb, s, v
  <2>4. CASE Order52 <= s
    BY <2>2, <2>3, <2>4, <2>6
  <2>5. CASE ~ (Order52 <= s)
    BY <2>2, <2>3, <2>5, <2>6
  <2> QED BY <2>4, <2>5
<1> HIDE DEF s, v
<1>3. v \in Nat /\ v < Order52 /\ Congruent52(v, s)
  <2>1. CASE Order52 <= s
    <3>1. v = s + (-1) * Order52 /\ v \in Nat /\ v < Order52
      BY <1>1, <1>2, <2>1
    <3> QED BY <3>1 DEF Congruent52
  <2>2. CASE ~ (Order52 <= s)
    <3>1. v = s /\ s \in Int /\ v \in Nat /\ v < Order52
      BY <1>1, <1>2, <2>2
    <3> QED BY <3>1, CongruenceLaws52
  <2> QED BY <2>1, <2>2
<1>4. v = s % Order52
  BY <1>1, <1>3, OneResidue52
<1> QED BY <1>2, <1>4 DEF v, s

\* mul, on scalars whose product is below R * l, as any two 256-bit strings are: two Montgomery
\* products, the second with R^2 mod l, give the canonical product modulo l.
THEOREM ScalarMulExact ==
  ASSUME NEW a \in Scalars52, NEW b \in Scalars52, Value52(a) * Value52(b) < MontgomeryR52 * Order52
  PROVE  /\ Mul52(a, b) \in Scalars52
         /\ Value52(Mul52(a, b)) = (Value52(a) * Value52(b)) % Order52
<1> DEFINE t == MontgomeryMul52(a, b)
           r == MontgomeryMul52(t, RR52)
           vt == Value52(t)
           vr == Value52(r)
           p == Value52(a) * Value52(b)
           M == MontgomeryR52
<1>1. t \in Scalars52 /\ vt \in Nat /\ Congruent52(M * vt, p)
  BY MontgomeryMulWorks
<1>2. M \in Nat /\ p \in Nat
  BY RadixPowers52, ValueBelowR52
<1>3. RR52 \in Scalars52 /\ Value52(RR52) < Order52 /\ Congruent52(Value52(RR52), M * M)
  BY MontgomeryConstants52
<1> HIDE DEF t, p
<1>4. r \in Scalars52 /\ vr \in Nat /\ vr < Order52 /\ Congruent52(vr, vt * M)
  BY <1>1, <1>2, <1>3, MontgomeryMulBy
<1>5. Mul52(a, b) = r
  BY DEF Mul52, t
<1> HIDE DEF r, vr, vt, M
<1>6. vt * M = M * vt /\ vt * M \in Int /\ vr \in Int /\ p \in Int
  BY <1>1, <1>2, <1>4
<1>7. Congruent52(vr, p)
  BY <1>1, <1>4, <1>6, CongruenceLaws52
<1>8. vr = p % Order52
  BY <1>4, <1>6, <1>7, OneResidue52
<1> QED BY <1>4, <1>5, <1>8 DEF vr, p

\* square computes what mul does with equal operands.
THEOREM ScalarSquareExact ==
  ASSUME NEW a \in Scalars52, Value52(a) * Value52(a) < MontgomeryR52 * Order52
  PROVE  /\ Square52(a) \in Scalars52
         /\ Value52(Square52(a)) = (Value52(a) * Value52(a)) % Order52
<1>1. MontgomerySquare52(a) = MontgomeryMul52(a, a)
  BY SquareInternalExact DEF MontgomerySquare52, MontgomeryMul52
<1>2. Square52(a) = Mul52(a, a)
  BY <1>1 DEF Square52, Mul52
<1> QED BY <1>2, ScalarMulExact

\* to_montgomery multiplies any scalar by R modulo l, and from_montgomery takes R off again.
THEOREM MontgomeryFormExact ==
  ASSUME NEW a \in Scalars52
  PROVE  /\ ToMontgomery52(a) \in Scalars52
         /\ Value52(ToMontgomery52(a)) = (MontgomeryR52 * Value52(a)) % Order52
         /\ FromMontgomery52(ToMontgomery52(a)) \in Scalars52
         /\ Value52(FromMontgomery52(ToMontgomery52(a))) = Value52(a) % Order52
<1> DEFINE M == MontgomeryR52
           va == Value52(a)
           t == ToMontgomery52(a)
           vt == Value52(t)
           z == [k \in 0..8 |-> IF k < 5 THEN t[k] ELSE 0]
           r == FromMontgomery52(t)
           vr == Value52(r)
<1>1. M \in Nat /\ va \in Nat /\ Order52 \in Nat /\ Order52 > 0
  BY RadixPowers52, ValueBelowR52, Order52Assumption
<1>2. RR52 \in Scalars52 /\ Value52(RR52) < Order52 /\ Congruent52(Value52(RR52), M * M)
  BY MontgomeryConstants52
<1>3. t \in Scalars52 /\ vt \in Nat /\ vt < Order52 /\ Congruent52(vt, va * M)
  BY <1>1, <1>2, MontgomeryMulBy DEF ToMontgomery52
<1>r. r = MontgomeryReduce52(z)
  BY DEF FromMontgomery52
<1> HIDE DEF t, r
<1>4. z \in [0..8 -> Nat] /\ \A k \in 0..8 : z[k] <= 5 * ProductBound52
  <2>1. \A k \in 0..4 : t[k] \in Nat /\ t[k] <= Radix52 - 1
    BY <1>3, ScalarLimbs52, Radix52Assumption DEF S5
  <2>2. \A k \in 0..8 : k < 5 => k \in 0..4
    OBVIOUS
  <2>3. \A n \in Nat : n <= Radix52 - 1 => n <= 5 * ProductBound52
    BY ProductBounds52, Radix52Assumption
  <2>4. 0 <= 5 * ProductBound52 /\ 0 \in Nat
    BY ProductBounds52
  <2>5. \A k \in 0..8 : z[k] \in Nat /\ z[k] <= 5 * ProductBound52
    BY <2>1, <2>2, <2>3, <2>4
  <2> QED BY <2>5
<1>5. Wide52(z) = vt
  <2>1. z[0] = t[0] /\ z[1] = t[1] /\ z[2] = t[2] /\ z[3] = t[3] /\ z[4] = t[4]
        /\ z[5] = 0 /\ z[6] = 0 /\ z[7] = 0 /\ z[8] = 0
    OBVIOUS
  <2> HIDE DEF z
  <2>2. Upper52(z) = 0
    BY <2>1, Radix52Assumption DEF Upper52
  <2>3. t[4] \in Nat
    BY <1>3, ScalarLimbs52 DEF S5
  <2>4. t[4] + Radix52 * 0 = t[4]
    BY <2>3, Radix52Assumption
  <2> QED BY <2>1, <2>2, <2>4 DEF Wide52, Value52
<1>6. vt < M * Order52
  <2> HIDE DEF M, vt
  <2>1. M >= 1 /\ Order52 <= M * Order52
    <3>1. 2 * Order52 <= M
      BY RadixPowers52 DEF M
    <3> QED BY <3>1, <1>1
  <2> QED BY <2>1, <1>1, <1>3
<1> HIDE DEF z
<1>7. r \in Scalars52 /\ vr < Order52 /\ Congruent52(M * vr, vt)
  <2>1. /\ MontgomeryReduce52(z) \in Scalars52 /\ Value52(MontgomeryReduce52(z)) < Order52
        /\ Congruent52(MontgomeryR52 * Value52(MontgomeryReduce52(z)), Wide52(z))
    BY <1>4, <1>5, <1>6, MontgomeryReduceExact
  <2> QED BY <2>1, <1>r, <1>5
<1>8. vr \in Nat
  BY <1>7, ValueBelowR52
<1>c. \A p \in Int, q \in Int : Congruent52(M * p, M * q) => Congruent52(p, q)
  BY CancelMontgomery52
<1> HIDE DEF M, va, vt, vr
<1>9. va * M = M * va /\ M * va \in Int /\ M * vr \in Int /\ vt \in Int /\ va \in Int /\ vr \in Int
  BY <1>1, <1>3, <1>8
<1>10. vt = (M * va) % Order52
  BY <1>3, <1>9, OneResidue52
<1>11. Congruent52(M * vr, M * va)
  BY <1>3, <1>7, <1>9, CongruenceLaws52
<1>12. Congruent52(vr, va)
  BY <1>9, <1>11, <1>c
<1>13. vr = va % Order52
  BY <1>7, <1>8, <1>9, <1>12, OneResidue52
<1> QED BY <1>3, <1>7, <1>10, <1>13 DEF t, r, va, vt, vr, M

\* from_bytes_wide: a number of 512 bits, given as its low 260 bits lo and the rest hi, is
\* reduced modulo l whatever it is.
THEOREM WideExact ==
  ASSUME NEW lo \in Scalars52, NEW hi \in Scalars52
  PROVE  /\ FromWide52(lo, hi) \in Scalars52
         /\ Value52(FromWide52(lo, hi)) = (Value52(lo) + MontgomeryR52 * Value52(hi)) % Order52
<1> DEFINE M == MontgomeryR52
           h == MontgomeryMul52(hi, RR52)
           g == MontgomeryMul52(lo, R52)
           vh == Value52(h)
           vg == Value52(g)
           vlo == Value52(lo)
           vhi == Value52(hi)
           v == Value52(FromWide52(lo, hi))
<1>1. M \in Nat /\ vlo \in Nat /\ vhi \in Nat /\ Order52 \in Nat /\ Order52 > 0
  BY RadixPowers52, ValueBelowR52, Order52Assumption
<1>2. /\ R52 \in Scalars52 /\ Value52(R52) < Order52 /\ Congruent52(Value52(R52), M * 1)
      /\ RR52 \in Scalars52 /\ Value52(RR52) < Order52 /\ Congruent52(Value52(RR52), M * M)
  <2>1. M * 1 = M
    BY <1>1
  <2> QED BY <2>1, MontgomeryConstants52
<1>3. h \in Scalars52 /\ vh \in Nat /\ vh < Order52 /\ Congruent52(vh, vhi * M)
  BY <1>1, <1>2, MontgomeryMulBy
<1>4. g \in Scalars52 /\ vg \in Nat /\ vg < Order52 /\ Congruent52(vg, vlo * 1)
  BY <1>1, <1>2, MontgomeryMulBy
<1>5. FromWide52(lo, hi) = Add52(h, g)
  BY DEF FromWide52
<1> HIDE DEF h, g
<1>6. FromWide52(lo, hi) \in Scalars52 /\ v = (vh + vg) % Order52
  <2>1. vh + vg < 2 * Order52
    <3> HIDE DEF vh, vg
    <3> QED BY <1>1, <1>3, <1>4
  <2> QED BY <2>1, <1>3, <1>4, <1>5, ScalarAddExact
<1> HIDE DEF vh, vg, vlo, vhi, M, v
<1>7. vhi * M = M * vhi /\ vlo * 1 = vlo /\ M * vhi \in Int /\ vlo + M * vhi \in Int /\ vh + vg \in Int
      /\ vh \in Int /\ vg \in Int /\ vlo \in Int /\ vh + vlo \in Int /\ vh + vlo = vlo + vh /\ (vh + vg) \in Nat
  BY <1>1, <1>3, <1>4
<1>8. Congruent52(vh + vg, vlo + M * vhi)
  <2> DEFINE y == M * vhi
  <2>a. y \in Int /\ Congruent52(vh, y) /\ Congruent52(vg, vlo)
    BY <1>3, <1>4, <1>7
  <2> HIDE DEF y
  <2>1. Congruent52(vh + vg, vh + vlo)
    BY <2>a, <1>7, CongruentPlus52
  <2>b. Congruent52(vlo + vh, vlo + y)
    BY <2>a, <1>7, CongruentPlus52
  <2>2. Congruent52(vlo + vh, vlo + M * vhi)
    BY <2>b DEF y
  <2> QED BY <2>1, <2>2, <1>7, CongruenceLaws52
<1>9. v \in Nat /\ v < Order52 /\ Congruent52(v, vh + vg)
  <2>1. Congruent52((vh + vg) % Order52, vh + vg) /\ (vh + vg) % Order52 \in 0..(Order52 - 1)
    BY <1>7, ResidueCongruent52
  <2>2. \A n \in 0..(Order52 - 1) : n \in Nat /\ n < Order52
    BY <1>1
  <2> QED BY <2>1, <2>2, <1>6
<1>10. Congruent52(v, vlo + M * vhi)
  <2>1. v \in Int
    BY <1>9
  <2> QED BY <2>1, <1>7, <1>8, <1>9, CongruenceLaws52
<1>11. v = (vlo + M * vhi) % Order52
  BY <1>7, <1>9, <1>10, OneResidue52
<1> QED BY <1>6, <1>11 DEF v, vlo, vhi, M
-----------------------------------------------------------------------------
\* Equality modulo P
Congruent(x, y) == \E k \in Int : x = y + k * P
\* A field element that stands for the integer a, on limbs of at most n reduced ones
Stands(e, a, n) == e.v \in F /\ e.b \in Nat /\ e.b <= n * Fresh /\ Congruent(e.v, a)

\* The modulus is odd and more than 4.
LEMMA Modulus25519 == P \in Nat /\ P >= 5 /\ 0 \in F /\ 1 \in F /\ F \subseteq Int
BY FieldAssumption DEF F

\* Congruence is reflexive.
LEMMA CongruentEqual ==
  ASSUME NEW x \in Int, NEW y \in Int, x = y
  PROVE  Congruent(x, y)
<1>1. x = y + 0 * P
  BY Modulus25519
<1> QED BY <1>1 DEF Congruent

\* Congruence is symmetric.
LEMMA CongruentSymmetric ==
  ASSUME NEW x \in Int, NEW y \in Int, Congruent(x, y)
  PROVE  Congruent(y, x)
<1>1. PICK k \in Int : x = y + k * P
  BY DEF Congruent
<1>2. -k \in Int /\ y = x + (-k) * P
  BY <1>1, Modulus25519
<1> QED BY <1>2 DEF Congruent

\* Congruence is transitive.
LEMMA CongruentTransitive ==
  ASSUME NEW x \in Int, NEW y \in Int, NEW z \in Int, Congruent(x, y), Congruent(y, z)
  PROVE  Congruent(x, z)
<1>1. PICK k \in Int : x = y + k * P
  BY DEF Congruent
<1>2. PICK j \in Int : y = z + j * P
  BY DEF Congruent
<1>3. k + j \in Int /\ x = z + (k + j) * P
  BY <1>1, <1>2, Modulus25519
<1> QED BY <1>3 DEF Congruent

\* It respects sums and differences.
LEMMA CongruentSum ==
  ASSUME NEW x \in Int, NEW y \in Int, NEW u \in Int, NEW w \in Int, Congruent(x, y), Congruent(u, w)
  PROVE  Congruent(x + u, y + w) /\ Congruent(x - u, y - w)
<1>1. PICK k \in Int : x = y + k * P
  BY DEF Congruent
<1>2. PICK j \in Int : u = w + j * P
  BY DEF Congruent
<1>3. k + j \in Int /\ x + u = (y + w) + (k + j) * P /\ k - j \in Int /\ x - u = (y - w) + (k - j) * P
  BY <1>1, <1>2, Modulus25519
<1> QED BY <1>3 DEF Congruent

\* Congruence respects products.
LEMMA CongruentProduct ==
  ASSUME NEW x \in Int, NEW y \in Int, NEW u \in Int, NEW w \in Int, Congruent(x, y), Congruent(u, w)
  PROVE  Congruent(x * u, y * w)
<1>1. PICK k \in Int : x = y + k * P
  BY DEF Congruent
<1>2. PICK j \in Int : u = w + j * P
  BY DEF Congruent
<1> DEFINE m == k * w + y * j + k * j * P
<1>3. m \in Int /\ x * u = y * w + m * P
  <2>1. P \in Int
    BY Modulus25519
  <2>2. m \in Int
    BY <2>1, <1>1, <1>2
  <2>3. (y + k * P) * (w + j * P) = y * w + m * P
    BY <2>1, <1>1, <1>2, SMTT(60)
  <2> QED BY <2>2, <2>3, <1>1, <1>2
<1> HIDE DEF m
<1> QED BY <1>3 DEF Congruent

\* A residue is congruent to the number, and congruent numbers have one residue.
LEMMA ResidueOf ==
  ASSUME NEW x \in Int
  PROVE  x % P \in F /\ Congruent(x % P, x)
<1>1. P \in Nat /\ P > 0
  BY Modulus25519
<1>2. x % P \in 0..(P - 1) /\ x = P * (x \div P) + (x % P) /\ x \div P \in Int
  BY <1>1
<1> DEFINE q == x \div P   r == x % P
<1>3. q \in Int /\ r \in Int /\ x = P * q + r
  BY <1>1, <1>2
<1> HIDE DEF q, r
<1>4. -q \in Int /\ r = x + (-q) * P
  BY <1>1, <1>3
<1>5. Congruent(r, x)
  BY <1>4 DEF Congruent
<1> QED BY <1>2, <1>5 DEF F, r

\* Congruent residues are equal: the field's values are the canonical ones.
LEMMA OneResidue ==
  ASSUME NEW x \in F, NEW y \in F, Congruent(x, y)
  PROVE  x = y
<1>1. P \in Nat /\ P > 0 /\ x \in Int /\ y \in Int /\ 0 <= x /\ x < P /\ 0 <= y /\ y < P
  BY Modulus25519 DEF F
<1>2. PICK k \in Int : x = y + k * P
  BY DEF Congruent
<1>3. CASE k = 0
  BY <1>1, <1>2, <1>3
<1>4. CASE k >= 1
  <2>1. k * P >= P
    BY <1>1, <1>4
  <2> QED BY <2>1, <1>1, <1>2
<1>5. CASE k <= -1
  <2>1. k * P <= -P
    BY <1>1, <1>5
  <2> QED BY <2>1, <1>1, <1>2
<1> QED BY <1>3, <1>4, <1>5

\* Reducing modulo P forgets exactly the multiples of P.
LEMMA SameResidue ==
  ASSUME NEW x \in Int, NEW y \in Int
  PROVE  (x % P = y % P) <=> Congruent(x, y)
<1>1. x % P \in F /\ Congruent(x % P, x) /\ y % P \in F /\ Congruent(y % P, y)
  BY ResidueOf
<1>2. x % P \in Int /\ y % P \in Int
  BY <1>1, Modulus25519
<1>3. Congruent(x, x % P) /\ Congruent(y, y % P)
  BY <1>1, <1>2, CongruentSymmetric
<1>4. ASSUME Congruent(x, y)
      PROVE  x % P = y % P
  <2>1. Congruent(x % P, y)
    BY <1>1, <1>2, <1>4, CongruentTransitive
  <2>2. Congruent(x % P, y % P)
    BY <1>2, <1>3, <2>1, CongruentTransitive
  <2> QED BY <2>2, <1>1, OneResidue
<1>5. ASSUME x % P = y % P
      PROVE  Congruent(x, y)
  <2>1. Congruent(x, y % P)
    BY <1>3, <1>5
  <2> QED BY <2>1, <1>1, <1>2, CongruentTransitive
<1> QED BY <1>4, <1>5

\* There are no zero divisors: inverses exist.
LEMMA NonzeroProduct ==
  ASSUME NEW x \in Int, NEW y \in Int, ~Congruent(x, 0), ~Congruent(y, 0)
  PROVE  ~Congruent(x * y, 0)
<1> SUFFICES ASSUME Congruent(x * y, 0) PROVE FALSE
  OBVIOUS
<1> DEFINE r == x % P
<1>1. r \in F /\ r \in Int /\ Congruent(r, x) /\ Congruent(x, r)
  BY ResidueOf, CongruentSymmetric, Modulus25519
<1>2. r # 0
  BY <1>1
<1>3. PICK i \in F : (r * i) % P = 1
  BY <1>1, <1>2, PrimeAssumption
<1> HIDE DEF r
<1>4. i \in Int /\ r * i \in Int /\ 1 \in Int /\ P \in Nat /\ x * i \in Int /\ x * y \in Int
  BY <1>1, Modulus25519
<1>5. 1 % P = 1
  BY Modulus25519
<1>6. Congruent(r * i, 1)
  BY <1>3, <1>4, <1>5, SameResidue
<1>7. Congruent(i, i) /\ Congruent(y, y) /\ Congruent(0, 0)
  BY <1>4, CongruentEqual
<1>8. Congruent(x * i, r * i)
  BY <1>1, <1>4, <1>7, CongruentProduct
<1>9. Congruent(x * i, 1)
  BY <1>4, <1>6, <1>8, CongruentTransitive
<1>10. Congruent((x * i) * y, 1 * y)
  BY <1>4, <1>7, <1>9, CongruentProduct
<1>11. Congruent(i * (x * y), i * 0)
  BY <1>4, <1>7, CongruentProduct
<1>12. (x * i) * y = i * (x * y) /\ 1 * y = y /\ i * 0 = 0 /\ (x * i) * y \in Int
  BY <1>4
<1>13. Congruent(y, i * (x * y)) /\ Congruent(i * (x * y), 0) /\ i * (x * y) \in Int
  BY <1>10, <1>11, <1>12, CongruentSymmetric
<1>14. Congruent(y, 0)
  BY <1>13, <1>4, CongruentTransitive
<1> QED BY <1>14

-----------------------------------------------------------------------------
\* Arithmetic on elements that stand for integers: what they stand for, and how many reduced
\* limbs they grow to.  A sum is not reduced; everything else accepts three.
LEMMA Rooms ==
  /\ Fresh \in Nat /\ MulRoom \in Nat /\ SubRoom \in Nat /\ Over \in Nat /\ 1000 <= Fresh
  /\ \A n \in {1, 2, 3} : n * Fresh <= MulRoom /\ n * Fresh <= SubRoom /\ n * Fresh < Over
BY HeadroomAssumption, FieldAssumption

\* Add: the limbs are added, not reduced.
LEMMA StandsSum ==
  ASSUME NEW x, NEW y, NEW a \in Int, NEW b \in Int, NEW m \in {1, 2}, NEW n \in {1, 2}, m + n <= 3,
         Stands(x, a, m), Stands(y, b, n)
  PROVE  Stands(FAdd(x, y), a + b, m + n)
<1>1. x.v \in Int /\ y.v \in Int /\ Congruent(x.v, a) /\ Congruent(y.v, b)
  BY Modulus25519 DEF Stands
<1>2. Congruent(x.v + y.v, a + b) /\ x.v + y.v \in Int /\ a + b \in Int
  <2>1. x.v + y.v \in Int /\ a + b \in Int
    BY <1>1
  <2>2. Congruent(x.v + y.v, a + b)
    BY <1>1, CongruentSum
  <2> QED BY <2>1, <2>2
<1>3. (x.v + y.v) % P \in F /\ Congruent((x.v + y.v) % P, x.v + y.v)
  BY <1>2, ResidueOf
<1>4. (x.v + y.v) % P \in Int
  BY <1>3, Modulus25519
<1>5. Congruent((x.v + y.v) % P, a + b)
  BY <1>2, <1>3, <1>4, CongruentTransitive
<1>6. x.b \in Nat /\ y.b \in Nat /\ x.b <= m * Fresh /\ y.b <= n * Fresh /\ Fresh \in Nat
  BY Rooms DEF Stands
<1>7. x.b + y.b <= (m + n) * Fresh
  BY <1>6
<1>8. m + n \in {1, 2, 3}
  OBVIOUS
<1>9. x.b + y.b < Over /\ x.b + y.b \in Nat
  BY <1>6, <1>7, <1>8, Rooms
<1>10. FAdd(x, y).v = (x.v + y.v) % P /\ FAdd(x, y).b = x.b + y.b
  BY <1>9 DEF FAdd, Grown
<1> QED BY <1>3, <1>5, <1>7, <1>9, <1>10 DEF Stands

\* Two reduced elements may be added lazily (Add of field.rs does not reduce).
LEMMA StandsPair ==
  ASSUME NEW x, NEW y, NEW a \in Int, NEW b \in Int, Stands(x, a, 1), Stands(y, b, 1)
  PROVE  Stands(FAdd(x, y), a + b, 2)
<1>1. Stands(FAdd(x, y), a + b, 1 + 1)
  BY StandsSum
<1>2. 1 + 1 = 2
  OBVIOUS
<1> QED BY <1>1, <1>2

\* Sub adds a multiple of P that the limbs stay below, and reduces.
LEMMA StandsDifference ==
  ASSUME NEW x, NEW y, NEW a \in Int, NEW b \in Int, NEW m \in {1, 2, 3}, NEW n \in {1, 2, 3},
         Stands(x, a, m), Stands(y, b, n)
  PROVE  Stands(FSub(x, y), a - b, 1)
<1>1. x.v \in Int /\ y.v \in Int /\ Congruent(x.v, a) /\ Congruent(y.v, b)
  BY Modulus25519 DEF Stands
<1>2. Congruent(x.v - y.v, a - b) /\ x.v - y.v \in Int /\ a - b \in Int
  <2>1. x.v - y.v \in Int /\ a - b \in Int
    BY <1>1
  <2>2. Congruent(x.v - y.v, a - b)
    BY <1>1, CongruentSum
  <2> QED BY <2>1, <2>2
<1>3. (x.v - y.v) % P \in F /\ Congruent((x.v - y.v) % P, x.v - y.v)
  BY <1>2, ResidueOf
<1>4. (x.v - y.v) % P \in Int
  BY <1>3, Modulus25519
<1>5. Congruent((x.v - y.v) % P, a - b)
  BY <1>2, <1>3, <1>4, CongruentTransitive
<1>6. x.b \in Nat /\ y.b \in Nat /\ x.b <= m * Fresh /\ y.b <= n * Fresh
  BY DEF Stands
<1>7. x.b <= SubRoom /\ y.b <= SubRoom
  BY <1>6, Rooms
<1>8. FSub(x, y).v = (x.v - y.v) % P /\ FSub(x, y).b = Fresh
  BY <1>7 DEF FSub, Within
<1> QED BY <1>3, <1>5, <1>8, Rooms DEF Stands

\* Neg does the same from zero.
LEMMA StandsNegation ==
  ASSUME NEW x, NEW a \in Int, NEW m \in {1, 2, 3}, Stands(x, a, m)
  PROVE  Stands(FNeg(x), -a, 1)
<1>1. x.v \in Int /\ Congruent(x.v, a) /\ 0 \in Int /\ Congruent(0, 0)
  BY Modulus25519, CongruentEqual DEF Stands
<1>2. Congruent(0 - x.v, 0 - a)
  BY <1>1, CongruentSum
<1>3. Congruent(-x.v, -a) /\ -x.v \in Int /\ -a \in Int
  BY <1>1, <1>2
<1>4. (-x.v) % P \in F /\ Congruent((-x.v) % P, -x.v)
  BY <1>3, ResidueOf
<1>5. (-x.v) % P \in Int
  BY <1>4, Modulus25519
<1>6. Congruent((-x.v) % P, -a)
  BY <1>3, <1>4, <1>5, CongruentTransitive
<1>7. x.b \in Nat /\ x.b <= m * Fresh
  BY DEF Stands
<1>8. x.b <= SubRoom
  BY <1>7, Rooms
<1>9. FNeg(x).v = (-x.v) % P /\ FNeg(x).b = Fresh
  BY <1>8 DEF FNeg, Within
<1> QED BY <1>4, <1>6, <1>9, Rooms DEF Stands

\* Mul accepts operands of up to three reduced limbs, and reduces.
LEMMA StandsProduct ==
  ASSUME NEW x, NEW y, NEW a \in Int, NEW b \in Int, NEW m \in {1, 2, 3}, NEW n \in {1, 2, 3},
         Stands(x, a, m), Stands(y, b, n)
  PROVE  Stands(FMul(x, y), a * b, 1)
<1>1. x.v \in Int /\ y.v \in Int /\ Congruent(x.v, a) /\ Congruent(y.v, b)
  BY Modulus25519 DEF Stands
<1>2. Congruent(x.v * y.v, a * b) /\ x.v * y.v \in Int /\ a * b \in Int
  <2>1. x.v * y.v \in Int /\ a * b \in Int
    BY <1>1
  <2>2. Congruent(x.v * y.v, a * b)
    BY <1>1, CongruentProduct
  <2> QED BY <2>1, <2>2
<1>3. (x.v * y.v) % P \in F /\ Congruent((x.v * y.v) % P, x.v * y.v)
  BY <1>2, ResidueOf
<1>4. (x.v * y.v) % P \in Int
  BY <1>3, Modulus25519
<1>5. Congruent((x.v * y.v) % P, a * b)
  BY <1>2, <1>3, <1>4, CongruentTransitive
<1>6. x.b \in Nat /\ y.b \in Nat /\ x.b <= m * Fresh /\ y.b <= n * Fresh
  BY DEF Stands
<1>7. x.b <= MulRoom /\ y.b <= MulRoom
  BY <1>6, Rooms
<1>8. FMul(x, y).v = (x.v * y.v) % P /\ FMul(x, y).b = Fresh
  BY <1>7 DEF FMul, Within
<1> QED BY <1>3, <1>5, <1>8, Rooms DEF Stands

\* A doubled element (square2, Z + Z)
LEMMA StandsTwice ==
  ASSUME NEW x, NEW a \in Int, Stands(x, a, 1)
  PROVE  Stands(FTwice(x), 2 * a, 2)
<1>1. Stands(FAdd(x, x), a + a, 1 + 1)
  BY StandsSum
<1>2. a + a = 2 * a /\ 1 + 1 = 2
  OBVIOUS
<1> QED BY <1>1, <1>2 DEF FTwice

\* An element stands for whatever is congruent to what it stands for.
LEMMA StandsFor ==
  ASSUME NEW x, NEW a \in Int, NEW b \in Int, NEW n, Stands(x, a, n), Congruent(a, b)
  PROVE  Stands(x, b, n)
<1>1. x.v \in Int /\ Congruent(x.v, a)
  BY Modulus25519 DEF Stands
<1>2. Congruent(x.v, b)
  BY <1>1, CongruentTransitive
<1> QED BY <1>2 DEF Stands

\* A bound may be widened.
LEMMA StandsWider ==
  ASSUME NEW x, NEW a \in Int, NEW n \in {1, 2, 3}, Stands(x, a, n)
  PROVE  Stands(x, a, 3)
<1>1. x.b \in Nat /\ x.b <= n * Fresh /\ n * Fresh <= 3 * Fresh /\ Fresh \in Nat
  BY Rooms DEF Stands
<1>2. x.b <= 3 * Fresh
  BY <1>1
<1> QED BY <1>1, <1>2 DEF Stands

\* Elements that stand for congruent numbers are equal, and only those.
LEMMA StandsEqual ==
  ASSUME NEW x, NEW y, NEW a \in Int, NEW b \in Int, NEW m, NEW n, Stands(x, a, m), Stands(y, b, n)
  PROVE  (x.v = y.v) <=> Congruent(a, b)
<1>1. x.v \in F /\ y.v \in F /\ x.v \in Int /\ y.v \in Int /\ Congruent(x.v, a) /\ Congruent(y.v, b)
  BY Modulus25519 DEF Stands
<1>2. Congruent(a, x.v) /\ Congruent(b, y.v)
  BY <1>1, CongruentSymmetric
<1>3. ASSUME x.v = y.v
      PROVE  Congruent(a, b)
  <2>1. Congruent(x.v, b)
    BY <1>1, <1>3
  <2> QED BY <2>1, <1>1, <1>2, CongruentTransitive
<1>4. ASSUME Congruent(a, b)
      PROVE  x.v = y.v
  <2>1. Congruent(x.v, b)
    BY <1>1, <1>4, CongruentTransitive
  <2>2. Congruent(x.v, y.v)
    BY <2>1, <1>1, <1>2, CongruentTransitive
  <2> QED BY <2>2, <1>1, OneResidue
<1> QED BY <1>3, <1>4

\* The constants.
LEMMA ConstantsStand ==
  /\ EDWARDS_D.v \in F /\ EDWARDS_D.v \in Int
  /\ Stands(EDWARDS_D, EDWARDS_D.v, 1) /\ Stands(EDWARDS_D2, 2 * EDWARDS_D.v, 1)
  /\ Stands(Zero, 0, 1) /\ Stands(One, 1, 1)
<1>1. EDWARDS_D.v \in F /\ EDWARDS_D.v \in Int
  BY EdwardsAssumption, Modulus25519
<1>2. ASSUME NEW a \in Int
      PROVE  Stands(Elem(a), a, 1)
  <2>1. Elem(a).v = a % P /\ Elem(a).b = 1000
    BY DEF Elem
  <2> QED BY <2>1, ResidueOf, Rooms DEF Stands
<1>3. EDWARDS_D.b = 1000
  BY DEF EDWARDS_D, Elem
<1>4. Stands(EDWARDS_D, EDWARDS_D.v, 1)
  BY <1>1, <1>3, Rooms, CongruentEqual DEF Stands
<1>5. 2 * EDWARDS_D.v \in Int
  BY <1>1
<1> QED BY <1>1, <1>2, <1>4, <1>5 DEF EDWARDS_D2, Zero, One
-----------------------------------------------------------------------------
(* The addition law, on affine coordinates: integers modulo P.             *)

\* -x^2 + y^2 = 1 + d x^2 y^2
OnModel(x, y) == Congruent(y * y - x * x, 1 + EDWARDS_D.v * ((x * y) * (x * y)))
\* The numerators of the sum's coordinates, and what their denominators differ from 1 by
SumX(x1, y1, x2, y2) == x1 * y2 + y1 * x2
SumY(x1, y1, x2, y2) == y1 * y2 + x1 * x2
Cross(x1, y1, x2, y2) == EDWARDS_D.v * ((x1 * y1) * (x2 * y2))

\* All are integers.
LEMMA SumsAreIntegers ==
  ASSUME NEW x1 \in Int, NEW y1 \in Int, NEW x2 \in Int, NEW y2 \in Int
  PROVE  SumX(x1, y1, x2, y2) \in Int /\ SumY(x1, y1, x2, y2) \in Int /\ Cross(x1, y1, x2, y2) \in Int
BY ConstantsStand DEF SumX, SumY, Cross

\* The denominators of a sum of points of the curve are not zero, because d is not a square.
\* With l = -1 or 1 for the cross term, p = x1 y1 and i a root of -1, (y1 + l i x1)^2 = d p^2 (y2 + i x2)^2, so that p (y2 + i x2) = 0 and likewise
\* p (y2 - i x2) = 0; then p y2 = 0, and l would be 0.
LEMMA NotMinusOne ==
  ASSUME NEW x1 \in Int, NEW y1 \in Int, NEW x2 \in Int, NEW y2 \in Int,
         OnModel(x1, y1), OnModel(x2, y2), NEW e \in {-1, 1}, Congruent(Cross(x1, y1, x2, y2), e)
  PROVE  FALSE
<1> DEFINE d == EDWARDS_D.v
           p == x1 * y1
           q == x2 * y2
           l == d * (p * q)
           A == d * (p * p)
           e1 == y1 * y1 - x1 * x1
           e2 == y2 * y2 - x2 * x2
<1>1. d \in Int /\ p \in Int /\ q \in Int /\ l \in Int /\ A \in Int /\ e1 \in Int /\ e2 \in Int /\ e \in Int
  <2>1. d \in Int /\ e \in Int
    BY ConstantsStand
  <2>2. p \in Int /\ q \in Int /\ e1 \in Int /\ e2 \in Int
    OBVIOUS
  <2> HIDE DEF d, p, q, e1, e2
  <2> QED BY <2>1, <2>2
<1>2. Congruent(l, e) /\ Congruent(e1, 1 + A) /\ Congruent(e2, 1 + d * (q * q))
  BY DEF OnModel, Cross
<1>3. Congruent(e1, A * e2)
  <2> HIDE DEF d, p, q, e1, e2
  <2>1. A * e2 \in Int /\ A * (1 + d * (q * q)) \in Int /\ l * l \in Int /\ 1 \in Int /\ A + l * l \in Int /\ 1 + A \in Int
        /\ 1 + d * (q * q) \in Int /\ e * e = 1 /\ A + 1 \in Int
    BY <1>1
  <2>2. Congruent(A * e2, A * (1 + d * (q * q)))
    BY <1>1, <1>2, <2>1, CongruentEqual, CongruentProduct
  <2>3. A * (1 + d * (q * q)) = A + l * l
    BY <1>1, SMTT(60)
  <2>4. Congruent(l * l, e * e)
    <3> HIDE DEF l
    <3> QED BY <1>1, <1>2, CongruentProduct
  <2>5. Congruent(A + l * l, A + 1)
    <3> DEFINE k == l * l
    <3>1. Congruent(k, 1) /\ k \in Int /\ Congruent(A, A)
      BY <1>1, <2>1, <2>4, CongruentEqual
    <3> HIDE DEF k, A
    <3>2. Congruent(A + k, A + 1)
      BY <1>1, <2>1, <3>1, CongruentSum
    <3> QED BY <3>2 DEF k
  <2>6. A + 1 = 1 + A
    BY <1>1
  <2>7. Congruent(A * e2, 1 + A)
    <3> HIDE DEF A, l
    <3> QED BY <2>1, <2>2, <2>3, <2>5, <2>6, CongruentTransitive
  <2> HIDE DEF A
  <2>8. Congruent(1 + A, A * e2)
    BY <2>1, <2>7, CongruentSymmetric
  <2> QED BY <1>1, <1>2, <2>1, <2>8, CongruentTransitive
<1>4. PICK i \in Int : Congruent(i * i, -1)
  <2>1. PICK i \in F : (i * i) % P = P - 1
    BY PrimeAssumption
  <2>2. i \in Int /\ i * i \in Int /\ P \in Nat /\ P >= 5 /\ -1 \in Int
    BY <2>1, Modulus25519
  <2>3. (-1) % P = P - 1
    BY <2>2
  <2>4. Congruent(i * i, -1)
    BY <2>1, <2>2, <2>3, SameResidue
  <2> QED BY <2>2, <2>4
\* For both roots j of -1
<1>5. ASSUME NEW j \in Int, Congruent(j * j, -1)
      PROVE  Congruent(p * (y2 + j * x2), 0)
  <2> DEFINE u == y1 + (e * j) * x1
             w == y2 + j * x2
             r == p * w
  <2>1. u \in Int /\ w \in Int /\ r \in Int /\ u * u \in Int /\ r * r \in Int /\ d * (r * r) \in Int /\ w * w \in Int
        /\ A * (w * w) \in Int /\ j * j \in Int /\ -1 \in Int /\ e * j \in Int
    <3>1. u \in Int /\ w \in Int /\ p \in Int /\ d \in Int /\ A \in Int /\ j * j \in Int /\ e * j \in Int
      <4>1. e * j \in Int /\ e * j * x1 \in Int
        BY <1>1
      <4> QED BY <4>1, <1>1
    <3> HIDE DEF u, w, p, d, A
    <3> QED BY <3>1
  \* both squares, up to a multiple of j^2 + 1
  <2>2. Congruent(u * u, e1 + (2 * (e * j)) * p)
    <3>1. u * u = (y1 * y1 + (2 * (e * j)) * p) + (x1 * x1) * (j * j)
      <4>1. e * e = 1
        OBVIOUS
      <4>2. u * u = (y1 * y1 + (2 * (e * j)) * p) + (e * e) * ((x1 * x1) * (j * j))
        BY <1>1, SMTT(60)
      <4>3. (x1 * x1) * (j * j) \in Int
        BY <2>1
      <4> QED BY <4>1, <4>2, <4>3
    <3>2. e1 + (2 * (e * j)) * p = (y1 * y1 + (2 * (e * j)) * p) + (x1 * x1) * (-1)
      BY <1>1, <2>1
    <3> DEFINE m == y1 * y1 + (2 * (e * j)) * p
               x == x1 * x1
               n == j * j
    <3>3. m \in Int /\ x \in Int /\ n \in Int /\ Congruent(n, -1)
      BY <1>1, <1>5, <2>1
    <3> HIDE DEF m, x, n
    <3>4. x * n \in Int /\ x * (-1) \in Int /\ Congruent(x, x) /\ Congruent(m, m) /\ -1 \in Int
      BY <3>3, CongruentEqual
    <3>5. Congruent(x * n, x * (-1))
      BY <3>3, <3>4, CongruentProduct
    <3>6. Congruent(m + x * n, m + x * (-1))
      BY <3>3, <3>4, <3>5, CongruentSum
    <3> QED BY <3>1, <3>2, <3>6 DEF m, x, n
  <2>3. Congruent(w * w, e2 + (2 * j) * q)
    <3>1. w * w = (y2 * y2 + (2 * j) * q) + (x2 * x2) * (j * j)
      BY SMTT(60)
    <3>2. e2 + (2 * j) * q = (y2 * y2 + (2 * j) * q) + (x2 * x2) * (-1)
      BY <1>1, <2>1
    <3> DEFINE m == y2 * y2 + (2 * j) * q
               x == x2 * x2
               n == j * j
    <3>3. m \in Int /\ x \in Int /\ n \in Int /\ Congruent(n, -1)
      BY <1>1, <1>5, <2>1
    <3> HIDE DEF m, x, n
    <3>4. x * n \in Int /\ x * (-1) \in Int /\ Congruent(x, x) /\ Congruent(m, m) /\ -1 \in Int
      BY <3>3, CongruentEqual
    <3>5. Congruent(x * n, x * (-1))
      BY <3>3, <3>4, CongruentProduct
    <3>6. Congruent(m + x * n, m + x * (-1))
      BY <3>3, <3>4, <3>5, CongruentSum
    <3> QED BY <3>1, <3>2, <3>6 DEF m, x, n
  \* A w^2 = A e2 + 2 j l p, which is e1 + 2 j e p
  <2>4. Congruent(u * u, d * (r * r))
    <3>1. d * (r * r) = A * (w * w)
      <4> HIDE DEF d, p, w
      <4> QED BY <1>1, <2>1, SMTT(60)
    <3> DEFINE g == A * e2   h == (2 * j) * p   U == u * u   W == w * w   v == e2 + (2 * j) * q
    <3>2. A * v = g + h * l
      <4> HIDE DEF d, p, q, e2
      <4> QED BY <1>1, SMTT(60)
    <3>3. e1 + (2 * (e * j)) * p = e1 + h * e
      <4> HIDE DEF e1, p
      <4> QED BY <1>1, <2>1
    <3>4. g \in Int /\ h \in Int /\ U \in Int /\ W \in Int /\ v \in Int /\ l \in Int /\ e1 \in Int /\ A \in Int
      <4> HIDE DEF A, e2, p, q, u, w, l, e1
      <4> QED BY <1>1, <2>1
    <3>5. Congruent(U, e1 + h * e) /\ Congruent(W, v) /\ Congruent(e1, g) /\ Congruent(l, e) /\ e \in Int
      BY <1>1, <1>2, <1>3, <2>2, <2>3, <3>3
    <3> HIDE DEF g, h, U, W, v, l, e1, A
    <3>6. A * W \in Int /\ A * v \in Int /\ h * l \in Int /\ h * e \in Int /\ g + h * l \in Int /\ e1 + h * e \in Int
      BY <3>4, <3>5
    <3>7. Congruent(A, A) /\ Congruent(h, h) /\ Congruent(e, l) /\ Congruent(v, W)
      BY <3>4, <3>5, CongruentEqual, CongruentSymmetric
    <3>8. Congruent(h * e, h * l) /\ Congruent(A * v, A * W)
      BY <3>4, <3>5, <3>7, CongruentProduct
    <3>9. Congruent(e1 + h * e, g + h * l)
      BY <3>4, <3>5, <3>6, <3>8, CongruentSum
    <3>10. Congruent(U, g + h * l)
      BY <3>4, <3>5, <3>6, <3>9, CongruentTransitive
    <3>11. Congruent(g + h * l, A * W)
      BY <3>2, <3>8
    <3>12. Congruent(U, A * W)
      BY <3>4, <3>6, <3>10, <3>11, CongruentTransitive
    <3> QED BY <3>1, <3>12 DEF U, W
  <2>5. ASSUME NEW a \in Int, NEW b \in Int, Congruent(a * a, d * (b * b))
        PROVE  Congruent(b, 0)
    <3> DEFINE s == a % P   t == b % P
    <3>1. s \in F /\ t \in F /\ s \in Int /\ t \in Int /\ Congruent(s, a) /\ Congruent(t, b) /\ Congruent(b, t)
      BY ResidueOf, CongruentSymmetric, Modulus25519
    <3> HIDE DEF s, t, d
    <3>2. d \in Int /\ Congruent(d, d)
      BY <1>1, CongruentEqual
    <3>3. s * s \in Int /\ a * a \in Int /\ t * t \in Int /\ b * b \in Int
      BY <3>1
    <3>4. Congruent(s * s, a * a) /\ Congruent(b * b, t * t)
      BY <3>1, CongruentProduct
    <3>5. d * (b * b) \in Int /\ d * (t * t) \in Int
      BY <3>2, <3>3
    <3>6. Congruent(d * (b * b), d * (t * t))
      <4> DEFINE B == b * b   T == t * t
      <4> HIDE DEF B, T
      <4>1. B \in Int /\ T \in Int /\ Congruent(B, T)
        BY <3>3, <3>4 DEF B, T
      <4>2. Congruent(d * B, d * T)
        BY <3>2, <4>1, CongruentProduct
      <4> QED BY <4>2 DEF B, T
    <3>7. Congruent(s * s, d * (t * t))
      <4>1. Congruent(s * s, d * (b * b))
        BY <2>5, <3>3, <3>4, <3>5, CongruentTransitive
      <4> QED BY <4>1, <3>3, <3>5, <3>6, CongruentTransitive
    <3>8. (s * s) % P = (d * (t * t)) % P
      BY <3>3, <3>5, <3>7, SameResidue
    <3>9. d * (t * t) = d * t * t
      BY <3>1, <3>2
    <3>10. t = 0
      BY <3>1, <3>8, <3>9, EdwardsAssumption DEF d
    <3> QED BY <3>1, <3>10
  <2> HIDE DEF u, r, d
  <2>6. Congruent(r, 0)
    BY <2>1, <2>4, <2>5
  <2> QED BY <2>6 DEF r
<1>6. Congruent(p * (y2 + i * x2), 0)
  BY <1>4, <1>5
<1>7. Congruent(p * (y2 + (-i) * x2), 0)
  <2>1. -i \in Int /\ (-i) * (-i) = i * i
    BY <1>4
  <2> QED BY <1>4, <1>5, <2>1
<1>8. Congruent(2 * l, 0)
  <2> DEFINE a == p * (y2 + i * x2)   b == p * (y2 + (-i) * x2)   k == d * x2
  <2>1. a \in Int /\ b \in Int /\ k \in Int
    <3>1. d \in Int /\ p \in Int /\ y2 + i * x2 \in Int /\ y2 + (-i) * x2 \in Int
      BY <1>1, <1>4
    <3> HIDE DEF d, p
    <3> QED BY <3>1
  <2>2. 2 * l = k * (a + b)
    <3> HIDE DEF d, p
    <3> QED BY <1>1, <1>4, SMTT(60)
  <2>3. Congruent(a, 0) /\ Congruent(b, 0)
    BY <1>6, <1>7
  <2> HIDE DEF a, b, k, l
  <2>4. a + b \in Int /\ 0 \in Int /\ 0 + 0 = 0 /\ k * 0 = 0 /\ Congruent(k, k)
    BY <2>1, CongruentEqual
  <2>5. Congruent(a + b, 0 + 0)
    BY <2>1, <2>3, <2>4, CongruentSum
  <2>6. Congruent(k * (a + b), k * 0)
    BY <2>1, <2>4, <2>5, CongruentProduct
  <2> QED BY <2>2, <2>4, <2>6
<1>9. Congruent(2 * e, 0)
  <2> HIDE DEF l
  <2>1. Congruent(e, l) /\ Congruent(2, 2) /\ 2 * e \in Int /\ 2 * l \in Int
    BY <1>1, <1>2, CongruentSymmetric, CongruentEqual
  <2>2. Congruent(2 * e, 2 * l)
    BY <1>1, <2>1, CongruentProduct
  <2> QED BY <1>8, <2>1, <2>2, CongruentTransitive
<1>10. 0 % P = 0 /\ (2 * e) % P # 0 /\ 2 * e \in Int
  <2>1. P \in Nat /\ P >= 5
    BY Modulus25519
  <2>2. CASE e = 1
    BY <2>1, <2>2
  <2>3. CASE e = -1
    <3>1. (-2) % P = P - 2
      BY <2>1
    <3> QED BY <2>1, <2>3, <3>1
  <2> QED BY <2>2, <2>3
<1> QED BY <1>9, <1>10, SameResidue
\* A sum of points of the curve is on the curve, with its denominators multiplied out.
LEMMA SumOnCurve ==
  ASSUME NEW x1 \in Int, NEW y1 \in Int, NEW x2 \in Int, NEW y2 \in Int, OnModel(x1, y1), OnModel(x2, y2)
  PROVE  LET s == SumX(x1, y1, x2, y2)
             c == SumY(x1, y1, x2, y2)
             g == 1 + Cross(x1, y1, x2, y2)
             f == 1 - Cross(x1, y1, x2, y2)
         IN  Congruent((g * c) * (g * c) - (f * s) * (f * s), (f * g) * (f * g) + EDWARDS_D.v * ((s * c) * (s * c)))
<1> DEFINE d == EDWARDS_D.v
           p == x1 * y1
           q == x2 * y2
           l == d * (p * q)
           s == SumX(x1, y1, x2, y2)
           c == SumY(x1, y1, x2, y2)
           A == d * (p * p)
           B == d * (q * q)
           e1 == y1 * y1 - x1 * x1
           e2 == y2 * y2 - x2 * x2
           m == y1 * y1 + x1 * x1
           n == y2 * y2 + x2 * x2
           g == 1 + l
           f == 1 - l
<1>1. d \in Int /\ p \in Int /\ q \in Int /\ l \in Int /\ A \in Int /\ B \in Int /\ e1 \in Int /\ e2 \in Int
      /\ s \in Int /\ c \in Int /\ m \in Int /\ n \in Int
  <2>1. d \in Int /\ s \in Int /\ c \in Int
    BY ConstantsStand, SumsAreIntegers
  <2>2. p \in Int /\ q \in Int /\ e1 \in Int /\ e2 \in Int /\ m \in Int /\ n \in Int
    OBVIOUS
  <2> HIDE DEF d, p, q, e1, e2, s, c, m, n
  <2> QED BY <2>1, <2>2
<1>2. Congruent(e1, 1 + A) /\ Congruent(e2, 1 + B) /\ Cross(x1, y1, x2, y2) = l
  BY DEF OnModel, Cross
\* sums of two squares: the identities of Brahmagupta
<1>3. c * c - s * s = e1 * e2
  BY SMTT(60) DEF SumX, SumY
<1>4. c * c + s * s = m * n + 4 * (p * q)
  BY SMTT(60) DEF SumX, SumY
<1>5. s * c = q * m + p * n
  BY SMTT(60) DEF SumX, SumY
<1>6. m * m = e1 * e1 + 4 * (p * p) /\ n * n = e2 * e2 + 4 * (q * q)
  <2>1. m * m = e1 * e1 + 4 * (p * p)
    BY SMTT(60)
  <2>2. n * n = e2 * e2 + 4 * (q * q)
    BY SMTT(60)
  <2> QED BY <2>1, <2>2
<1>7. (g * c) * (g * c) - (f * s) * (f * s) = (1 + l * l) * (e1 * e2) + (2 * l) * (m * n + 4 * (p * q))
  <2> HIDE DEF l, s, c, e1, e2, m, n, p, q
  <2>1. (g * c) * (g * c) - (f * s) * (f * s) = (1 + l * l) * (c * c - s * s) + (2 * l) * (c * c + s * s)
    BY <1>1, SMTT(60)
  <2> QED BY <2>1, <1>3, <1>4
<1>8. (f * g) * (f * g) + d * ((s * c) * (s * c))
        = (1 - l * l) * (1 - l * l) + (B * (e1 * e1) + A * (e2 * e2)) + (2 * l) * (m * n + 4 * (p * q))
  <2> DEFINE M == m * m   N == n * n   k == m * n   E1 == e1 * e1   E2 == e2 * e2
  <2>1. (f * g) * (f * g) = (1 - l * l) * (1 - l * l)
    <3> HIDE DEF l
    <3> QED BY <1>1, SMTT(60)
  <2>2. (s * c) * (s * c) = (q * q) * M + (p * p) * N + (2 * (p * q)) * k
    <3>1. (s * c) * (s * c) = (q * m + p * n) * (q * m + p * n)
      BY <1>5
    <3> HIDE DEF p, q, m, n
    <3>2. (q * m + p * n) * (q * m + p * n) = (q * q) * (m * m) + (p * p) * (n * n) + (2 * (p * q)) * (m * n)
      BY <1>1, SMTT(60)
    <3> QED BY <3>1, <3>2
  <2>3. M = E1 + 4 * (p * p) /\ N = E2 + 4 * (q * q)
    BY <1>6
  <2>4. d * ((q * q) * (E1 + 4 * (p * p)) + (p * p) * (E2 + 4 * (q * q)) + (2 * (p * q)) * k)
          = (B * E1 + A * E2) + (2 * l) * (k + 4 * (p * q))
    <3>1. E1 \in Int /\ E2 \in Int /\ k \in Int
      <4> HIDE DEF e1, e2, m, n
      <4> QED BY <1>1
    <3> HIDE DEF E1, E2, k, p, q, d
    <3> QED BY <1>1, <3>1, SMTT(60)
  <2>5. d * ((s * c) * (s * c)) = (B * E1 + A * E2) + (2 * l) * (k + 4 * (p * q))
    <3> HIDE DEF M, N, E1, E2, k, A, B, l, d, s, c, p, q
    <3> QED BY <2>2, <2>3, <2>4
  <2>6. B * E1 + A * E2 \in Int /\ (2 * l) * (k + 4 * (p * q)) \in Int /\ (1 - l * l) * (1 - l * l) \in Int
    <3>1. E1 \in Int /\ E2 \in Int /\ k \in Int /\ p * q \in Int
      <4> HIDE DEF e1, e2, m, n, p, q
      <4> QED BY <1>1
    <3> HIDE DEF E1, E2, k, A, B, l, p, q
    <3> QED BY <1>1, <3>1
  <2> DEFINE a1 == (f * g) * (f * g)  a2 == (1 - l * l) * (1 - l * l)  b1 == d * ((s * c) * (s * c))
             b2 == B * E1 + A * E2  b3 == (2 * l) * (k + 4 * (p * q))
  <2>7. a1 = a2 /\ b1 = b2 + b3 /\ a2 \in Int /\ b2 \in Int /\ b3 \in Int
    BY <2>1, <2>5, <2>6
  <2> HIDE DEF a1, a2, b1, b2, b3
  <2>8. a1 + b1 = (a2 + b2) + b3
    BY <2>7
  <2> QED BY <2>8 DEF a1, a2, b1, b2, b3
\* with e1 = 1 + A and e2 = 1 + B both sides agree
<1>9. (1 + l * l) * ((1 + A) * (1 + B)) = (1 - l * l) * (1 - l * l) + (B * ((1 + A) * (1 + A)) + A * ((1 + B) * (1 + B)))
  <2>1. l * l = A * B
    <3> HIDE DEF d, p, q
    <3> QED BY <1>1, SMTT(60)
  <2> HIDE DEF A, B, l
  <2>2. (1 + A * B) * ((1 + A) * (1 + B)) = (1 - A * B) * (1 - A * B) + (B * ((1 + A) * (1 + A)) + A * ((1 + B) * (1 + B)))
    BY <1>1, SMTT(60)
  <2> QED BY <2>1, <2>2
<1>10. Congruent((1 + l * l) * (e1 * e2), (1 - l * l) * (1 - l * l) + (B * (e1 * e1) + A * (e2 * e2)))
  <2> DEFINE a == 1 + A   b == 1 + B   k == 1 + l * l   h == (1 - l * l) * (1 - l * l)
  <2>1. a \in Int /\ b \in Int /\ k \in Int /\ h \in Int /\ Congruent(e1, a) /\ Congruent(e2, b)
    <3> HIDE DEF A, B, l, e1, e2
    <3> QED BY <1>1, <1>2
  <2>2. k * (a * b) = h + (B * (a * a) + A * (b * b))
    BY <1>9
  <2> HIDE DEF a, b, k, h, e1, e2, A, B
  <2>3. Congruent(k, k) /\ Congruent(h, h) /\ Congruent(A, A) /\ Congruent(B, B) /\ Congruent(a, e1) /\ Congruent(b, e2)
    BY <1>1, <2>1, CongruentEqual, CongruentSymmetric
  <2>4. e1 * e2 \in Int /\ a * b \in Int /\ a * a \in Int /\ b * b \in Int /\ e1 * e1 \in Int /\ e2 * e2 \in Int
    BY <1>1, <2>1
  <2>5. Congruent(e1 * e2, a * b) /\ Congruent(a * a, e1 * e1) /\ Congruent(b * b, e2 * e2)
    BY <1>1, <2>1, <2>3, CongruentProduct
  <2> DEFINE e12 == e1 * e2  ab == a * b  aa == a * a  bb == b * b  ee1 == e1 * e1  ee2 == e2 * e2
  <2>6. /\ e12 \in Int /\ ab \in Int /\ aa \in Int /\ bb \in Int /\ ee1 \in Int /\ ee2 \in Int
        /\ Congruent(e12, ab) /\ Congruent(aa, ee1) /\ Congruent(bb, ee2) /\ k * ab = h + (B * aa + A * bb)
    BY <2>2, <2>4, <2>5
  <2> HIDE DEF e12, ab, aa, bb, ee1, ee2
  <2>7. /\ k * e12 \in Int /\ k * ab \in Int /\ B * aa \in Int /\ A * bb \in Int /\ B * ee1 \in Int /\ A * ee2 \in Int
        /\ B * aa + A * bb \in Int /\ B * ee1 + A * ee2 \in Int
        /\ h + (B * aa + A * bb) \in Int /\ h + (B * ee1 + A * ee2) \in Int
    BY <1>1, <2>1, <2>6
  <2>8. Congruent(k * e12, k * ab) /\ Congruent(B * aa, B * ee1) /\ Congruent(A * bb, A * ee2)
    BY <1>1, <2>1, <2>3, <2>6, CongruentProduct
  <2>9. Congruent(B * aa + A * bb, B * ee1 + A * ee2)
    BY <2>7, <2>8, CongruentSum
  <2>10. Congruent(h + (B * aa + A * bb), h + (B * ee1 + A * ee2))
    BY <2>1, <2>3, <2>7, <2>9, CongruentSum
  <2>11. Congruent(k * e12, h + (B * aa + A * bb))
    BY <2>6, <2>8
  <2>12. Congruent(k * e12, h + (B * ee1 + A * ee2))
    BY <2>7, <2>10, <2>11, CongruentTransitive
  <2> QED BY <2>12 DEF k, h, e12, ee1, ee2
<1>11. Congruent((1 + l * l) * (e1 * e2) + (2 * l) * (m * n + 4 * (p * q)),
                 (1 - l * l) * (1 - l * l) + (B * (e1 * e1) + A * (e2 * e2)) + (2 * l) * (m * n + 4 * (p * q)))
  <2> DEFINE a == (1 + l * l) * (e1 * e2)
             b == (1 - l * l) * (1 - l * l) + (B * (e1 * e1) + A * (e2 * e2))
             k == (2 * l) * (m * n + 4 * (p * q))
  <2>1. a \in Int /\ b \in Int /\ k \in Int
    <3> HIDE DEF l, e1, e2, m, n, p, q, A, B
    <3> QED BY <1>1
  <2>2. Congruent(a, b)
    BY <1>10
  <2> HIDE DEF a, b, k
  <2>3. Congruent(a + k, b + k)
    BY <2>1, <2>2, CongruentEqual, CongruentSum
  <2> QED BY <2>3 DEF a, b, k
<1>12. Congruent((g * c) * (g * c) - (f * s) * (f * s), (f * g) * (f * g) + d * ((s * c) * (s * c)))
  <2> HIDE DEF l, e1, e2, m, n, p, q, A, B, d, s, c
  <2> QED BY <1>7, <1>8, <1>11
<1> QED BY <1>2, <1>12
-----------------------------------------------------------------------------
(* Points.                                                                 *)

\* Extended points of reduced coordinates, and the valid ones among them
Reduced == {e \in [v : F, b : Nat] : e.b <= Fresh}
ExtendedPoints == [X : Reduced, Y : Reduced, Z : Reduced, T : Reduced]
CurvePoints == {p \in ExtendedPoints : IsValid(p) /\ p.Z.v # 0}
\* p is the affine point (x, y), scaled by z.
Represents(p, x, y, z) ==
  /\ Stands(p.X, x * z, 1) /\ Stands(p.Y, y * z, 1) /\ Stands(p.Z, z, 1) /\ Stands(p.T, (x * y) * z, 1)
  /\ OnModel(x, y) /\ ~Congruent(z, 0)
\* x and y are p's affine coordinates: X / Z and Y / Z.
IsAffine(p, x, y) == x \in F /\ y \in F /\ Congruent(p.X.v, x * p.Z.v) /\ Congruent(p.Y.v, y * p.Z.v)
\* A completed point ((X : Z), (Y : T)) stands for (w s, w c, w g, w f).
Completes(cp, w, s, c, g, f) ==
  Stands(cp.X, w * s, 3) /\ Stands(cp.Y, w * c, 3) /\ Stands(cp.Z, w * g, 3) /\ Stands(cp.T, w * f, 3)

\* The ring laws of congruence used to move factors.
LEMMA CancelFactor ==
  ASSUME NEW x \in Int, NEW y \in Int, NEW z \in Int, ~Congruent(z, 0), Congruent(z * x, z * y)
  PROVE  Congruent(x, y)
<1> SUFFICES ASSUME ~Congruent(x, y) PROVE FALSE
  OBVIOUS
<1> DEFINE u == x - y
<1>1. u \in Int /\ z * u \in Int /\ z * x \in Int /\ z * y \in Int /\ 0 \in Int
  OBVIOUS
<1>2. ~Congruent(u, 0)
  <2> SUFFICES ASSUME Congruent(u, 0) PROVE FALSE
    OBVIOUS
  <2>1. Congruent(y, y)
    BY CongruentEqual
  <2>2. Congruent(u + y, 0 + y)
    <3> HIDE DEF u
    <3> QED BY <1>1, <2>1, CongruentSum
  <2>3. u + y = x /\ 0 + y = y
    OBVIOUS
  <2> QED BY <2>2, <2>3
<1>3. Congruent(z * x - z * y, z * y - z * y)
  <2> DEFINE a == z * x   b == z * y
  <2>1. a \in Int /\ b \in Int /\ Congruent(a, b) /\ Congruent(b, b)
    BY <1>1, CongruentEqual
  <2> HIDE DEF a, b
  <2>2. Congruent(a - b, b - b)
    BY <2>1, CongruentSum
  <2> QED BY <2>2 DEF a, b
<1>4. z * x - z * y = z * u /\ z * y - z * y = 0
  BY <1>1
<1> HIDE DEF u
<1>5. Congruent(z * u, 0)
  BY <1>3, <1>4
<1> QED BY <1>1, <1>2, <1>5, NonzeroProduct

\* What is_valid checks: the equation of the curve and XY = ZT.
LEMMA ValidEquations ==
  ASSUME NEW p, NEW a \in Int, NEW b \in Int, NEW z \in Int, NEW u \in Int,
         Stands(p.X, a, 1), Stands(p.Y, b, 1), Stands(p.Z, z, 1), Stands(p.T, u, 1)
  PROVE  IsValid(p) <=> /\ Congruent((b * b - a * a) * (z * z), (z * z) * (z * z) + EDWARDS_D.v * ((a * a) * (b * b)))
                        /\ Congruent(a * b, z * u)
<1> DEFINE XX == FMul(p.X, p.X)   YY == FMul(p.Y, p.Y)   ZZ == FMul(p.Z, p.Z)
           d == EDWARDS_D.v
           l == FMul(FSub(YY, XX), ZZ)
           r == FAdd(FMul(ZZ, ZZ), FMul(EDWARDS_D, FMul(XX, YY)))
<1>1. IsValid(p) <=> l.v = r.v /\ FMul(p.X, p.Y).v = FMul(p.Z, p.T).v
  BY DEF IsValid, ProjectiveIsValid, ToProjective, ProjectiveEquation, CtEq, ToBytes, FSquare
<1>2. a * a \in Int /\ b * b \in Int /\ z * z \in Int /\ d \in Int
  BY ConstantsStand
<1>3. Stands(XX, a * a, 1) /\ Stands(YY, b * b, 1) /\ Stands(ZZ, z * z, 1) /\ Stands(EDWARDS_D, d, 1)
  BY StandsProduct, ConstantsStand
<1>4. Stands(FMul(p.X, p.Y), a * b, 1) /\ Stands(FMul(p.Z, p.T), z * u, 1) /\ a * b \in Int /\ z * u \in Int
  <2>1. Stands(FMul(p.X, p.Y), a * b, 1)
    BY StandsProduct
  <2>2. Stands(FMul(p.Z, p.T), z * u, 1)
    BY StandsProduct
  <2> QED BY <2>1, <2>2
<1>5. Stands(l, (b * b - a * a) * (z * z), 1) /\ Stands(r, (z * z) * (z * z) + d * ((a * a) * (b * b)), 2)
      /\ (b * b - a * a) * (z * z) \in Int /\ (z * z) * (z * z) + d * ((a * a) * (b * b)) \in Int
  <2> DEFINE A == a * a   B == b * b   C == z * z
  <2>1. A \in Int /\ B \in Int /\ C \in Int /\ Stands(XX, A, 1) /\ Stands(YY, B, 1) /\ Stands(ZZ, C, 1)
    BY <1>2, <1>3
  <2> HIDE DEF A, B, C, d, XX, YY, ZZ
  <2>2. B - A \in Int /\ A * B \in Int /\ C * C \in Int /\ d * (A * B) \in Int /\ (B - A) * C \in Int /\ C * C + d * (A * B) \in Int
    <3>1. B - A \in Int /\ A * B \in Int /\ C * C \in Int
      BY <2>1
    <3>2. d * (A * B) \in Int /\ (B - A) * C \in Int
      BY <3>1, <2>1, <1>2
    <3> QED BY <3>1, <3>2
  <2>3. Stands(FSub(YY, XX), B - A, 1) /\ Stands(FMul(XX, YY), A * B, 1) /\ Stands(FMul(ZZ, ZZ), C * C, 1)
    BY <2>1, StandsDifference, StandsProduct
  <2>4. Stands(FMul(FSub(YY, XX), ZZ), (B - A) * C, 1)
    BY <2>1, <2>2, <2>3, StandsProduct
  <2>5. Stands(FMul(EDWARDS_D, FMul(XX, YY)), d * (A * B), 1)
    BY <1>2, <1>3, <2>2, <2>3, StandsProduct
  <2>6. Stands(FAdd(FMul(ZZ, ZZ), FMul(EDWARDS_D, FMul(XX, YY))), C * C + d * (A * B), 1 + 1)
    BY <2>2, <2>3, <2>5, StandsSum
  <2>7. 1 + 1 = 2
    OBVIOUS
  <2> QED BY <2>2, <2>4, <2>6, <2>7 DEF A, B, C
<1> HIDE DEF l, r, d
<1>6. (l.v = r.v) <=> Congruent((b * b - a * a) * (z * z), (z * z) * (z * z) + d * ((a * a) * (b * b)))
  BY <1>5, StandsEqual
<1>7. (FMul(p.X, p.Y).v = FMul(p.Z, p.T).v) <=> Congruent(a * b, z * u)
  BY <1>4, StandsEqual
<1> QED BY <1>1, <1>6, <1>7 DEF d

\* A completed point of the curve, in extended coordinates, is a point of the curve.
LEMMA CompletedIsPoint ==
  ASSUME NEW cp, NEW w \in Int, NEW s \in Int, NEW c \in Int, NEW g \in Int, NEW f \in Int,
         Completes(cp, w, s, c, g, f), ~Congruent(w, 0), ~Congruent(g, 0), ~Congruent(f, 0),
         Congruent((g * c) * (g * c) - (f * s) * (f * s), (f * g) * (f * g) + EDWARDS_D.v * ((s * c) * (s * c)))
  PROVE  LET r == CompletedToExtended(cp)
         IN  /\ Stands(r.X, (w * w) * (f * s), 1) /\ Stands(r.Y, (w * w) * (g * c), 1)
             /\ Stands(r.Z, (w * w) * (f * g), 1) /\ Stands(r.T, (w * w) * (s * c), 1)
             /\ ~Congruent((w * w) * (f * g), 0) /\ r \in CurvePoints
<1> DEFINE r == CompletedToExtended(cp)
           d == EDWARDS_D.v
           k == w * w   S == f * s   C == g * c   Z == f * g   U == s * c
<1>1. w * s \in Int /\ w * c \in Int /\ w * g \in Int /\ w * f \in Int /\ k \in Int /\ S \in Int /\ C \in Int /\ Z \in Int
      /\ U \in Int /\ d \in Int
  BY ConstantsStand
<1>2. k * S \in Int /\ k * C \in Int /\ k * Z \in Int /\ k * U \in Int
  <2> HIDE DEF k, S, C, Z, U
  <2> QED BY <1>1
<1>3. Stands(r.X, k * S, 1) /\ Stands(r.Y, k * C, 1) /\ Stands(r.Z, k * Z, 1) /\ Stands(r.T, k * U, 1)
  <2>1. Stands(cp.X, w * s, 3) /\ Stands(cp.Y, w * c, 3) /\ Stands(cp.Z, w * g, 3) /\ Stands(cp.T, w * f, 3)
    BY DEF Completes
  <2>2. r.X = FMul(cp.X, cp.T) /\ r.Y = FMul(cp.Y, cp.Z) /\ r.Z = FMul(cp.Z, cp.T) /\ r.T = FMul(cp.X, cp.Y)
    BY DEF CompletedToExtended
  <2>3. Stands(r.X, (w * s) * (w * f), 1) /\ Stands(r.Y, (w * c) * (w * g), 1)
        /\ Stands(r.Z, (w * g) * (w * f), 1) /\ Stands(r.T, (w * s) * (w * c), 1)
    <3> HIDE DEF r
    <3> QED BY <1>1, <2>1, <2>2, StandsProduct
  <2>4. (w * s) * (w * f) = k * S
    BY SMTT(60)
  <2>5. (w * c) * (w * g) = k * C
    BY SMTT(60)
  <2>6. (w * g) * (w * f) = k * Z
    BY SMTT(60)
  <2>7. (w * s) * (w * c) = k * U
    BY SMTT(60)
  <2> HIDE DEF r, k, S, C, Z, U
  <2> QED BY <2>3, <2>4, <2>5, <2>6, <2>7
<1>4. ~Congruent(k * Z, 0)
  <2>1. ~Congruent(k, 0) /\ ~Congruent(Z, 0)
    BY NonzeroProduct
  <2> HIDE DEF k, Z
  <2> QED BY <1>1, <2>1, NonzeroProduct
<1>5. S * C = Z * U
  BY SMTT(60)
<1>6. Congruent(C * C - S * S, Z * Z + d * (U * U))
  OBVIOUS
<1>7. r \in [X : Reduced, Y : Reduced, Z : Reduced, T : Reduced] /\ r.Z.v # 0
  <2>1. r = [X |-> FMul(cp.X, cp.T), Y |-> FMul(cp.Y, cp.Z), Z |-> FMul(cp.Z, cp.T), T |-> FMul(cp.X, cp.Y)]
    BY DEF CompletedToExtended
  <2>2. ASSUME NEW x, NEW y, NEW a, Stands(FMul(x, y), a, 1)
        PROVE  FMul(x, y) \in Reduced
    <3>1. FMul(x, y) = [v |-> FMul(x, y).v, b |-> FMul(x, y).b]
      BY DEF FMul
    <3>2. FMul(x, y).v \in F /\ FMul(x, y).b \in Nat /\ FMul(x, y).b <= 1 * Fresh /\ 1 * Fresh = Fresh
      BY <2>2, Rooms DEF Stands
    <3> QED BY <3>1, <3>2 DEF Reduced
  <2>3. r.X \in Reduced /\ r.Y \in Reduced /\ r.Z \in Reduced /\ r.T \in Reduced
    BY <1>3, <2>1, <2>2
  <2>4. r.Z.v # 0
    <3> SUFFICES ASSUME r.Z.v = 0 PROVE FALSE
      OBVIOUS
    <3> HIDE DEF r, k, Z
    <3>1. Congruent(0, k * Z) /\ 0 \in Int
      BY <1>3 DEF Stands
    <3>2. Congruent(k * Z, 0)
      BY <1>2, <3>1, CongruentSymmetric
    <3> QED BY <1>4, <3>2
  <2> QED BY <2>1, <2>3, <2>4
<1> HIDE DEF r, k, S, C, Z, U
<1>8. IsValid(r)
  <2> DEFINE a == k * S   b == k * C   z == k * Z   u == k * U
  <2>1. a \in Int /\ b \in Int /\ z \in Int /\ u \in Int
    BY <1>2
  <2>2. IsValid(r) <=> /\ Congruent((b * b - a * a) * (z * z), (z * z) * (z * z) + d * ((a * a) * (b * b)))
                       /\ Congruent(a * b, z * u)
    <3> HIDE DEF a, b, z, u
    <3>1. Stands(r.X, a, 1) /\ Stands(r.Y, b, 1) /\ Stands(r.Z, z, 1) /\ Stands(r.T, u, 1)
      BY <1>3 DEF a, b, z, u
    <3> QED BY <2>1, <3>1, ValidEquations
  <2>3. a * b = z * u /\ a * b \in Int /\ z * u \in Int
    <3>1. a * b = (k * k) * (S * C)
      BY <1>1, SMTT(60)
    <3>2. z * u = (k * k) * (Z * U)
      BY <1>1, SMTT(60)
    <3> HIDE DEF a, b, z, u
    <3> QED BY <1>5, <2>1, <3>1, <3>2
  <2> DEFINE K == ((k * k) * (k * k)) * (Z * Z)   L == C * C - S * S   R == Z * Z + d * (U * U)
  <2>4. (b * b - a * a) * (z * z) = K * L
    BY <1>1, SMTT(60)
  <2>5. (z * z) * (z * z) + d * ((a * a) * (b * b)) = K * R
    <3>1. (a * a) * (b * b) = ((k * k) * (k * k)) * ((S * C) * (S * C))
      BY <1>1, SMTT(60)
    <3>2. (S * C) * (S * C) = (Z * U) * (Z * U)
      BY <1>5
    <3>3. (z * z) * (z * z) + d * (((k * k) * (k * k)) * ((Z * U) * (Z * U))) = K * R
      BY <1>1, SMTT(60)
    <3> HIDE DEF a, b, z, u, K, R
    <3> QED BY <3>1, <3>2, <3>3
  <2>6. K \in Int /\ L \in Int /\ R \in Int
    <3>1. k * k \in Int /\ Z * Z \in Int /\ L \in Int /\ U * U \in Int
      BY <1>1
    <3>2. (k * k) * (k * k) \in Int /\ d * (U * U) \in Int
      BY <1>1, <3>1
    <3> QED BY <3>1, <3>2
  <2>7. Congruent(L, R)
    BY <1>6
  <2> HIDE DEF K, L, R, a, b, z, u
  <2>8. Congruent(K * L, K * R)
    BY <2>6, <2>7, CongruentEqual, CongruentProduct
  <2>9. Congruent(a * b, z * u)
    BY <2>3, CongruentEqual
  <2> QED BY <2>2, <2>4, <2>5, <2>8, <2>9
<1>9. r \in CurvePoints
  BY <1>7, <1>8 DEF CurvePoints, ExtendedPoints
<1> QED BY <1>3, <1>4, <1>9 DEF r, k, S, C, Z, U
\* The coordinates of a point of the curve stand for themselves.
LEMMA PointStands ==
  ASSUME NEW p \in CurvePoints
  PROVE  /\ Stands(p.X, p.X.v, 1) /\ Stands(p.Y, p.Y.v, 1) /\ Stands(p.Z, p.Z.v, 1) /\ Stands(p.T, p.T.v, 1)
         /\ p.X.v \in Int /\ p.Y.v \in Int /\ p.Z.v \in Int /\ p.T.v \in Int
         /\ ~Congruent(p.Z.v, 0) /\ IsValid(p)
<1>1. p \in ExtendedPoints /\ IsValid(p) /\ p.Z.v # 0
  BY DEF CurvePoints
<1>2. p.X \in Reduced /\ p.Y \in Reduced /\ p.Z \in Reduced /\ p.T \in Reduced
  BY <1>1 DEF ExtendedPoints
<1>3. ASSUME NEW e \in Reduced
      PROVE  Stands(e, e.v, 1) /\ e.v \in Int /\ e.v \in F
  <2>1. e.v \in F /\ e.b \in Nat /\ e.b <= Fresh /\ 1 * Fresh = Fresh
    BY Rooms DEF Reduced
  <2>2. e.v \in Int
    BY <2>1, Modulus25519
  <2>3. Congruent(e.v, e.v)
    BY <2>2, CongruentEqual
  <2> QED BY <2>1, <2>2, <2>3 DEF Stands
<1>4. p.Z.v \in F /\ 0 \in F
  BY <1>2, <1>3, Modulus25519
<1>5. ~Congruent(p.Z.v, 0)
  BY <1>1, <1>4, OneResidue
<1> QED BY <1>1, <1>2, <1>3, <1>5

\* A point of the curve has affine coordinates.
LEMMA AffineExists ==
  ASSUME NEW p \in CurvePoints
  PROVE  \E x \in F, y \in F : IsAffine(p, x, y)
<1> DEFINE X == p.X.v   Y == p.Y.v   z == p.Z.v
<1>1. X \in Int /\ Y \in Int /\ z \in Int /\ z \in F \ {0}
  <2>1. Stands(p.Z, p.Z.v, 1) /\ p.Z.v # 0
    BY PointStands DEF CurvePoints
  <2> QED BY <2>1, PointStands DEF Stands
<1>2. PICK i \in F : (z * i) % P = 1
  BY <1>1, PrimeAssumption
<1> HIDE DEF X, Y, z
<1>3. i \in Int /\ z * i \in Int /\ 1 \in Int /\ 1 % P = 1
  BY <1>1, Modulus25519
<1>4. Congruent(z * i, 1)
  BY <1>2, <1>3, SameResidue
<1>5. ASSUME NEW a \in Int
      PROVE  (a * i) % P \in F /\ Congruent(a, ((a * i) % P) * z)
  <2> DEFINE x == (a * i) % P
  <2>1. a * i \in Int
    BY <1>3
  <2>2. x \in F /\ x \in Int /\ Congruent(x, a * i)
    BY <2>1, ResidueOf, Modulus25519
  <2> HIDE DEF x
  <2>3. Congruent(z, z) /\ Congruent(a, a)
    BY <1>1, CongruentEqual
  <2>4. Congruent(x * z, (a * i) * z)
    BY <1>1, <2>1, <2>2, <2>3, CongruentProduct
  <2>5. Congruent(a * (z * i), a * 1)
    BY <1>3, <1>4, <2>3, CongruentProduct
  <2>6. (a * i) * z = a * (z * i) /\ a * 1 = a /\ x * z \in Int /\ a * (z * i) \in Int
    BY <1>1, <1>3, <2>2
  <2>7. Congruent(x * z, a)
    BY <2>4, <2>5, <2>6, CongruentTransitive
  <2>8. Congruent(a, x * z)
    BY <2>6, <2>7, CongruentSymmetric
  <2> QED BY <2>2, <2>8 DEF x
<1>6. IsAffine(p, (X * i) % P, (Y * i) % P) /\ (X * i) % P \in F /\ (Y * i) % P \in F
  BY <1>1, <1>5 DEF IsAffine, X, Y, z
<1> QED BY <1>6

\* A point stands for its affine coordinates scaled by z, and they are on the curve.
LEMMA AffineRepresents ==
  ASSUME NEW p \in CurvePoints, NEW x, NEW y, IsAffine(p, x, y)
  PROVE  Represents(p, x, y, p.Z.v) /\ x \in Int /\ y \in Int /\ p.Z.v \in Int
<1> DEFINE z == p.Z.v   u == p.T.v   d == EDWARDS_D.v   a == x * z   b == y * z
<1>1. x \in Int /\ y \in Int /\ z \in Int /\ u \in Int /\ d \in Int /\ a \in Int /\ b \in Int
  <2>1. x \in Int /\ y \in Int /\ z \in Int /\ u \in Int /\ d \in Int
    BY PointStands, ConstantsStand, Modulus25519 DEF IsAffine
  <2> HIDE DEF z, u, d
  <2> QED BY <2>1
<1>2. Stands(p.X, p.X.v, 1) /\ Stands(p.Y, p.Y.v, 1) /\ Stands(p.Z, z, 1) /\ Stands(p.T, u, 1)
      /\ p.X.v \in Int /\ p.Y.v \in Int /\ Congruent(p.X.v, a) /\ Congruent(p.Y.v, b) /\ ~Congruent(z, 0) /\ IsValid(p)
  BY PointStands DEF IsAffine
<1>3. Stands(p.X, a, 1) /\ Stands(p.Y, b, 1)
  <2> HIDE DEF a, b
  <2> QED BY <1>1, <1>2, StandsFor
<1>4. /\ Congruent((b * b - a * a) * (z * z), (z * z) * (z * z) + d * ((a * a) * (b * b)))
      /\ Congruent(a * b, z * u)
  <2> HIDE DEF a, b, z, u
  <2> QED BY <1>1, <1>2, <1>3, ValidEquations DEF d
<1> HIDE DEF z, u, d
<1>5. Congruent(u, (x * y) * z)
  <2>1. a * b = z * ((x * y) * z)
    BY <1>1, SMTT(60)
  <2>2. (x * y) * z \in Int /\ z * u \in Int /\ z * ((x * y) * z) \in Int
    <3>1. x * y \in Int
      BY <1>1
    <3>2. (x * y) * z \in Int
      BY <1>1, <3>1
    <3> QED BY <1>1, <3>2
  <2>3. Congruent(z * u, z * ((x * y) * z))
    BY <1>4, <2>1, <2>2, CongruentSymmetric
  <2> DEFINE t == (x * y) * z
  <2>4. t \in Int /\ Congruent(z * u, z * t)
    BY <2>2, <2>3
  <2> HIDE DEF t
  <2>5. Congruent(u, t)
    BY <1>1, <1>2, <2>4, CancelFactor
  <2> QED BY <2>5 DEF t
<1>6. Stands(p.T, (x * y) * z, 1)
  <2>1. (x * y) * z \in Int
    <3>1. x * y \in Int
      BY <1>1
    <3> QED BY <1>1, <3>1
  <2> QED BY <1>1, <1>2, <1>5, <2>1, StandsFor
<1>7. OnModel(x, y)
  <2> DEFINE k == (z * z) * (z * z)   l == y * y - x * x   r == 1 + d * ((x * y) * (x * y))
  <2>1. (b * b - a * a) * (z * z) = k * l
    BY <1>1, SMTT(60)
  <2>2. (z * z) * (z * z) + d * ((a * a) * (b * b)) = k * r
    BY <1>1, SMTT(60)
  <2>3. z * z \in Int /\ k \in Int /\ l \in Int /\ r \in Int
    <3>1. z * z \in Int /\ l \in Int /\ x * y \in Int
      BY <1>1
    <3>2. (x * y) * (x * y) \in Int /\ k \in Int
      BY <3>1
    <3>3. d * ((x * y) * (x * y)) \in Int
      BY <1>1, <3>2
    <3> QED BY <3>1, <3>2, <3>3
  <2>4. ~Congruent(z * z, 0)
    BY <1>1, <1>2, NonzeroProduct
  <2>5. ~Congruent(k, 0)
    <3> DEFINE zz == z * z
    <3>1. zz \in Int /\ ~Congruent(zz, 0)
      BY <2>3, <2>4
    <3> HIDE DEF zz
    <3>2. ~Congruent(zz * zz, 0)
      BY <3>1, NonzeroProduct
    <3> QED BY <3>2 DEF zz
  <2>6. Congruent(k * l, k * r)
    BY <1>4, <2>1, <2>2
  <2> HIDE DEF k, l, r
  <2>7. Congruent(l, r)
    BY <2>3, <2>5, <2>6, CancelFactor
  <2> QED BY <2>7 DEF OnModel, l, r, d
<1> QED BY <1>1, <1>2, <1>3, <1>6, <1>7 DEF Represents, z
-----------------------------------------------------------------------------
(* The formulas.                                                           *)

\* The sums and differences both additions end with
LEMMA CompletedStands ==
  ASSUME NEW PP, NEW MM, NEW ZZ2, NEW TT2d, NEW a \in Int, NEW b \in Int, NEW z \in Int, NEW u \in Int,
         Stands(PP, a, 1), Stands(MM, b, 1), Stands(ZZ2, z, 2), Stands(TT2d, u, 1)
  PROVE  /\ LET cp == CompletedSum(PP, MM, ZZ2, TT2d)
            IN  Stands(cp.X, a - b, 3) /\ Stands(cp.Y, a + b, 3) /\ Stands(cp.Z, z + u, 3) /\ Stands(cp.T, z - u, 3)
         /\ LET cp == CompletedDifference(PP, MM, ZZ2, TT2d)
            IN  Stands(cp.X, a - b, 3) /\ Stands(cp.Y, a + b, 3) /\ Stands(cp.Z, z - u, 3) /\ Stands(cp.T, z + u, 3)
<1>1. a - b \in Int /\ a + b \in Int /\ z - u \in Int /\ z + u \in Int /\ 1 + 1 = 2 /\ 2 + 1 = 3
  OBVIOUS
<1>2. Stands(FSub(PP, MM), a - b, 3)
  <2>1. Stands(FSub(PP, MM), a - b, 1)
    BY StandsDifference
  <2> QED BY <2>1, <1>1, StandsWider
<1>3. Stands(FAdd(PP, MM), a + b, 3)
  <2>1. Stands(FAdd(PP, MM), a + b, 1 + 1)
    BY StandsSum
  <2> QED BY <2>1, <1>1, StandsWider
<1>4. Stands(FAdd(ZZ2, TT2d), z + u, 3)
  <2>1. Stands(FAdd(ZZ2, TT2d), z + u, 2 + 1)
    BY StandsSum
  <2> QED BY <2>1, <1>1
<1>5. Stands(FSub(ZZ2, TT2d), z - u, 3)
  <2>1. Stands(FSub(ZZ2, TT2d), z - u, 1)
    BY StandsDifference
  <2> QED BY <2>1, <1>1, StandsWider
<1> QED BY <1>2, <1>3, <1>4, <1>5 DEF CompletedSum, CompletedDifference

\* The halves of a Niels point and of a point that meets one
LEMMA HalvesStand ==
  ASSUME NEW x, NEW y, NEW a \in Int, NEW b \in Int, Stands(x, a, 1), Stands(y, b, 1)
  PROVE  Stands(FAdd(y, x), b + a, 2) /\ Stands(FSub(y, x), b - a, 1) /\ b + a \in Int /\ b - a \in Int
<1>1. Stands(FAdd(y, x), b + a, 1 + 1) /\ 1 + 1 = 2
  BY StandsSum
<1>2. Stands(FSub(y, x), b - a, 1)
  BY StandsDifference
<1> QED BY <1>1, <1>2

\* The products of the halves with the other's, the doubled product of the z and that of the t
Halves(x1, y1, z1, x2, y2, z2, pp, mm, pm, mp, w, u) ==
  /\ pp = (y1 * z1 + x1 * z1) * (y2 * z2 + x2 * z2) /\ mm = (y1 * z1 - x1 * z1) * (y2 * z2 - x2 * z2)
  /\ pm = (y1 * z1 + x1 * z1) * (y2 * z2 - x2 * z2) /\ mp = (y1 * z1 - x1 * z1) * (y2 * z2 + x2 * z2)
  /\ w = 2 * (z1 * z2) /\ u = ((x1 * y1) * z1) * (((x2 * y2) * z2) * (2 * EDWARDS_D.v))

\* Their sums and differences, with the scaling moved out, are those of the addition law: the
\* arithmetic of the eight additions of curve_models/mod.rs.
LEMMA HalvesExact ==
  ASSUME NEW x1 \in Int, NEW y1 \in Int, NEW z1 \in Int, NEW x2 \in Int, NEW y2 \in Int, NEW z2 \in Int,
         NEW pp, NEW mm, NEW pm, NEW mp, NEW w, NEW u, Halves(x1, y1, z1, x2, y2, z2, pp, mm, pm, mp, w, u)
  PROVE  /\ pp - mm = w * SumX(x1, y1, x2, y2) /\ pp + mm = w * SumY(x1, y1, x2, y2)
         /\ pm - mp = w * SumX(x1, y1, -x2, y2) /\ pm + mp = w * SumY(x1, y1, -x2, y2)
         /\ w + u = w * (1 + Cross(x1, y1, x2, y2)) /\ w - u = w * (1 - Cross(x1, y1, x2, y2))
         /\ w - u = w * (1 + Cross(x1, y1, -x2, y2)) /\ w + u = w * (1 - Cross(x1, y1, -x2, y2))
<1> DEFINE d == EDWARDS_D.v
           v == 2 * (z1 * z2)
           t == ((x1 * y1) * z1) * (((x2 * y2) * z2) * (2 * d))
           l == d * ((x1 * y1) * (x2 * y2))
<1>1. d \in Int
  BY ConstantsStand
<1>2. (y1 * z1 + x1 * z1) * (y2 * z2 + x2 * z2) - (y1 * z1 - x1 * z1) * (y2 * z2 - x2 * z2) = v * (x1 * y2 + y1 * x2)
  BY SMTT(60)
<1>3. (y1 * z1 + x1 * z1) * (y2 * z2 + x2 * z2) + (y1 * z1 - x1 * z1) * (y2 * z2 - x2 * z2) = v * (y1 * y2 + x1 * x2)
  BY SMTT(60)
<1>4. (y1 * z1 + x1 * z1) * (y2 * z2 - x2 * z2) - (y1 * z1 - x1 * z1) * (y2 * z2 + x2 * z2) = v * (x1 * y2 + y1 * (-x2))
  BY SMTT(60)
<1>5. (y1 * z1 + x1 * z1) * (y2 * z2 - x2 * z2) + (y1 * z1 - x1 * z1) * (y2 * z2 + x2 * z2) = v * (y1 * y2 + x1 * (-x2))
  BY SMTT(60)
<1>6. t = v * l
  <2> HIDE DEF d
  <2> QED BY <1>1, SMTT(60)
<1>7. d * ((x1 * y1) * ((-x2) * y2)) = -l
  <2> HIDE DEF d
  <2> QED BY <1>1, SMTT(60)
<1>8. v \in Int /\ l \in Int
  <2>1. x1 * y1 \in Int /\ x2 * y2 \in Int /\ z1 * z2 \in Int
    OBVIOUS
  <2> HIDE DEF d
  <2> QED BY <2>1, <1>1
<1>9. v + v * l = v * (1 + l) /\ v - v * l = v * (1 - l) /\ v - v * l = v * (1 + (-l)) /\ v + v * l = v * (1 - (-l))
  <2> HIDE DEF v, l
  <2> QED BY <1>8
<1>10. v + t = v * (1 + l) /\ v - t = v * (1 - l) /\ v - t = v * (1 + (-l)) /\ v + t = v * (1 - (-l))
  <2> HIDE DEF v, l, t
  <2> QED BY <1>6, <1>9
<1>11. Cross(x1, y1, x2, y2) = l /\ Cross(x1, y1, -x2, y2) = -l
  BY <1>7 DEF Cross
<1> HIDE DEF l
<1>12. /\ pp - mm = v * SumX(x1, y1, x2, y2) /\ pp + mm = v * SumY(x1, y1, x2, y2)
       /\ pm - mp = v * SumX(x1, y1, -x2, y2) /\ pm + mp = v * SumY(x1, y1, -x2, y2)
  BY <1>2, <1>3, <1>4, <1>5, Zenon DEF SumX, SumY, Halves
<1>13. w = v /\ u = t
  BY DEF Halves
<1> HIDE DEF v, t
<1> QED BY <1>10, <1>11, <1>12, <1>13

\* self + and - a projective Niels point, on representatives
LEMMA NielsCompletes ==
  ASSUME NEW p, NEW q, NEW x1 \in Int, NEW y1 \in Int, NEW z1 \in Int, NEW x2 \in Int, NEW y2 \in Int, NEW z2 \in Int,
         Represents(p, x1, y1, z1), Represents(q, x2, y2, z2)
  PROVE  LET w == 2 * (z1 * z2)
             n == ToProjectiveNiels(q)
         IN  /\ Completes(AddProjectiveNiels(p, n), w, SumX(x1, y1, x2, y2), SumY(x1, y1, x2, y2),
                          1 + Cross(x1, y1, x2, y2), 1 - Cross(x1, y1, x2, y2))
             /\ Completes(SubProjectiveNiels(p, n), w, SumX(x1, y1, -x2, y2), SumY(x1, y1, -x2, y2),
                          1 + Cross(x1, y1, -x2, y2), 1 - Cross(x1, y1, -x2, y2))
<1> DEFINE d == EDWARDS_D.v
           n == ToProjectiveNiels(q)
           X1 == x1 * z1   Y1 == y1 * z1   T1 == (x1 * y1) * z1
           X2 == x2 * z2   Y2 == y2 * z2   T2 == (x2 * y2) * z2
           pp == (Y1 + X1) * (Y2 + X2)   mm == (Y1 - X1) * (Y2 - X2)
           pm == (Y1 + X1) * (Y2 - X2)   mp == (Y1 - X1) * (Y2 + X2)
           w == 2 * (z1 * z2)
           u == T1 * (T2 * (2 * d))
<1>1. d \in Int /\ X1 \in Int /\ Y1 \in Int /\ T1 \in Int /\ X2 \in Int /\ Y2 \in Int /\ T2 \in Int /\ z1 * z2 \in Int /\ 2 * d \in Int
  <2>1. x1 * y1 \in Int /\ x2 * y2 \in Int /\ d \in Int
    BY ConstantsStand
  <2> QED BY <2>1
<1>2. /\ Stands(p.X, X1, 1) /\ Stands(p.Y, Y1, 1) /\ Stands(p.Z, z1, 1) /\ Stands(p.T, T1, 1)
      /\ Stands(q.X, X2, 1) /\ Stands(q.Y, Y2, 1) /\ Stands(q.Z, z2, 1) /\ Stands(q.T, T2, 1)
      /\ Stands(EDWARDS_D2, 2 * d, 1)
  BY ConstantsStand DEF Represents
<1>3. n.Y_plus_X = FAdd(q.Y, q.X) /\ n.Y_minus_X = FSub(q.Y, q.X) /\ n.Z = q.Z /\ n.T2d = FMul(q.T, EDWARDS_D2)
  BY DEF ToProjectiveNiels
<1> HIDE DEF X1, Y1, T1, X2, Y2, T2, d, n
<1>4. /\ Stands(FAdd(p.Y, p.X), Y1 + X1, 2) /\ Stands(FSub(p.Y, p.X), Y1 - X1, 1) /\ Y1 + X1 \in Int /\ Y1 - X1 \in Int
      /\ Stands(n.Y_plus_X, Y2 + X2, 2) /\ Stands(n.Y_minus_X, Y2 - X2, 1) /\ Y2 + X2 \in Int /\ Y2 - X2 \in Int
  BY <1>1, <1>2, <1>3, HalvesStand
<1>5. /\ Stands(FMul(FAdd(p.Y, p.X), n.Y_plus_X), pp, 1)
      /\ Stands(FMul(FSub(p.Y, p.X), n.Y_minus_X), mm, 1)
      /\ Stands(FMul(FAdd(p.Y, p.X), n.Y_minus_X), pm, 1)
      /\ Stands(FMul(FSub(p.Y, p.X), n.Y_plus_X), mp, 1)
  <2> DEFINE a1 == Y1 + X1   b1 == Y1 - X1   a2 == Y2 + X2   b2 == Y2 - X2
  <2>1. /\ Stands(FAdd(p.Y, p.X), a1, 2) /\ Stands(FSub(p.Y, p.X), b1, 1) /\ a1 \in Int /\ b1 \in Int
        /\ Stands(n.Y_plus_X, a2, 2) /\ Stands(n.Y_minus_X, b2, 1) /\ a2 \in Int /\ b2 \in Int
    BY <1>4
  <2> HIDE DEF a1, b1, a2, b2
  <2>2. Stands(FMul(FAdd(p.Y, p.X), n.Y_plus_X), a1 * a2, 1)
    BY <2>1, StandsProduct
  <2>3. Stands(FMul(FSub(p.Y, p.X), n.Y_minus_X), b1 * b2, 1)
    BY <2>1, StandsProduct
  <2>4. Stands(FMul(FAdd(p.Y, p.X), n.Y_minus_X), a1 * b2, 1)
    BY <2>1, StandsProduct
  <2>5. Stands(FMul(FSub(p.Y, p.X), n.Y_plus_X), b1 * a2, 1)
    BY <2>1, StandsProduct
  <2> QED BY <2>2, <2>3, <2>4, <2>5 DEF a1, b1, a2, b2
<1>6. Stands(FTwice(FMul(p.Z, n.Z)), w, 2)
  <2>1. Stands(FMul(p.Z, n.Z), z1 * z2, 1)
    BY <1>2, <1>3, StandsProduct
  <2> QED BY <2>1, <1>1, StandsTwice
<1>7. Stands(FMul(p.T, n.T2d), u, 1)
  <2> DEFINE k == 2 * d
  <2>1. k \in Int /\ Stands(EDWARDS_D2, k, 1)
    BY <1>1, <1>2
  <2> HIDE DEF k
  <2>2. Stands(FMul(q.T, EDWARDS_D2), T2 * k, 1) /\ T2 * k \in Int
    <3>1. Stands(FMul(q.T, EDWARDS_D2), T2 * k, 1)
      BY <1>1, <1>2, <2>1, StandsProduct
    <3> QED BY <3>1, <1>1, <2>1
  <2>3. Stands(n.T2d, T2 * k, 1)
    BY <1>3, <2>2
  <2>4. Stands(FMul(p.T, n.T2d), T1 * (T2 * k), 1)
    BY <1>1, <1>2, <2>2, <2>3, StandsProduct
  <2> QED BY <2>4 DEF k
<1>8. pp \in Int /\ mm \in Int /\ pm \in Int /\ mp \in Int /\ w \in Int /\ u \in Int
  <2>1. T2 * (2 * d) \in Int
    BY <1>1
  <2> QED BY <1>1, <1>4, <2>1
<1>9. /\ pp - mm = w * SumX(x1, y1, x2, y2) /\ pp + mm = w * SumY(x1, y1, x2, y2)
      /\ pm - mp = w * SumX(x1, y1, -x2, y2) /\ pm + mp = w * SumY(x1, y1, -x2, y2)
      /\ w + u = w * (1 + Cross(x1, y1, x2, y2)) /\ w - u = w * (1 - Cross(x1, y1, x2, y2))
      /\ w - u = w * (1 + Cross(x1, y1, -x2, y2)) /\ w + u = w * (1 - Cross(x1, y1, -x2, y2))
  <2>1. Halves(x1, y1, z1, x2, y2, z2, pp, mm, pm, mp, w, u)
    BY Zenon DEF Halves, X1, Y1, T1, X2, Y2, T2, d
  <2> HIDE DEF pp, mm, pm, mp, w, u
  <2> QED BY <2>1, HalvesExact
<1> DEFINE PP == FMul(FAdd(p.Y, p.X), n.Y_plus_X)   MM == FMul(FSub(p.Y, p.X), n.Y_minus_X)
           PM == FMul(FAdd(p.Y, p.X), n.Y_minus_X)  MP == FMul(FSub(p.Y, p.X), n.Y_plus_X)
           ZZ2 == FTwice(FMul(p.Z, n.Z))            TT2d == FMul(p.T, n.T2d)
<1>10. AddProjectiveNiels(p, n) = CompletedSum(PP, MM, ZZ2, TT2d) /\ SubProjectiveNiels(p, n) = CompletedDifference(PM, MP, ZZ2, TT2d)
  BY DEF AddProjectiveNiels, SubProjectiveNiels
<1> HIDE DEF pp, mm, pm, mp, w, u, PP, MM, PM, MP, ZZ2, TT2d
<1>11. Stands(PP, pp, 1) /\ Stands(MM, mm, 1) /\ Stands(PM, pm, 1) /\ Stands(MP, mp, 1) /\ Stands(ZZ2, w, 2) /\ Stands(TT2d, u, 1)
  BY <1>5, <1>6, <1>7 DEF PP, MM, PM, MP, ZZ2, TT2d, w, u, pp, mm, pm, mp
<1>12. LET cp == AddProjectiveNiels(p, n)
       IN  Stands(cp.X, pp - mm, 3) /\ Stands(cp.Y, pp + mm, 3) /\ Stands(cp.Z, w + u, 3) /\ Stands(cp.T, w - u, 3)
  BY <1>8, <1>10, <1>11, CompletedStands
<1>13. LET cp == SubProjectiveNiels(p, n)
       IN  Stands(cp.X, pm - mp, 3) /\ Stands(cp.Y, pm + mp, 3) /\ Stands(cp.Z, w - u, 3) /\ Stands(cp.T, w + u, 3)
  BY <1>8, <1>10, <1>11, CompletedStands
<1>14. Completes(AddProjectiveNiels(p, n), w, SumX(x1, y1, x2, y2), SumY(x1, y1, x2, y2),
                 1 + Cross(x1, y1, x2, y2), 1 - Cross(x1, y1, x2, y2))
  BY <1>9, <1>12, Zenon DEF Completes
<1>15. Completes(SubProjectiveNiels(p, n), w, SumX(x1, y1, -x2, y2), SumY(x1, y1, -x2, y2),
                 1 + Cross(x1, y1, -x2, y2), 1 - Cross(x1, y1, -x2, y2))
  BY <1>9, <1>13, Zenon DEF Completes
<1> QED BY <1>14, <1>15 DEF n, w
\* self + an affine Niels point of the affine point (x2, y2)
LEMMA AffineNielsCompletes ==
  ASSUME NEW p, NEW x, NEW y, NEW x1 \in Int, NEW y1 \in Int, NEW z1 \in Int, NEW x2 \in Int, NEW y2 \in Int,
         Represents(p, x1, y1, z1), Stands(x, x2, 1), Stands(y, y2, 1)
  PROVE  LET w == 2 * z1
             n == AffineNielsOf(x, y)
         IN  /\ Completes(AddAffineNiels(p, n), w, SumX(x1, y1, x2, y2), SumY(x1, y1, x2, y2),
                          1 + Cross(x1, y1, x2, y2), 1 - Cross(x1, y1, x2, y2))
             /\ Completes(SubAffineNiels(p, n), w, SumX(x1, y1, -x2, y2), SumY(x1, y1, -x2, y2),
                          1 + Cross(x1, y1, -x2, y2), 1 - Cross(x1, y1, -x2, y2))
<1> DEFINE d == EDWARDS_D.v
           n == AffineNielsOf(x, y)
           X1 == x1 * z1   Y1 == y1 * z1   T1 == (x1 * y1) * z1   t2 == x2 * y2
           pp == (Y1 + X1) * (y2 + x2)   mm == (Y1 - X1) * (y2 - x2)
           pm == (Y1 + X1) * (y2 - x2)   mp == (Y1 - X1) * (y2 + x2)
           w == 2 * z1
           u == T1 * (t2 * (2 * d))
<1>1. d \in Int /\ X1 \in Int /\ Y1 \in Int /\ T1 \in Int /\ t2 \in Int /\ 2 * d \in Int
  <2>1. x1 * y1 \in Int /\ d \in Int
    BY ConstantsStand
  <2> QED BY <2>1
<1>2. /\ Stands(p.X, X1, 1) /\ Stands(p.Y, Y1, 1) /\ Stands(p.Z, z1, 1) /\ Stands(p.T, T1, 1)
      /\ Stands(EDWARDS_D2, 2 * d, 1) /\ Stands(FMul(x, y), t2, 1)
  BY ConstantsStand, StandsProduct DEF Represents
<1>3. n.y_plus_x = FAdd(y, x) /\ n.y_minus_x = FSub(y, x) /\ n.xy2d = FMul(FMul(x, y), EDWARDS_D2)
  BY DEF AffineNielsOf
<1>9. /\ pp - mm = w * SumX(x1, y1, x2, y2) /\ pp + mm = w * SumY(x1, y1, x2, y2)
      /\ pm - mp = w * SumX(x1, y1, -x2, y2) /\ pm + mp = w * SumY(x1, y1, -x2, y2)
      /\ w + u = w * (1 + Cross(x1, y1, x2, y2)) /\ w - u = w * (1 - Cross(x1, y1, x2, y2))
      /\ w - u = w * (1 + Cross(x1, y1, -x2, y2)) /\ w + u = w * (1 - Cross(x1, y1, -x2, y2))
  <2>1. x2 * 1 = x2 /\ y2 * 1 = y2 /\ (x2 * y2) * 1 = x2 * y2 /\ z1 * 1 = z1 /\ 1 \in Int
    OBVIOUS
  <2>2. Halves(x1, y1, z1, x2, y2, 1, pp, mm, pm, mp, w, u)
    BY <2>1, Zenon DEF Halves
  <2> HIDE DEF pp, mm, pm, mp, w, u
  <2> QED BY <2>1, <2>2, HalvesExact
<1> HIDE DEF X1, Y1, T1, t2, d, n
<1>4. /\ Stands(FAdd(p.Y, p.X), Y1 + X1, 2) /\ Stands(FSub(p.Y, p.X), Y1 - X1, 1) /\ Y1 + X1 \in Int /\ Y1 - X1 \in Int
      /\ Stands(n.y_plus_x, y2 + x2, 2) /\ Stands(n.y_minus_x, y2 - x2, 1) /\ y2 + x2 \in Int /\ y2 - x2 \in Int
  BY <1>1, <1>2, <1>3, HalvesStand
<1>5. /\ Stands(FMul(FAdd(p.Y, p.X), n.y_plus_x), pp, 1)
      /\ Stands(FMul(FSub(p.Y, p.X), n.y_minus_x), mm, 1)
      /\ Stands(FMul(FAdd(p.Y, p.X), n.y_minus_x), pm, 1)
      /\ Stands(FMul(FSub(p.Y, p.X), n.y_plus_x), mp, 1)
  <2> DEFINE a1 == Y1 + X1   b1 == Y1 - X1   a2 == y2 + x2   b2 == y2 - x2
  <2>1. /\ Stands(FAdd(p.Y, p.X), a1, 2) /\ Stands(FSub(p.Y, p.X), b1, 1) /\ a1 \in Int /\ b1 \in Int
        /\ Stands(n.y_plus_x, a2, 2) /\ Stands(n.y_minus_x, b2, 1) /\ a2 \in Int /\ b2 \in Int
    BY <1>4
  <2> HIDE DEF a1, b1, a2, b2
  <2>2. Stands(FMul(FAdd(p.Y, p.X), n.y_plus_x), a1 * a2, 1)
    BY <2>1, StandsProduct
  <2>3. Stands(FMul(FSub(p.Y, p.X), n.y_minus_x), b1 * b2, 1)
    BY <2>1, StandsProduct
  <2>4. Stands(FMul(FAdd(p.Y, p.X), n.y_minus_x), a1 * b2, 1)
    BY <2>1, StandsProduct
  <2>5. Stands(FMul(FSub(p.Y, p.X), n.y_plus_x), b1 * a2, 1)
    BY <2>1, StandsProduct
  <2> QED BY <2>2, <2>3, <2>4, <2>5 DEF a1, b1, a2, b2
<1>6. Stands(FTwice(p.Z), w, 2)
  BY <1>2, StandsTwice
<1>7. Stands(FMul(p.T, n.xy2d), u, 1)
  <2> DEFINE k == 2 * d
  <2>1. k \in Int /\ Stands(EDWARDS_D2, k, 1)
    BY <1>1, <1>2
  <2> HIDE DEF k
  <2>2. Stands(FMul(FMul(x, y), EDWARDS_D2), t2 * k, 1) /\ t2 * k \in Int
    <3>1. Stands(FMul(FMul(x, y), EDWARDS_D2), t2 * k, 1)
      BY <1>1, <1>2, <2>1, StandsProduct
    <3> QED BY <3>1, <1>1, <2>1
  <2>3. Stands(n.xy2d, t2 * k, 1)
    BY <1>3, <2>2
  <2>4. Stands(FMul(p.T, n.xy2d), T1 * (t2 * k), 1)
    BY <1>1, <1>2, <2>2, <2>3, StandsProduct
  <2> QED BY <2>4 DEF k
<1>8. pp \in Int /\ mm \in Int /\ pm \in Int /\ mp \in Int /\ w \in Int /\ u \in Int
  <2>1. t2 * (2 * d) \in Int
    BY <1>1
  <2> QED BY <1>1, <1>4, <2>1
<1> DEFINE PP == FMul(FAdd(p.Y, p.X), n.y_plus_x)   MM == FMul(FSub(p.Y, p.X), n.y_minus_x)
           PM == FMul(FAdd(p.Y, p.X), n.y_minus_x)  MP == FMul(FSub(p.Y, p.X), n.y_plus_x)
           ZZ2 == FTwice(p.Z)                       TT2d == FMul(p.T, n.xy2d)
<1>10. AddAffineNiels(p, n) = CompletedSum(PP, MM, ZZ2, TT2d) /\ SubAffineNiels(p, n) = CompletedDifference(PM, MP, ZZ2, TT2d)
  BY DEF AddAffineNiels, SubAffineNiels
<1> HIDE DEF pp, mm, pm, mp, w, u, PP, MM, PM, MP, ZZ2, TT2d
<1>11. Stands(PP, pp, 1) /\ Stands(MM, mm, 1) /\ Stands(PM, pm, 1) /\ Stands(MP, mp, 1) /\ Stands(ZZ2, w, 2) /\ Stands(TT2d, u, 1)
  BY <1>5, <1>6, <1>7 DEF PP, MM, PM, MP, ZZ2, TT2d, w, u, pp, mm, pm, mp
<1>12. LET cp == AddAffineNiels(p, n)
       IN  Stands(cp.X, pp - mm, 3) /\ Stands(cp.Y, pp + mm, 3) /\ Stands(cp.Z, w + u, 3) /\ Stands(cp.T, w - u, 3)
  BY <1>8, <1>10, <1>11, CompletedStands
<1>13. LET cp == SubAffineNiels(p, n)
       IN  Stands(cp.X, pm - mp, 3) /\ Stands(cp.Y, pm + mp, 3) /\ Stands(cp.Z, w - u, 3) /\ Stands(cp.T, w + u, 3)
  BY <1>8, <1>10, <1>11, CompletedStands
<1>14. Completes(AddAffineNiels(p, n), w, SumX(x1, y1, x2, y2), SumY(x1, y1, x2, y2),
                 1 + Cross(x1, y1, x2, y2), 1 - Cross(x1, y1, x2, y2))
  BY <1>9, <1>12, Zenon DEF Completes
<1>15. Completes(SubAffineNiels(p, n), w, SumX(x1, y1, -x2, y2), SumY(x1, y1, -x2, y2),
                 1 + Cross(x1, y1, -x2, y2), 1 - Cross(x1, y1, -x2, y2))
  BY <1>9, <1>13, Zenon DEF Completes
<1> QED BY <1>14, <1>15 DEF n, w

\* Doubling, on a representative: on the curve, y^2 - x^2 is one plus the cross term.
LEMMA DoubleCompletes ==
  ASSUME NEW p, NEW x \in Int, NEW y \in Int, NEW z \in Int,
         Stands(p.X, x * z, 1), Stands(p.Y, y * z, 1), Stands(p.Z, z, 1), OnModel(x, y)
  PROVE  Completes(ProjectiveDouble(p), z * z, SumX(x, y, x, y), SumY(x, y, x, y),
                   1 + Cross(x, y, x, y), 1 - Cross(x, y, x, y))
<1> DEFINE X == x * z   Y == y * z   w == z * z   e == y * y - x * x   l == Cross(x, y, x, y)
           XX == FMul(p.X, p.X)   YY == FMul(p.Y, p.Y)   cp == ProjectiveDouble(p)
           XY == FAdd(p.X, p.Y)
<1>1. X \in Int /\ Y \in Int /\ w \in Int /\ e \in Int /\ l \in Int /\ X * X \in Int /\ Y * Y \in Int /\ X + Y \in Int
  <2>1. X \in Int /\ Y \in Int /\ w \in Int /\ e \in Int /\ l \in Int
    BY SumsAreIntegers
  <2> QED BY <2>1
<1>2. Congruent(e, 1 + l)
  BY DEF OnModel, Cross
<1>3. /\ cp.X = FSub(FMul(XY, XY), FAdd(YY, XX)) /\ cp.Y = FAdd(YY, XX)
      /\ cp.Z = FSub(YY, XX) /\ cp.T = FSub(FTwice(FMul(p.Z, p.Z)), FSub(YY, XX))
  BY DEF ProjectiveDouble, DoubleFrom, FSquare, FSquare2
<1>4. (X + Y) * (X + Y) - (Y * Y + X * X) = w * SumX(x, y, x, y)
  <2>1. (X + Y) * (X + Y) - (Y * Y + X * X) = w * (x * y + y * x)
    BY SMTT(60)
  <2> QED BY <2>1 DEF SumX
<1>5. Y * Y + X * X = w * SumY(x, y, x, y)
  <2>1. Y * Y + X * X = w * (y * y + x * x)
    BY SMTT(60)
  <2> QED BY <2>1 DEF SumY
<1>6. Y * Y - X * X = w * e
  BY SMTT(60)
<1> HIDE DEF X, Y, w, e, l, XX, YY, XY, cp
<1>7. Stands(p.X, X, 1) /\ Stands(p.Y, Y, 1) /\ Stands(p.Z, z, 1)
  BY DEF X, Y
<1>8. Stands(XX, X * X, 1) /\ Stands(YY, Y * Y, 1) /\ Stands(FMul(p.Z, p.Z), w, 1)
  BY <1>1, <1>7, StandsProduct DEF XX, YY, w
<1>9. Stands(FMul(XY, XY), (X + Y) * (X + Y), 1)
  <2> DEFINE k == X + Y
  <2>1. Stands(XY, k, 1 + 1) /\ 1 + 1 = 2 /\ k \in Int
    BY <1>1, <1>7, StandsSum DEF XY
  <2> HIDE DEF k
  <2>2. Stands(FMul(XY, XY), k * k, 1)
    BY <2>1, StandsProduct
  <2> QED BY <2>2 DEF k
<1>10. Stands(cp.Y, Y * Y + X * X, 2) /\ Stands(cp.Z, Y * Y - X * X, 1)
  <2> DEFINE a == Y * Y   b == X * X
  <2>1. Stands(XX, b, 1) /\ Stands(YY, a, 1) /\ a \in Int /\ b \in Int
    BY <1>1, <1>8
  <2> HIDE DEF a, b
  <2>2. Stands(FAdd(YY, XX), a + b, 2)
    BY <2>1, StandsPair
  <2>3. Stands(FSub(YY, XX), a - b, 1)
    BY <2>1, StandsDifference
  <2> QED BY <1>3, <2>2, <2>3 DEF a, b
<1>11. Stands(cp.X, (X + Y) * (X + Y) - (Y * Y + X * X), 1)
  <2> DEFINE a == (X + Y) * (X + Y)   b == Y * Y + X * X
  <2>1. a \in Int /\ b \in Int /\ Stands(FMul(XY, XY), a, 1) /\ Stands(FAdd(YY, XX), b, 2)
    BY <1>1, <1>3, <1>9, <1>10
  <2> HIDE DEF a, b
  <2>2. Stands(FSub(FMul(XY, XY), FAdd(YY, XX)), a - b, 1)
    BY <2>1, StandsDifference
  <2> QED BY <1>3, <2>2 DEF a, b
<1>12. Stands(cp.Z, w * (1 + l), 1) /\ Stands(cp.T, w * (1 - l), 1)
  <2>1. w * e \in Int /\ w * (1 + l) \in Int /\ w * (1 - l) \in Int /\ 1 + l \in Int /\ 2 * w \in Int /\ Congruent(w, w)
    BY <1>1, CongruentEqual
  <2>2. Congruent(w * e, w * (1 + l))
    <3> DEFINE k == 1 + l
    <3>1. k \in Int /\ Congruent(e, k)
      BY <1>2, <2>1
    <3> HIDE DEF k
    <3>2. Congruent(w * e, w * k)
      BY <1>1, <2>1, <3>1, CongruentProduct
    <3> QED BY <3>2 DEF k
  <2> DEFINE a == w * e   b == w * (1 + l)   c == 2 * w
  <2>3. Stands(cp.Z, a, 1) /\ a \in Int /\ b \in Int /\ c \in Int /\ Congruent(a, b) /\ b = w * (1 + l) /\ c - b = w * (1 - l)
    <3>1. 2 * w - w * (1 + l) = w * (1 - l)
      BY <1>1
    <3> QED BY <1>6, <1>10, <2>1, <2>2, <3>1
  <2>4. Stands(FTwice(FMul(p.Z, p.Z)), c, 2)
    BY <1>1, <1>8, StandsTwice
  <2> HIDE DEF a, b, c
  <2>5. Stands(cp.Z, b, 1)
    BY <2>3, StandsFor
  <2>6. Stands(cp.T, c - b, 1)
    <3>1. cp.T = FSub(FTwice(FMul(p.Z, p.Z)), cp.Z)
      BY <1>3
    <3> QED BY <3>1, <2>3, <2>4, <2>5, StandsDifference
  <2> QED BY <2>3, <2>5, <2>6
<1>13. /\ Stands(cp.X, w * SumX(x, y, x, y), 1) /\ Stands(cp.Y, w * SumY(x, y, x, y), 2)
  BY <1>4, <1>5, <1>10, <1>11
<1>14. w * SumX(x, y, x, y) \in Int /\ w * SumY(x, y, x, y) \in Int /\ w * (1 + l) \in Int /\ w * (1 - l) \in Int
  <2>1. SumX(x, y, x, y) \in Int /\ SumY(x, y, x, y) \in Int
    BY SumsAreIntegers
  <2> QED BY <1>1, <2>1
<1>15. /\ Stands(cp.X, w * SumX(x, y, x, y), 3) /\ Stands(cp.Y, w * SumY(x, y, x, y), 3)
       /\ Stands(cp.Z, w * (1 + l), 3) /\ Stands(cp.T, w * (1 - l), 3)
  BY <1>12, <1>13, <1>14, StandsWider
<1> QED BY <1>15 DEF Completes, cp, w, l
-----------------------------------------------------------------------------
(* The addition law, complete: no pair of points is excepted.              *)

\* r's coordinates are the sum's: each times its denominator is congruent to its numerator.
Lawful(r, x1, y1, x2, y2) ==
  \A x, y : IsAffine(r, x, y) => /\ Congruent(x * (1 + Cross(x1, y1, x2, y2)), SumX(x1, y1, x2, y2))
                                 /\ Congruent(y * (1 - Cross(x1, y1, x2, y2)), SumY(x1, y1, x2, y2))

\* The denominators of the sum of two points of the curve are never zero: what lets
\* curve_models/mod.rs add without a case distinction.
LEMMA DenominatorsNonzero ==
  ASSUME NEW x1 \in Int, NEW y1 \in Int, NEW x2 \in Int, NEW y2 \in Int, OnModel(x1, y1), OnModel(x2, y2)
  PROVE  ~Congruent(1 + Cross(x1, y1, x2, y2), 0) /\ ~Congruent(1 - Cross(x1, y1, x2, y2), 0)
<1> DEFINE l == Cross(x1, y1, x2, y2)
<1>1. l \in Int
  BY SumsAreIntegers
<1>2. ~Congruent(l, -1) /\ ~Congruent(l, 1)
  <2>1. -1 \in {-1, 1} /\ 1 \in {-1, 1}
    OBVIOUS
  <2> QED BY <2>1, NotMinusOne
<1> HIDE DEF l
<1>3. 1 \in Int /\ 0 \in Int /\ Congruent(1, 1) /\ Congruent(l, l) /\ 1 + l \in Int /\ 1 - l \in Int
  BY <1>1, CongruentEqual
<1>4. ASSUME Congruent(1 + l, 0)
      PROVE  FALSE
  <2> DEFINE k == 1 + l
  <2>1. k \in Int /\ Congruent(k, 0)
    BY <1>3, <1>4
  <2> HIDE DEF k
  <2>2. Congruent(k - 1, 0 - 1)
    BY <1>3, <2>1, CongruentSum
  <2>3. k - 1 = l /\ 0 - 1 = -1
    BY <1>1 DEF k
  <2> QED BY <1>2, <2>2, <2>3
<1>5. ASSUME Congruent(1 - l, 0)
      PROVE  FALSE
  <2> DEFINE k == 1 - l
  <2>1. k \in Int /\ Congruent(k, 0)
    BY <1>3, <1>5
  <2> HIDE DEF k
  <2>2. Congruent(k + l, 0 + l)
    BY <1>1, <1>3, <2>1, CongruentSum
  <2>3. k + l = 1 /\ 0 + l = l
    BY <1>1 DEF k
  <2>4. Congruent(l, 1)
    BY <1>1, <1>3, <2>2, <2>3, CongruentSymmetric
  <2> QED BY <1>2, <2>4
<1> QED BY <1>4, <1>5 DEF l

\* What a completed point of the addition law becomes in extended coordinates
LEMMA CompletedLawful ==
  ASSUME NEW cp, NEW w \in Int, NEW x1 \in Int, NEW y1 \in Int, NEW x2 \in Int, NEW y2 \in Int,
         OnModel(x1, y1), OnModel(x2, y2), ~Congruent(w, 0),
         Completes(cp, w, SumX(x1, y1, x2, y2), SumY(x1, y1, x2, y2),
                   1 + Cross(x1, y1, x2, y2), 1 - Cross(x1, y1, x2, y2))
  PROVE  CompletedToExtended(cp) \in CurvePoints /\ Lawful(CompletedToExtended(cp), x1, y1, x2, y2)
<1> DEFINE r == CompletedToExtended(cp)
           s == SumX(x1, y1, x2, y2)   c == SumY(x1, y1, x2, y2)
           g == 1 + Cross(x1, y1, x2, y2)   f == 1 - Cross(x1, y1, x2, y2)
           k == w * w
<1>1. s \in Int /\ c \in Int /\ g \in Int /\ f \in Int /\ k \in Int
  <2>1. Cross(x1, y1, x2, y2) \in Int /\ s \in Int /\ c \in Int /\ k \in Int
    BY SumsAreIntegers
  <2> QED BY <2>1
<1>2. ~Congruent(g, 0) /\ ~Congruent(f, 0)
  BY DenominatorsNonzero
<1>3. Congruent((g * c) * (g * c) - (f * s) * (f * s), (f * g) * (f * g) + EDWARDS_D.v * ((s * c) * (s * c)))
  BY SumOnCurve
<1>4. Completes(cp, w, s, c, g, f)
  OBVIOUS
<1> HIDE DEF s, c, g, f
<1>5. /\ Stands(r.X, k * (f * s), 1) /\ Stands(r.Y, k * (g * c), 1) /\ Stands(r.Z, k * (f * g), 1)
      /\ r \in CurvePoints
  BY <1>1, <1>2, <1>3, <1>4, CompletedIsPoint
<1>6. ~Congruent(k, 0)
  BY NonzeroProduct
<1> HIDE DEF k, r
<1>7. /\ k * f \in Int /\ k * g \in Int /\ ~Congruent(k * f, 0) /\ ~Congruent(k * g, 0)
      /\ (k * f) * s \in Int /\ (k * f) * g \in Int /\ (k * g) * c \in Int
  <2>1. k * f \in Int /\ k * g \in Int
    BY <1>1
  <2>2. ~Congruent(k * f, 0) /\ ~Congruent(k * g, 0)
    BY <1>1, <1>2, <1>6, NonzeroProduct
  <2> QED BY <1>1, <2>1, <2>2
<1>8. k * (f * s) = (k * f) * s /\ k * (f * g) = (k * f) * g /\ k * (g * c) = (k * g) * c
  BY <1>1
<1>9. /\ Congruent(r.X.v, (k * f) * s) /\ Congruent(r.Y.v, (k * g) * c) /\ Congruent(r.Z.v, (k * f) * g)
      /\ r.X.v \in Int /\ r.Y.v \in Int /\ r.Z.v \in Int
  BY <1>5, <1>8, Modulus25519 DEF Stands
<1>10. ASSUME NEW x, NEW y, IsAffine(r, x, y)
       PROVE  Congruent(x * g, s) /\ Congruent(y * f, c)
  <2>1. x \in Int /\ y \in Int /\ Congruent(r.X.v, x * r.Z.v) /\ Congruent(r.Y.v, y * r.Z.v)
    BY <1>10, Modulus25519 DEF IsAffine
  <2> DEFINE X == r.X.v   Y == r.Y.v   z == r.Z.v   m == k * f   n == k * g
             ms == m * s   mg == m * g   nc == n * c
  <2>2. X \in Int /\ Y \in Int /\ z \in Int /\ m \in Int /\ n \in Int /\ ms \in Int /\ mg \in Int /\ nc \in Int
    BY <1>7, <1>9
  <2>3. Congruent(X, ms) /\ Congruent(Y, nc) /\ Congruent(z, mg) /\ Congruent(X, x * z) /\ Congruent(Y, y * z)
    BY <1>9, <2>1
  <2>4. ~Congruent(m, 0) /\ ~Congruent(n, 0)
    BY <1>7
  <2>5. /\ x * mg = m * (x * g) /\ ms = m * s /\ y * mg = n * (y * f) /\ nc = n * c
    <3>1. x * ((k * f) * g) = (k * f) * (x * g)
      BY <1>1, <2>1, SMTT(60)
    <3>2. y * ((k * f) * g) = (k * g) * (y * f)
      BY <1>1, <2>1, SMTT(60)
    <3> QED BY <3>1, <3>2
  <2> HIDE DEF X, Y, z, m, n, ms, mg, nc
  <2>6. /\ x * g \in Int /\ y * f \in Int /\ x * z \in Int /\ y * z \in Int /\ x * mg \in Int /\ y * mg \in Int
        /\ Congruent(x, x) /\ Congruent(y, y)
    BY <1>1, <2>1, <2>2, CongruentEqual
  <2>7. Congruent(x * z, x * mg) /\ Congruent(y * z, y * mg)
    BY <2>1, <2>2, <2>3, <2>6, CongruentProduct
  <2>8. Congruent(x * z, X) /\ Congruent(y * z, Y) /\ Congruent(x * mg, x * z) /\ Congruent(y * mg, y * z)
    BY <2>2, <2>3, <2>6, <2>7, CongruentSymmetric
  <2>9. Congruent(x * mg, X) /\ Congruent(y * mg, Y)
    BY <2>2, <2>6, <2>8, CongruentTransitive
  <2>10. Congruent(x * mg, ms) /\ Congruent(y * mg, nc)
    BY <2>2, <2>3, <2>6, <2>9, CongruentTransitive
  <2>11. Congruent(m * (x * g), m * s) /\ Congruent(n * (y * f), n * c)
    BY <2>5, <2>10
  <2> DEFINE xg == x * g   yf == y * f
  <2>12. xg \in Int /\ yf \in Int /\ Congruent(m * xg, m * s) /\ Congruent(n * yf, n * c)
    BY <2>6, <2>11
  <2> HIDE DEF xg, yf
  <2>13. Congruent(xg, s)
    BY <1>1, <2>2, <2>4, <2>12, CancelFactor
  <2>14. Congruent(yf, c)
    BY <1>1, <2>2, <2>4, <2>12, CancelFactor
  <2> QED BY <2>13, <2>14 DEF xg, yf
<1> QED BY <1>5, <1>10 DEF Lawful, r, s, c, g, f

\* (-x, y) is on the curve if (x, y) is.
LEMMA OnModelNegated ==
  ASSUME NEW x \in Int, NEW y \in Int, OnModel(x, y)
  PROVE  OnModel(-x, y) /\ -x \in Int
<1>1. (-x) * (-x) = x * x
  OBVIOUS
<1>2. ((-x) * y) * ((-x) * y) = (x * y) * (x * y)
  BY SMTT(60)
<1> QED BY <1>1, <1>2 DEF OnModel

\* Sums and differences of representatives
LEMMA SumsLawful ==
  ASSUME NEW p, NEW q, NEW x1 \in Int, NEW y1 \in Int, NEW z1 \in Int, NEW x2 \in Int, NEW y2 \in Int, NEW z2 \in Int,
         Represents(p, x1, y1, z1), Represents(q, x2, y2, z2)
  PROVE  /\ EdwardsAdd(p, q) \in CurvePoints /\ Lawful(EdwardsAdd(p, q), x1, y1, x2, y2)
         /\ EdwardsSub(p, q) \in CurvePoints /\ Lawful(EdwardsSub(p, q), x1, y1, -x2, y2)
<1> DEFINE w == 2 * (z1 * z2)   n == ToProjectiveNiels(q)
<1>1. w \in Int /\ ~Congruent(w, 0)
  <2>1. 2 \in Int /\ z1 * z2 \in Int /\ 2 \in F /\ 0 \in F
    BY Modulus25519 DEF F
  <2>2. ~Congruent(2, 0)
    BY <2>1, OneResidue
  <2>3. ~Congruent(z1 * z2, 0)
    BY NonzeroProduct DEF Represents
  <2> DEFINE k == z1 * z2
  <2>4. k \in Int /\ ~Congruent(k, 0)
    BY <2>1, <2>3
  <2> HIDE DEF k
  <2>5. ~Congruent(2 * k, 0) /\ 2 * k \in Int
    <3>1. 2 * k \in Int
      BY <2>4
    <3> QED BY <2>1, <2>2, <2>4, <3>1, NonzeroProduct
  <2> QED BY <2>5 DEF k
<1>2. OnModel(x1, y1) /\ OnModel(x2, y2) /\ OnModel(-x2, y2) /\ -x2 \in Int
  BY OnModelNegated DEF Represents
<1>3. /\ Completes(AddProjectiveNiels(p, n), w, SumX(x1, y1, x2, y2), SumY(x1, y1, x2, y2),
                   1 + Cross(x1, y1, x2, y2), 1 - Cross(x1, y1, x2, y2))
      /\ Completes(SubProjectiveNiels(p, n), w, SumX(x1, y1, -x2, y2), SumY(x1, y1, -x2, y2),
                   1 + Cross(x1, y1, -x2, y2), 1 - Cross(x1, y1, -x2, y2))
  BY NielsCompletes
<1> HIDE DEF w, n
<1>4. CompletedToExtended(AddProjectiveNiels(p, n)) \in CurvePoints
      /\ Lawful(CompletedToExtended(AddProjectiveNiels(p, n)), x1, y1, x2, y2)
  BY <1>1, <1>2, <1>3, CompletedLawful
<1>5. CompletedToExtended(SubProjectiveNiels(p, n)) \in CurvePoints
      /\ Lawful(CompletedToExtended(SubProjectiveNiels(p, n)), x1, y1, -x2, y2)
  <2> DEFINE k == -x2
  <2>1. k \in Int /\ OnModel(k, y2)
    BY <1>2
  <2>2. Completes(SubProjectiveNiels(p, n), w, SumX(x1, y1, k, y2), SumY(x1, y1, k, y2),
                  1 + Cross(x1, y1, k, y2), 1 - Cross(x1, y1, k, y2))
    BY <1>3
  <2> HIDE DEF k
  <2>3. CompletedToExtended(SubProjectiveNiels(p, n)) \in CurvePoints
        /\ Lawful(CompletedToExtended(SubProjectiveNiels(p, n)), x1, y1, k, y2)
    BY <1>1, <1>2, <2>1, <2>2, CompletedLawful
  <2> QED BY <2>3 DEF k
<1> QED BY <1>4, <1>5 DEF EdwardsAdd, EdwardsSub, n

\* The opposite of a point of the curve
LEMMA NegationStands ==
  ASSUME NEW q \in CurvePoints, NEW x, NEW y, IsAffine(q, x, y)
  PROVE  /\ EdwardsNeg(q) \in CurvePoints /\ Represents(EdwardsNeg(q), -x, y, q.Z.v)
         /\ -x \in Int /\ EdwardsNeg(q).Z = q.Z
<1> DEFINE n == EdwardsNeg(q)   z == q.Z.v   d == EDWARDS_D.v   a == x * z   b == y * z   u == (x * y) * z
<1>1. Represents(q, x, y, z) /\ x \in Int /\ y \in Int /\ z \in Int /\ IsValid(q)
  BY AffineRepresents DEF CurvePoints
<1>2. /\ Stands(q.X, a, 1) /\ Stands(q.Y, b, 1) /\ Stands(q.Z, z, 1) /\ Stands(q.T, u, 1)
      /\ OnModel(x, y) /\ ~Congruent(z, 0)
  BY <1>1 DEF Represents
<1>3. q \in [X : Reduced, Y : Reduced, Z : Reduced, T : Reduced] /\ q.Z.v # 0
  BY DEF CurvePoints, ExtendedPoints
<1>4. n.X = FNeg(q.X) /\ n.Y = q.Y /\ n.Z = q.Z /\ n.T = FNeg(q.T)
  BY <1>3 DEF EdwardsNeg
<1>5. z \in Int /\ a \in Int /\ b \in Int /\ u \in Int /\ -a \in Int /\ -u \in Int /\ d \in Int
  <2>1. x * y \in Int /\ a \in Int /\ b \in Int
    BY <1>1
  <2> HIDE DEF z
  <2>2. u \in Int
    BY <1>1, <2>1
  <2> HIDE DEF u, a, b
  <2> QED BY <1>1, <2>1, <2>2, ConstantsStand
<1>6. /\ (-x) * z = -a /\ ((-x) * y) * z = -u
  <2> HIDE DEF z
  <2> QED BY <1>1, SMTT(60)
<1> HIDE DEF z, a, b, u, n, d
<1>7. /\ Congruent((b * b - a * a) * (z * z), (z * z) * (z * z) + d * ((a * a) * (b * b)))
      /\ Congruent(a * b, z * u)
  BY <1>1, <1>2, <1>5, ValidEquations DEF d
<1>8. Stands(n.X, -a, 1) /\ Stands(n.Y, b, 1) /\ Stands(n.Z, z, 1) /\ Stands(n.T, -u, 1)
  BY <1>2, <1>4, <1>5, StandsNegation
<1>9. IsValid(n)
  <2> DEFINE e == -a   v == -u
  <2>1. e * e = a * a
    BY <1>5
  <2>2. Congruent(e * b, z * v)
    <3> DEFINE f == a * b   g == z * u
    <3>1. f \in Int /\ g \in Int /\ Congruent(f, g)
      BY <1>5, <1>7
    <3>2. e * b = 0 - f /\ z * v = 0 - g
      BY <1>5
    <3> HIDE DEF f, g, e, v
    <3>3. 0 \in Int /\ Congruent(0, 0)
      BY CongruentEqual
    <3>4. Congruent(0 - f, 0 - g)
      BY <3>1, <3>3, CongruentSum
    <3> QED BY <3>2, <3>4
  <2>3. Congruent((b * b - e * e) * (z * z), (z * z) * (z * z) + d * ((e * e) * (b * b)))
    BY <1>7, <2>1
  <2>4. e \in Int /\ v \in Int /\ Stands(n.X, e, 1) /\ Stands(n.T, v, 1)
    BY <1>5, <1>8
  <2> HIDE DEF e, v
  <2> QED BY <1>5, <1>8, <2>2, <2>3, <2>4, ValidEquations DEF d
<1>10. n \in CurvePoints
  <2>1. FNeg(q.X) \in Reduced /\ FNeg(q.T) \in Reduced
    <3>1. ASSUME NEW e, NEW i, Stands(FNeg(e), i, 1)
          PROVE  FNeg(e) \in Reduced
      <4>1. FNeg(e) = [v |-> FNeg(e).v, b |-> FNeg(e).b]
        BY DEF FNeg
      <4>2. FNeg(e).v \in F /\ FNeg(e).b \in Nat /\ FNeg(e).b <= 1 * Fresh /\ 1 * Fresh = Fresh
        BY <3>1, Rooms DEF Stands
      <4> QED BY <4>1, <4>2 DEF Reduced
    <3> QED BY <1>4, <1>8, <3>1
  <2>2. n \in [X : Reduced, Y : Reduced, Z : Reduced, T : Reduced]
    BY <1>3, <2>1 DEF n, EdwardsNeg
  <2>3. n.Z.v # 0
    BY <1>3, <1>4
  <2> QED BY <1>9, <2>2, <2>3 DEF CurvePoints, ExtendedPoints
<1>11. OnModel(-x, y) /\ -x \in Int
  BY <1>1, <1>2, OnModelNegated
<1>12. Represents(n, -x, y, z)
  BY <1>2, <1>6, <1>8, <1>11, Zenon DEF Represents, b
<1> QED BY <1>4, <1>10, <1>11, <1>12 DEF n, z

\* Points with the same affine coordinates are equal in the sense of the code's ct_eq, and
\* only those.
LEMMA EqualAffine ==
  ASSUME NEW p \in CurvePoints, NEW q \in CurvePoints, NEW x1, NEW y1, NEW x2, NEW y2,
         IsAffine(p, x1, y1), IsAffine(q, x2, y2)
  PROVE  EdwardsEq(p, q) <=> x1 = x2 /\ y1 = y2
<1> DEFINE z1 == p.Z.v   z2 == q.Z.v
<1>1. /\ x1 \in Int /\ y1 \in Int /\ z1 \in Int /\ x2 \in Int /\ y2 \in Int /\ z2 \in Int
      /\ Represents(p, x1, y1, z1) /\ Represents(q, x2, y2, z2)
      /\ x1 \in F /\ y1 \in F /\ x2 \in F /\ y2 \in F
  BY AffineRepresents DEF IsAffine
<1>2. /\ Stands(p.X, x1 * z1, 1) /\ Stands(p.Y, y1 * z1, 1) /\ Stands(p.Z, z1, 1)
      /\ Stands(q.X, x2 * z2, 1) /\ Stands(q.Y, y2 * z2, 1) /\ Stands(q.Z, z2, 1)
      /\ ~Congruent(z1, 0) /\ ~Congruent(z2, 0)
  BY <1>1 DEF Represents
<1> HIDE DEF z1, z2
<1>3. ASSUME NEW e, NEW f, NEW i \in F, NEW j \in F, i \in Int, j \in Int, Stands(e, i * z1, 1), Stands(f, j * z2, 1)
      PROVE  CtEq(FMul(e, q.Z), FMul(f, p.Z)) <=> i = j
  <2> DEFINE a == i * z1   b == j * z2   c == z1 * z2
  <2>1. a \in Int /\ b \in Int /\ c \in Int /\ Stands(e, a, 1) /\ Stands(f, b, 1)
    BY <1>1, <1>3
  <2>2. a * z2 = c * i /\ b * z1 = c * j
    BY <1>1, <1>3, SMTT(60)
  <2>3. ~Congruent(c, 0)
    BY <1>1, <1>2, NonzeroProduct
  <2> HIDE DEF a, b, c
  <2>4. Stands(FMul(e, q.Z), a * z2, 1) /\ Stands(FMul(f, p.Z), b * z1, 1) /\ a * z2 \in Int /\ b * z1 \in Int
    <3>1. Stands(FMul(e, q.Z), a * z2, 1)
      BY <1>1, <1>2, <2>1, StandsProduct
    <3>2. Stands(FMul(f, p.Z), b * z1, 1)
      BY <1>1, <1>2, <2>1, StandsProduct
    <3> QED BY <1>1, <2>1, <3>1, <3>2
  <2>5. (FMul(e, q.Z).v = FMul(f, p.Z).v) <=> Congruent(a * z2, b * z1)
    BY <2>4, StandsEqual
  <2>6. Congruent(c * i, c * j) <=> i = j
    <3>1. ASSUME Congruent(c * i, c * j) PROVE i = j
      <4>1. Congruent(i, j)
        BY <1>3, <2>1, <2>3, <3>1, CancelFactor
      <4> QED BY <4>1, OneResidue
    <3>2. c * i \in Int
      BY <1>3, <2>1
    <3>3. ASSUME i = j PROVE Congruent(c * i, c * j)
      BY <3>2, <3>3, CongruentEqual
    <3> QED BY <3>1, <3>3
  <2> QED BY <2>2, <2>5, <2>6 DEF CtEq, ToBytes
<1>4. CtEq(FMul(p.X, q.Z), FMul(q.X, p.Z)) <=> x1 = x2
  BY <1>1, <1>2, <1>3
<1>5. CtEq(FMul(p.Y, q.Z), FMul(q.Y, p.Z)) <=> y1 = y2
  BY <1>1, <1>2, <1>3
<1> QED BY <1>4, <1>5 DEF EdwardsEq

\* The law determines the sum.
LEMMA LawfulEqual ==
  ASSUME NEW r \in CurvePoints, NEW t \in CurvePoints,
         NEW x1 \in Int, NEW y1 \in Int, NEW x2 \in Int, NEW y2 \in Int, OnModel(x1, y1), OnModel(x2, y2),
         Lawful(r, x1, y1, x2, y2), Lawful(t, x1, y1, x2, y2)
  PROVE  EdwardsEq(r, t)
<1> DEFINE g == 1 + Cross(x1, y1, x2, y2)   f == 1 - Cross(x1, y1, x2, y2)
           s == SumX(x1, y1, x2, y2)   c == SumY(x1, y1, x2, y2)
<1>1. g \in Int /\ f \in Int /\ s \in Int /\ c \in Int /\ ~Congruent(g, 0) /\ ~Congruent(f, 0)
  <2>1. Cross(x1, y1, x2, y2) \in Int /\ s \in Int /\ c \in Int
    BY SumsAreIntegers
  <2> QED BY <2>1, DenominatorsNonzero
<1>2. PICK x3 \in F, y3 \in F : IsAffine(r, x3, y3)
  BY AffineExists
<1>3. PICK x4 \in F, y4 \in F : IsAffine(t, x4, y4)
  BY AffineExists
<1>4. Congruent(x3 * g, s) /\ Congruent(y3 * f, c) /\ Congruent(x4 * g, s) /\ Congruent(y4 * f, c)
  BY <1>2, <1>3 DEF Lawful
<1> HIDE DEF g, f, s, c
<1>5. ASSUME NEW a \in F, NEW b \in F, NEW k \in Int, NEW n \in Int, ~Congruent(k, 0),
             Congruent(a * k, n), Congruent(b * k, n)
      PROVE  a = b
  <2>1. a \in Int /\ b \in Int
    BY Modulus25519
  <2>2. a * k \in Int /\ b * k \in Int /\ k * a = a * k /\ k * b = b * k
    BY <2>1
  <2>3. Congruent(n, b * k)
    BY <1>5, <2>2, CongruentSymmetric
  <2>4. Congruent(a * k, b * k)
    BY <1>5, <2>2, <2>3, CongruentTransitive
  <2>5. Congruent(k * a, k * b)
    BY <2>2, <2>4
  <2>6. Congruent(a, b)
    BY <1>5, <2>1, <2>5, CancelFactor
  <2> QED BY <2>6, OneResidue
<1>6. x3 = x4 /\ y3 = y4
  BY <1>1, <1>4, <1>5
<1> QED BY <1>2, <1>3, <1>6, EqualAffine
-----------------------------------------------------------------------------
\* edwards.rs Add and Sub: the sum and the difference of any two points of the curve are points
\* of the curve, on reduced limbs, and their coordinates are those of the complete addition
\* law, whose denominators are never zero.  No case is excepted: equal points, opposite ones,
\* the identity and points of small order go through the same formula.
THEOREM AdditionLaw ==
  ASSUME NEW p \in CurvePoints, NEW q \in CurvePoints, NEW x1, NEW y1, NEW x2, NEW y2,
         IsAffine(p, x1, y1), IsAffine(q, x2, y2)
  PROVE  /\ EdwardsAdd(p, q) \in CurvePoints /\ Lawful(EdwardsAdd(p, q), x1, y1, x2, y2)
         /\ EdwardsSub(p, q) \in CurvePoints /\ Lawful(EdwardsSub(p, q), x1, y1, -x2, y2)
         /\ ~Congruent(1 + Cross(x1, y1, x2, y2), 0) /\ ~Congruent(1 - Cross(x1, y1, x2, y2), 0)
<1>1. /\ Represents(p, x1, y1, p.Z.v) /\ Represents(q, x2, y2, q.Z.v)
      /\ x1 \in Int /\ y1 \in Int /\ x2 \in Int /\ y2 \in Int /\ p.Z.v \in Int /\ q.Z.v \in Int
  BY AffineRepresents
<1>2. ~Congruent(1 + Cross(x1, y1, x2, y2), 0) /\ ~Congruent(1 - Cross(x1, y1, x2, y2), 0)
  BY <1>1, DenominatorsNonzero DEF Represents
<1> QED BY <1>1, <1>2, SumsLawful

\* edwards.rs, &EdwardsPoint + &AffineNielsPoint and its difference, which the tables of
\* multiples of the basepoint are read through: the same law for a table entry that holds the
\* affine point (x, y).
THEOREM MixedAdditionLaw ==
  ASSUME NEW p \in CurvePoints, NEW x1, NEW y1, IsAffine(p, x1, y1),
         NEW x \in Reduced, NEW y \in Reduced, OnModel(x.v, y.v)
  PROVE  LET plus == CompletedToExtended(AddAffineNiels(p, AffineNielsOf(x, y)))
             minus == CompletedToExtended(SubAffineNiels(p, AffineNielsOf(x, y)))
         IN  /\ plus \in CurvePoints /\ Lawful(plus, x1, y1, x.v, y.v)
             /\ minus \in CurvePoints /\ Lawful(minus, x1, y1, -x.v, y.v)
<1> DEFINE z == p.Z.v   w == 2 * z   n == AffineNielsOf(x, y)   x2 == x.v   y2 == y.v   m == -x2
<1>1. /\ Represents(p, x1, y1, z) /\ x1 \in Int /\ y1 \in Int /\ z \in Int
  BY AffineRepresents
<1>2. x2 \in Int /\ y2 \in Int /\ Stands(x, x2, 1) /\ Stands(y, y2, 1)
  <2>1. ASSUME NEW e \in Reduced
        PROVE  Stands(e, e.v, 1) /\ e.v \in Int
    <3>1. e.v \in F /\ e.b \in Nat /\ e.b <= Fresh /\ 1 * Fresh = Fresh
      BY Rooms DEF Reduced
    <3>2. e.v \in Int
      BY <3>1, Modulus25519
    <3>3. Congruent(e.v, e.v)
      BY <3>2, CongruentEqual
    <3> QED BY <3>1, <3>2, <3>3 DEF Stands
  <2> QED BY <2>1
<1>3. OnModel(x1, y1) /\ ~Congruent(z, 0)
  BY <1>1 DEF Represents
<1>4. w \in Int /\ ~Congruent(w, 0)
  <2>1. 2 \in Int /\ 2 \in F /\ 0 \in F
    BY Modulus25519 DEF F
  <2>2. ~Congruent(2, 0)
    BY <2>1, OneResidue
  <2> HIDE DEF z
  <2>3. 2 * z \in Int
    BY <1>1
  <2> QED BY <1>1, <1>3, <2>1, <2>2, <2>3, NonzeroProduct
<1> HIDE DEF x2, y2
<1>5. OnModel(x2, y2)
  BY DEF x2, y2
<1>6. OnModel(m, y2) /\ m \in Int
  BY <1>2, <1>5, OnModelNegated
<1>7. /\ Completes(AddAffineNiels(p, n), w, SumX(x1, y1, x2, y2), SumY(x1, y1, x2, y2),
                   1 + Cross(x1, y1, x2, y2), 1 - Cross(x1, y1, x2, y2))
      /\ Completes(SubAffineNiels(p, n), w, SumX(x1, y1, m, y2), SumY(x1, y1, m, y2),
                   1 + Cross(x1, y1, m, y2), 1 - Cross(x1, y1, m, y2))
  BY <1>1, <1>2, AffineNielsCompletes
<1> HIDE DEF w, n, m, z
<1>8. /\ CompletedToExtended(AddAffineNiels(p, n)) \in CurvePoints
      /\ Lawful(CompletedToExtended(AddAffineNiels(p, n)), x1, y1, x2, y2)
  BY <1>1, <1>2, <1>3, <1>4, <1>5, <1>7, CompletedLawful
<1>9. /\ CompletedToExtended(SubAffineNiels(p, n)) \in CurvePoints
      /\ Lawful(CompletedToExtended(SubAffineNiels(p, n)), x1, y1, m, y2)
  BY <1>1, <1>2, <1>3, <1>4, <1>6, <1>7, CompletedLawful
<1> QED BY <1>8, <1>9 DEF n, m, x2, y2

\* edwards.rs double: the sum of the point with itself, from fewer products.
THEOREM DoublingLaw ==
  ASSUME NEW p \in CurvePoints, NEW x, NEW y, IsAffine(p, x, y)
  PROVE  EdwardsDouble(p) \in CurvePoints /\ Lawful(EdwardsDouble(p), x, y, x, y)
<1> DEFINE z == p.Z.v   w == z * z   t == ToProjective(p)
<1>1. Represents(p, x, y, z) /\ x \in Int /\ y \in Int /\ z \in Int
  BY AffineRepresents
<1>2. /\ Stands(t.X, x * z, 1) /\ Stands(t.Y, y * z, 1) /\ Stands(t.Z, z, 1) /\ OnModel(x, y) /\ ~Congruent(z, 0)
  BY <1>1 DEF Represents, ToProjective
<1> HIDE DEF z, t
<1>3. w \in Int /\ ~Congruent(w, 0)
  <2>1. w \in Int
    BY <1>1
  <2> QED BY <1>1, <1>2, <2>1, NonzeroProduct
<1>4. Completes(ProjectiveDouble(t), w, SumX(x, y, x, y), SumY(x, y, x, y),
                1 + Cross(x, y, x, y), 1 - Cross(x, y, x, y))
  BY <1>1, <1>2, DoubleCompletes
<1> HIDE DEF w
<1>5. CompletedToExtended(ProjectiveDouble(t)) \in CurvePoints /\ Lawful(CompletedToExtended(ProjectiveDouble(t)), x, y, x, y)
  BY <1>1, <1>2, <1>3, <1>4, CompletedLawful
<1> QED BY <1>5 DEF EdwardsDouble, t

\* The identity of edwards.rs is the point (0, 1).
LEMMA IdentityPoint == Identity \in CurvePoints /\ IsAffine(Identity, 0, 1)
<1>1. Identity.X = Zero /\ Identity.Y = One /\ Identity.Z = One /\ Identity.T = Zero
  BY DEF Identity
<1>2. Stands(Zero, 0, 1) /\ Stands(One, 1, 1) /\ 0 \in Int /\ 1 \in Int /\ EDWARDS_D.v \in Int
  BY ConstantsStand
<1>3. Zero \in Reduced /\ One \in Reduced
  <2>1. Zero = [v |-> Zero.v, b |-> Zero.b] /\ One = [v |-> One.v, b |-> One.b]
    BY DEF Zero, One, Elem
  <2>2. Zero.v \in F /\ Zero.b \in Nat /\ Zero.b <= 1 * Fresh /\ One.v \in F /\ One.b \in Nat /\ One.b <= 1 * Fresh
        /\ 1 * Fresh = Fresh
    BY <1>2, Rooms DEF Stands
  <2> QED BY <2>1, <2>2 DEF Reduced
<1>4. Zero.v = 0 /\ One.v = 1
  BY Modulus25519 DEF Zero, One, Elem
<1>5. IsValid(Identity)
  <2> DEFINE d == EDWARDS_D.v
  <2>1. (1 * 1 - 0 * 0) * (1 * 1) = 1 /\ (1 * 1) * (1 * 1) + d * ((0 * 0) * (1 * 1)) = 1 /\ 0 * 1 = 0 /\ 1 * 0 = 0
    BY <1>2
  <2>2. Congruent(1, 1) /\ Congruent(0, 0)
    BY CongruentEqual
  <2>3. Congruent((1 * 1 - 0 * 0) * (1 * 1), (1 * 1) * (1 * 1) + d * ((0 * 0) * (1 * 1))) /\ Congruent(0 * 1, 1 * 0)
    BY <2>1, <2>2, Zenon
  <2>4. Stands(Identity.X, 0, 1) /\ Stands(Identity.Y, 1, 1) /\ Stands(Identity.Z, 1, 1) /\ Stands(Identity.T, 0, 1)
    BY <1>1, <1>2
  <2>5. IsValid(Identity) <=>
          /\ Congruent((1 * 1 - 0 * 0) * (1 * 1), (1 * 1) * (1 * 1) + d * ((0 * 0) * (1 * 1)))
          /\ Congruent(0 * 1, 1 * 0)
    BY <1>2, <2>4, ValidEquations, Zenon
  <2> QED BY <2>3, <2>5
<1>6. Identity \in CurvePoints
  BY <1>1, <1>3, <1>4, <1>5 DEF CurvePoints, ExtendedPoints, Identity
<1>7. 0 * 1 = 0 /\ 1 * 1 = 1 /\ Congruent(0, 0) /\ Congruent(1, 1)
  BY CongruentEqual
<1> QED BY <1>1, <1>4, <1>6, <1>7, Modulus25519 DEF IsAffine

\* The operators of edwards.rs agree with one another and with ct_eq: addition commutes, the
\* identity is neutral, the opposite cancels, subtraction adds the opposite, doubling adds the
\* point to itself.
THEOREM GroupLaws ==
  ASSUME NEW p \in CurvePoints, NEW q \in CurvePoints
  PROVE  /\ EdwardsEq(EdwardsAdd(p, q), EdwardsAdd(q, p))
         /\ EdwardsEq(EdwardsAdd(p, Identity), p)
         /\ EdwardsEq(EdwardsAdd(p, EdwardsNeg(p)), Identity)
         /\ EdwardsEq(EdwardsSub(p, q), EdwardsAdd(p, EdwardsNeg(q)))
         /\ EdwardsEq(EdwardsDouble(p), EdwardsAdd(p, p))
<1>1. PICK x1 \in F, y1 \in F : IsAffine(p, x1, y1)
  BY AffineExists
<1>2. PICK x2 \in F, y2 \in F : IsAffine(q, x2, y2)
  BY AffineExists
<1> DEFINE z1 == p.Z.v   z2 == q.Z.v
<1>3. /\ Represents(p, x1, y1, z1) /\ Represents(q, x2, y2, z2) /\ x1 \in Int /\ y1 \in Int /\ x2 \in Int /\ y2 \in Int
      /\ z1 \in Int /\ z2 \in Int
  BY <1>1, <1>2, AffineRepresents
<1>4. OnModel(x1, y1) /\ OnModel(x2, y2) /\ OnModel(-x1, y1) /\ OnModel(-x2, y2) /\ -x1 \in Int /\ -x2 \in Int
  <2>1. OnModel(x1, y1) /\ OnModel(x2, y2)
    BY <1>3 DEF Represents
  <2> QED BY <2>1, <1>3, OnModelNegated
<1>5. EdwardsNeg(p) \in CurvePoints /\ Represents(EdwardsNeg(p), -x1, y1, z1)
      /\ EdwardsNeg(q) \in CurvePoints /\ Represents(EdwardsNeg(q), -x2, y2, z2)
  BY <1>1, <1>2, NegationStands
<1> DEFINE m1 == -x1   m2 == -x2
<1>6. m1 \in Int /\ m2 \in Int /\ Represents(EdwardsNeg(p), m1, y1, z1) /\ Represents(EdwardsNeg(q), m2, y2, z2)
      /\ OnModel(m1, y1) /\ OnModel(m2, y2)
  BY <1>4, <1>5
<1> HIDE DEF z1, z2
<1>7. /\ EdwardsAdd(p, q) \in CurvePoints /\ Lawful(EdwardsAdd(p, q), x1, y1, x2, y2)
      /\ EdwardsSub(p, q) \in CurvePoints /\ Lawful(EdwardsSub(p, q), x1, y1, m2, y2)
  BY <1>3, SumsLawful
<1>8. EdwardsAdd(q, p) \in CurvePoints /\ Lawful(EdwardsAdd(q, p), x2, y2, x1, y1)
  BY <1>3, SumsLawful
<1>9. EdwardsAdd(p, p) \in CurvePoints /\ Lawful(EdwardsAdd(p, p), x1, y1, x1, y1)
  BY <1>3, SumsLawful
<1>10. EdwardsDouble(p) \in CurvePoints /\ Lawful(EdwardsDouble(p), x1, y1, x1, y1)
  BY <1>1, DoublingLaw
<1>11. EdwardsEq(EdwardsDouble(p), EdwardsAdd(p, p))
  BY <1>3, <1>4, <1>9, <1>10, LawfulEqual
<1>12. EdwardsEq(EdwardsAdd(p, q), EdwardsAdd(q, p))
  <2>1. SumX(x1, y1, x2, y2) = SumX(x2, y2, x1, y1) /\ SumY(x1, y1, x2, y2) = SumY(x2, y2, x1, y1)
    BY <1>3 DEF SumX, SumY
  <2>2. Cross(x1, y1, x2, y2) = Cross(x2, y2, x1, y1)
    <3>1. (x1 * y1) * (x2 * y2) = (x2 * y2) * (x1 * y1)
      BY <1>3
    <3> QED BY <3>1 DEF Cross
  <2>3. Lawful(EdwardsAdd(q, p), x1, y1, x2, y2)
    BY <1>8, <2>1, <2>2 DEF Lawful
  <2> QED BY <1>3, <1>4, <1>7, <1>8, <2>3, LawfulEqual
<1> HIDE DEF m1, m2
<1>13. EdwardsEq(EdwardsSub(p, q), EdwardsAdd(p, EdwardsNeg(q)))
  <2>1. EdwardsAdd(p, EdwardsNeg(q)) \in CurvePoints /\ Lawful(EdwardsAdd(p, EdwardsNeg(q)), x1, y1, m2, y2)
    BY <1>3, <1>6, SumsLawful
  <2> QED BY <1>3, <1>4, <1>6, <1>7, <2>1, LawfulEqual
<1>14. EdwardsEq(EdwardsAdd(p, Identity), p)
  <2> DEFINE r == EdwardsAdd(p, Identity)
  <2>1. r \in CurvePoints /\ Lawful(r, x1, y1, 0, 1)
    BY <1>1, IdentityPoint, AdditionLaw
  <2>2. SumX(x1, y1, 0, 1) = x1 /\ SumY(x1, y1, 0, 1) = y1
    BY <1>3 DEF SumX, SumY
  <2>3. Cross(x1, y1, 0, 1) = 0
    <3>1. (x1 * y1) * (0 * 1) = 0 /\ EDWARDS_D.v * 0 = 0
      BY <1>3, ConstantsStand
    <3> QED BY <3>1, Zenon DEF Cross
  <2> HIDE DEF r
  <2>4. PICK x3 \in F, y3 \in F : IsAffine(r, x3, y3)
    BY <2>1, AffineExists
  <2>5. Congruent(x3 * (1 + 0), x1) /\ Congruent(y3 * (1 - 0), y1)
    BY <2>1, <2>2, <2>3, <2>4, Zenon DEF Lawful
  <2>6. x3 * (1 + 0) = x3 /\ y3 * (1 - 0) = y3
    BY <2>4, Modulus25519
  <2>7. x3 = x1 /\ y3 = y1
    BY <1>1, <2>4, <2>5, <2>6, OneResidue
  <2>8. EdwardsEq(r, p)
    BY <1>1, <2>1, <2>4, <2>7, EqualAffine
  <2> QED BY <2>8 DEF r
<1>15. EdwardsEq(EdwardsAdd(p, EdwardsNeg(p)), Identity)
  <2> DEFINE r == EdwardsAdd(p, EdwardsNeg(p))   f == 1 - Cross(x1, y1, m1, y1)   g == 1 + Cross(x1, y1, m1, y1)
  <2>1. r \in CurvePoints /\ Lawful(r, x1, y1, m1, y1)
    BY <1>3, <1>6, SumsLawful
  <2>2. PICK x3 \in F, y3 \in F : IsAffine(r, x3, y3)
    BY <2>1, AffineExists
  <2>3. g \in Int /\ f \in Int /\ ~Congruent(g, 0) /\ ~Congruent(f, 0)
    <3>1. Cross(x1, y1, m1, y1) \in Int
      BY <1>3, <1>6, SumsAreIntegers
    <3>2. ~Congruent(g, 0) /\ ~Congruent(f, 0)
      BY <1>3, <1>4, <1>6, DenominatorsNonzero
    <3> QED BY <3>1, <3>2
  <2>4. Congruent(x3 * g, SumX(x1, y1, m1, y1)) /\ Congruent(y3 * f, SumY(x1, y1, m1, y1))
    BY <2>1, <2>2 DEF Lawful
  <2>5. SumX(x1, y1, m1, y1) = 0
    BY <1>3 DEF SumX, m1
  <2>6. SumY(x1, y1, m1, y1) = y1 * y1 - x1 * x1
    BY <1>3 DEF SumY, m1
  <2>7. f = 1 + EDWARDS_D.v * ((x1 * y1) * (x1 * y1))
    <3> DEFINE d == EDWARDS_D.v
    <3>1. d \in Int
      BY ConstantsStand
    <3> HIDE DEF d
    <3>2. 1 - d * ((x1 * y1) * ((-x1) * y1)) = 1 + d * ((x1 * y1) * (x1 * y1))
      BY <1>3, <3>1, SMTT(60)
    <3> QED BY <3>2 DEF Cross, m1, d
  <2>8. Congruent(SumY(x1, y1, m1, y1), f)
    BY <1>4, <2>6, <2>7 DEF OnModel
  <2> HIDE DEF r, f, g
  <2>9. x3 \in Int /\ y3 \in Int /\ 0 \in F /\ 1 \in F /\ 0 \in Int /\ 1 \in Int
    BY Modulus25519
  <2>10. x3 = 0
    <3>1. g * x3 = x3 * g /\ g * 0 = 0
      BY <2>3, <2>9
    <3>2. Congruent(g * x3, g * 0)
      BY <2>4, <2>5, <3>1
    <3>3. Congruent(x3, 0)
      BY <2>3, <2>9, <3>2, CancelFactor
    <3> QED BY <2>9, <3>3, OneResidue
  <2>11. y3 = 1
    <3>1. f * y3 = y3 * f /\ f * 1 = f /\ y3 * f \in Int
      BY <2>3, <2>9
    <3>2. SumY(x1, y1, m1, y1) \in Int
      BY <1>3, <1>6, SumsAreIntegers
    <3>3. Congruent(y3 * f, f)
      BY <2>3, <2>4, <2>8, <3>1, <3>2, CongruentTransitive
    <3>4. Congruent(f * y3, f * 1)
      BY <3>1, <3>3
    <3>5. Congruent(y3, 1)
      BY <2>3, <2>9, <3>4, CancelFactor
    <3> QED BY <2>9, <3>5, OneResidue
  <2>12. EdwardsEq(r, Identity)
    BY <2>1, <2>2, <2>10, <2>11, IdentityPoint, EqualAffine
  <2> QED BY <2>12 DEF r
<1> QED BY <1>11, <1>12, <1>13, <1>14, <1>15

\* ct_eq is equality of affine points, and the operators of edwards.rs respect it: what
\* representative a computation reaches does not matter.
THEOREM RepresentativesAgree ==
  ASSUME NEW p \in CurvePoints, NEW q \in CurvePoints, NEW r \in CurvePoints, EdwardsEq(p, q)
  PROVE  /\ EdwardsEq(EdwardsAdd(p, r), EdwardsAdd(q, r)) /\ EdwardsEq(EdwardsSub(p, r), EdwardsSub(q, r))
         /\ EdwardsEq(EdwardsSub(r, p), EdwardsSub(r, q)) /\ EdwardsEq(EdwardsDouble(p), EdwardsDouble(q))
<1>1. PICK x \in F, y \in F : IsAffine(p, x, y)
  BY AffineExists
<1>2. IsAffine(q, x, y)
  <2>1. PICK i \in F, j \in F : IsAffine(q, i, j)
    BY AffineExists
  <2> QED BY <1>1, <2>1, EqualAffine
<1>3. PICK x2 \in F, y2 \in F : IsAffine(r, x2, y2)
  BY AffineExists
<1>4. x \in Int /\ y \in Int /\ x2 \in Int /\ y2 \in Int /\ OnModel(x, y) /\ OnModel(x2, y2)
  BY <1>1, <1>3, AffineRepresents DEF Represents
<1>5. OnModel(-x, y) /\ -x \in Int /\ OnModel(-x2, y2) /\ -x2 \in Int
  BY <1>4, OnModelNegated
<1>6. EdwardsEq(EdwardsAdd(p, r), EdwardsAdd(q, r))
  <2>1. /\ EdwardsAdd(p, r) \in CurvePoints /\ Lawful(EdwardsAdd(p, r), x, y, x2, y2)
        /\ EdwardsAdd(q, r) \in CurvePoints /\ Lawful(EdwardsAdd(q, r), x, y, x2, y2)
    BY <1>1, <1>2, <1>3, AdditionLaw
  <2> QED BY <1>4, <2>1, LawfulEqual
<1> DEFINE m == -x   m2 == -x2
<1>7. EdwardsEq(EdwardsSub(p, r), EdwardsSub(q, r))
  <2>1. /\ EdwardsSub(p, r) \in CurvePoints /\ Lawful(EdwardsSub(p, r), x, y, m2, y2)
        /\ EdwardsSub(q, r) \in CurvePoints /\ Lawful(EdwardsSub(q, r), x, y, m2, y2)
    BY <1>1, <1>2, <1>3, AdditionLaw
  <2>2. m2 \in Int /\ OnModel(m2, y2)
    BY <1>5
  <2> HIDE DEF m2
  <2> QED BY <1>4, <2>1, <2>2, LawfulEqual
<1>8. EdwardsEq(EdwardsSub(r, p), EdwardsSub(r, q))
  <2>1. /\ EdwardsSub(r, p) \in CurvePoints /\ Lawful(EdwardsSub(r, p), x2, y2, m, y)
        /\ EdwardsSub(r, q) \in CurvePoints /\ Lawful(EdwardsSub(r, q), x2, y2, m, y)
    BY <1>1, <1>2, <1>3, AdditionLaw
  <2>2. m \in Int /\ OnModel(m, y)
    BY <1>5
  <2> HIDE DEF m
  <2> QED BY <1>4, <2>1, <2>2, LawfulEqual
<1>9. EdwardsEq(EdwardsDouble(p), EdwardsDouble(q))
  <2>1. /\ EdwardsDouble(p) \in CurvePoints /\ Lawful(EdwardsDouble(p), x, y, x, y)
        /\ EdwardsDouble(q) \in CurvePoints /\ Lawful(EdwardsDouble(q), x, y, x, y)
    BY <1>1, <1>2, DoublingLaw
  <2> QED BY <1>4, <2>1, LawfulEqual
<1> QED BY <1>6, <1>7, <1>8, <1>9
=============================================================================
