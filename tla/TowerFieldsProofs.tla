--------------------------- MODULE TowerFieldsProofs ---------------------------
(***************************************************************************)
(* The short formulas of the tower compute the products they abbreviate,   *)
(* for every modulus Q and every nonresidue Xi0 + u.  An element of the    *)
(* tower is the residue of a polynomial with integer coefficients, each    *)
(* operation the residue of the exact one, and the identities are those    *)
(* of polynomials over the integers.                                       *)
(***************************************************************************)
EXTENDS TowerFields, TLAPS

-----------------------------------------------------------------------------
(* Residues                                                                *)

LEMMA QType == Q \in Nat \ {0} /\ Xi0 \in Int
BY QAssumption

(* Numbers a multiple of Q apart have one residue.                         *)
LEMMA SameResidue ==
  ASSUME NEW n \in Int, NEW m \in Int, NEW t \in Int, n = m + t * Q
  PROVE  n % Q = m % Q
<1>1. ASSUME NEW q \in Nat \ {0}, NEW x \in Int
      PROVE  x = q * (x \div q) + (x % q) /\ x \div q \in Int /\ x % q \in 0..(q - 1)
  OBVIOUS
<1>2. ASSUME NEW q \in Nat \ {0}, NEW a \in Int, NEW b \in Int, NEW r \in 0..(q - 1), NEW s \in 0..(q - 1),
             q * a + r = q * b + s + t * q
      PROVE  r = s
  <2>1. q * (b + t - a) = r - s
    BY <1>2
  <2>2. b + t - a = 0
    <3>1. CASE b + t - a >= 1
      <4>1. q * (b + t - a) >= q
        BY <3>1
      <4> QED BY <2>1, <4>1
    <3>2. CASE b + t - a <= -1
      <4>1. q * (b + t - a) <= -q
        BY <3>2
      <4> QED BY <2>1, <4>1
    <3> QED BY <3>1, <3>2
  <2> QED BY <2>1, <2>2
<1>3. /\ n = Q * (n \div Q) + (n % Q) /\ n \div Q \in Int /\ n % Q \in 0..(Q - 1)
      /\ m = Q * (m \div Q) + (m % Q) /\ m \div Q \in Int /\ m % Q \in 0..(Q - 1)
  BY <1>1, QType
<1>4. Q * (n \div Q) + (n % Q) = Q * (m \div Q) + (m % Q) + t * Q
  BY <1>3
<1> QED BY <1>2, <1>3, <1>4, QType

(* A number is a multiple of Q away from its residue.                      *)
LEMMA ResidueForm ==
  ASSUME NEW x \in Int
  PROVE  x % Q \in Fq /\ \E k \in Int : x % Q = x + k * Q
<1>1. x \div Q \in Int /\ x % Q \in 0..(Q - 1) /\ x = Q * (x \div Q) + (x % Q)
  BY QType
<1>2. -(x \div Q) \in Int /\ x % Q = x + (-(x \div Q)) * Q
  BY <1>1, QType
<1> QED BY <1>1, <1>2 DEF Fq

(* Elements of Fq are their own residues.                                  *)
LEMMA OwnResidue == ASSUME NEW x \in Fq PROVE x \in Int /\ x % Q = x
BY QType DEF Fq
-----------------------------------------------------------------------------
(* Z[u]: pairs of integers, their residues and the exact operations        *)

Z2 == Int \X Int
Fq2 == Fq \X Fq
Red2(x) == <<x[1] % Q, x[2] % Q>>
ZAdd2(x, y) == <<x[1] + y[1], x[2] + y[2]>>
ZSub2(x, y) == <<x[1] - y[1], x[2] - y[2]>>
ZNeg2(x) == <<-x[1], -x[2]>>
ZMul2(x, y) == <<x[1] * y[1] - x[2] * y[2], x[1] * y[2] + x[2] * y[1]>>
ZXi2(x) == <<Xi0 * x[1] - x[2], Xi0 * x[2] + x[1]>>

LEMMA TypeZ2 ==
  /\ \A x \in Z2 : /\ x[1] \in Int /\ x[2] \in Int /\ x = <<x[1], x[2]>>
                   /\ Red2(x) \in Fq2 /\ Red2(x) \in Z2 /\ ZNeg2(x) \in Z2 /\ ZXi2(x) \in Z2
  /\ \A x, y \in Z2 : ZAdd2(x, y) \in Z2 /\ ZSub2(x, y) \in Z2 /\ ZMul2(x, y) \in Z2
  /\ \A x \in Fq2 : x \in Z2 /\ Red2(x) = x
<1>1. \A n \in Int : n % Q \in Fq
  BY ResidueForm
<1>2. Fq \subseteq Int
  BY OwnResidue
<1>3. ASSUME NEW x \in Z2
      PROVE  /\ x[1] \in Int /\ x[2] \in Int /\ x = <<x[1], x[2]>>
             /\ Red2(x) \in Fq2 /\ Red2(x) \in Z2
  <2>1. x[1] \in Int /\ x[2] \in Int /\ x = <<x[1], x[2]>>
    BY DEF Z2
  <2>2. x[1] % Q \in Fq /\ x[2] % Q \in Fq
    BY <2>1, <1>1
  <2> QED BY <2>1, <2>2, <1>2 DEF Z2, Fq2, Red2
<1>4. ASSUME NEW x \in Z2 PROVE ZNeg2(x) \in Z2 /\ ZXi2(x) \in Z2
  BY <1>3, QType DEF Z2, ZNeg2, ZXi2
<1>5. ASSUME NEW x \in Z2, NEW y \in Z2
      PROVE  ZAdd2(x, y) \in Z2 /\ ZSub2(x, y) \in Z2 /\ ZMul2(x, y) \in Z2
  BY <1>3 DEF Z2, ZAdd2, ZSub2, ZMul2
<1>6. ASSUME NEW x \in Fq2 PROVE x \in Z2 /\ Red2(x) = x
  <2>1. x[1] \in Fq /\ x[2] \in Fq /\ x = <<x[1], x[2]>>
    BY DEF Fq2
  <2> QED BY <2>1, <1>2, OwnResidue DEF Z2, Red2
<1> QED BY <1>3, <1>4, <1>5, <1>6

(* The operations of Fq2 are the exact ones on residues: what they compute *)
(* depends on the residues of their operands only.                         *)
LEMMA Residues2 ==
  ASSUME NEW x \in Z2, NEW y \in Z2
  PROVE  /\ Add2(Red2(x), Red2(y)) = Red2(ZAdd2(x, y))
         /\ Sub2(Red2(x), Red2(y)) = Red2(ZSub2(x, y))
         /\ Neg2(Red2(x)) = Red2(ZNeg2(x))
         /\ Mul2(Red2(x), Red2(y)) = Red2(ZMul2(x, y))
         /\ Square2(Red2(x)) = Red2(ZMul2(x, x))
         /\ MulByNonresidue2(Red2(x)) = Red2(ZXi2(x))
<1> DEFINE a == x[1]
           b == x[2]
           c == y[1]
           d == y[2]
<1>1. a \in Int /\ b \in Int /\ c \in Int /\ d \in Int
  BY TypeZ2
<1>2. PICK i \in Int, j \in Int, k \in Int, l \in Int :
        a % Q = a + i * Q /\ b % Q = b + j * Q /\ c % Q = c + k * Q /\ d % Q = d + l * Q
  <2>1. \A n \in Int : \E m \in Int : n % Q = n + m * Q
    BY ResidueForm
  <2> QED BY <1>1, <2>1
<1> HIDE DEF a, b, c, d
<1>4. /\ ((a + i * Q) + (c + k * Q)) % Q = (a + c) % Q
      /\ ((b + j * Q) + (d + l * Q)) % Q = (b + d) % Q
  <2>1. ((a + i * Q) + (c + k * Q)) % Q = (a + c) % Q
    <3> DEFINE n == (a + i * Q) + (c + k * Q)
               m == a + c
               t == i + k
    <3>1. n \in Int /\ m \in Int /\ t \in Int /\ n = m + t * Q
      BY <1>1, <1>2, QType
    <3> HIDE DEF n, m, t
    <3>2. n % Q = m % Q
      BY <3>1, SameResidue
    <3> QED BY <3>2 DEF n, m
  <2>2. ((b + j * Q) + (d + l * Q)) % Q = (b + d) % Q
    <3> DEFINE n == (b + j * Q) + (d + l * Q)
               m == b + d
               t == j + l
    <3>1. n \in Int /\ m \in Int /\ t \in Int /\ n = m + t * Q
      BY <1>1, <1>2, QType
    <3> HIDE DEF n, m, t
    <3>2. n % Q = m % Q
      BY <3>1, SameResidue
    <3> QED BY <3>2 DEF n, m
  <2> QED BY <2>1, <2>2
<1>5. /\ ((a + i * Q) - (c + k * Q)) % Q = (a - c) % Q
      /\ ((b + j * Q) - (d + l * Q)) % Q = (b - d) % Q
  <2>1. ((a + i * Q) - (c + k * Q)) % Q = (a - c) % Q
    <3> DEFINE n == (a + i * Q) - (c + k * Q)
               m == a - c
               t == i - k
    <3>1. n \in Int /\ m \in Int /\ t \in Int /\ n = m + t * Q
      BY <1>1, <1>2, QType
    <3> HIDE DEF n, m, t
    <3>2. n % Q = m % Q
      BY <3>1, SameResidue
    <3> QED BY <3>2 DEF n, m
  <2>2. ((b + j * Q) - (d + l * Q)) % Q = (b - d) % Q
    <3> DEFINE n == (b + j * Q) - (d + l * Q)
               m == b - d
               t == j - l
    <3>1. n \in Int /\ m \in Int /\ t \in Int /\ n = m + t * Q
      BY <1>1, <1>2, QType
    <3> HIDE DEF n, m, t
    <3>2. n % Q = m % Q
      BY <3>1, SameResidue
    <3> QED BY <3>2 DEF n, m
  <2> QED BY <2>1, <2>2
<1>6. /\ (-(a + i * Q)) % Q = (-a) % Q
      /\ (-(b + j * Q)) % Q = (-b) % Q
  <2>1. (-(a + i * Q)) % Q = (-a) % Q
    <3> DEFINE n == -(a + i * Q)
               m == -a
               t == -i
    <3>1. n \in Int /\ m \in Int /\ t \in Int /\ n = m + t * Q
      BY <1>1, <1>2, QType
    <3> HIDE DEF n, m, t
    <3>2. n % Q = m % Q
      BY <3>1, SameResidue
    <3> QED BY <3>2 DEF n, m
  <2>2. (-(b + j * Q)) % Q = (-b) % Q
    <3> DEFINE n == -(b + j * Q)
               m == -b
               t == -j
    <3>1. n \in Int /\ m \in Int /\ t \in Int /\ n = m + t * Q
      BY <1>1, <1>2, QType
    <3> HIDE DEF n, m, t
    <3>2. n % Q = m % Q
      BY <3>1, SameResidue
    <3> QED BY <3>2 DEF n, m
  <2> QED BY <2>1, <2>2
<1>7. ((a + i * Q) * (c + k * Q) - (b + j * Q) * (d + l * Q)) % Q = (a * c - b * d) % Q
  <2> DEFINE n == (a + i * Q) * (c + k * Q) - (b + j * Q) * (d + l * Q)
             m == a * c - b * d
             t == a * k + i * c + i * k * Q - b * l - j * d - j * l * Q
  <2>1. n \in Int /\ m \in Int /\ t \in Int /\ n = m + t * Q
    BY <1>1, <1>2, QType
  <2> HIDE DEF n, m, t
  <2>2. n % Q = m % Q
    BY <2>1, SameResidue
  <2> QED BY <2>2 DEF n, m
<1>8. (((a + i * Q) + (b + j * Q)) * ((c + k * Q) + (d + l * Q)) - (a + i * Q) * (c + k * Q) - (b + j * Q) * (d + l * Q)) % Q = (a * d + b * c) % Q
  <2> DEFINE n == ((a + i * Q) + (b + j * Q)) * ((c + k * Q) + (d + l * Q)) - (a + i * Q) * (c + k * Q) - (b + j * Q) * (d + l * Q)
             m == a * d + b * c
             t == a * l + i * d + i * l * Q + b * k + j * c + j * k * Q
  <2>1. n \in Int /\ m \in Int /\ t \in Int /\ n = m + t * Q
    BY <1>1, <1>2, QType
  <2> HIDE DEF n, m, t
  <2>2. n % Q = m % Q
    BY <2>1, SameResidue
  <2> QED BY <2>2 DEF n, m
<1>9. /\ (Xi0 * (a + i * Q) - (b + j * Q)) % Q = (Xi0 * a - b) % Q
      /\ (Xi0 * (b + j * Q) + (a + i * Q)) % Q = (Xi0 * b + a) % Q
  <2>1. (Xi0 * (a + i * Q) - (b + j * Q)) % Q = (Xi0 * a - b) % Q
    <3> DEFINE n == Xi0 * (a + i * Q) - (b + j * Q)
               m == Xi0 * a - b
               t == Xi0 * i - j
    <3>1. n \in Int /\ m \in Int /\ t \in Int /\ n = m + t * Q
      BY <1>1, <1>2, QType
    <3> HIDE DEF n, m, t
    <3>2. n % Q = m % Q
      BY <3>1, SameResidue
    <3> QED BY <3>2 DEF n, m
  <2>2. (Xi0 * (b + j * Q) + (a + i * Q)) % Q = (Xi0 * b + a) % Q
    <3> DEFINE n == Xi0 * (b + j * Q) + (a + i * Q)
               m == Xi0 * b + a
               t == Xi0 * j + i
    <3>1. n \in Int /\ m \in Int /\ t \in Int /\ n = m + t * Q
      BY <1>1, <1>2, QType
    <3> HIDE DEF n, m, t
    <3>2. n % Q = m % Q
      BY <3>1, SameResidue
    <3> QED BY <3>2 DEF n, m
  <2> QED BY <2>1, <2>2
<1>10. Red2(x) = <<a + i * Q, b + j * Q>> /\ Red2(y) = <<c + k * Q, d + l * Q>>
  BY <1>2 DEF Red2, a, b, c, d
<1>11. Square2(Red2(x)) = Red2(ZMul2(x, x))
  <2> DEFINE A == a + i * Q
             B == b + j * Q
             ab == (A * B) % Q
  <2>1. A \in Int /\ B \in Int
    BY <1>1, <1>2, QType
  <2>2. ab \in Int
    BY <2>1, ResidueForm, OwnResidue
  <2>3. PICK m0 \in Int : ab = A * B + m0 * Q
    <3>1. A * B \in Int
      BY <2>1
    <3> QED BY <3>1, ResidueForm
  <2> HIDE DEF ab
  <2>4. ((A - B) * (A + B) - ab + ab) % Q = (a * a - b * b) % Q
    <3> DEFINE n == (A - B) * (A + B) - ab + ab
               m == a * a - b * b
               t == 2 * a * i + i * i * Q - 2 * b * j - j * j * Q
    <3>1. n \in Int /\ m \in Int /\ t \in Int /\ n = m + t * Q
      BY <1>1, <1>2, <2>2, QType
    <3> HIDE DEF n, m, t
    <3>2. n % Q = m % Q
      BY <3>1, SameResidue
    <3> QED BY <3>2 DEF n, m
  <2>5. (ab + ab) % Q = (a * b + b * a) % Q
    <3> DEFINE n == ab + ab
               m == a * b + b * a
               t == 2 * (a * j + i * b + i * j * Q + m0)
    <3>1. n \in Int /\ m \in Int /\ t \in Int /\ n = m + t * Q
      BY <1>1, <1>2, <2>3, QType
    <3> HIDE DEF n, m, t
    <3>2. n % Q = m % Q
      BY <3>1, SameResidue
    <3> QED BY <3>2 DEF n, m
  <2>6. Square2(Red2(x)) = <<((A - B) * (A + B) - ab + ab) % Q, (ab + ab) % Q>>
    BY <1>10 DEF Square2, ab
  <2> QED BY <2>4, <2>5, <2>6 DEF Red2, ZMul2, a, b
<1>12. Add2(Red2(x), Red2(y)) = Red2(ZAdd2(x, y)) /\ Sub2(Red2(x), Red2(y)) = Red2(ZSub2(x, y))
  BY <1>4, <1>5, <1>10 DEF Add2, Sub2, Red2, ZAdd2, ZSub2, a, b, c, d
<1>13. Neg2(Red2(x)) = Red2(ZNeg2(x)) /\ MulByNonresidue2(Red2(x)) = Red2(ZXi2(x))
  BY <1>6, <1>9, <1>10 DEF Neg2, MulByNonresidue2, Red2, ZNeg2, ZXi2, a, b
<1>14. Mul2(Red2(x), Red2(y)) = Red2(ZMul2(x, y))
  BY <1>7, <1>8, <1>10 DEF Mul2, Product2, Red2, ZMul2, a, b, c, d
<1> QED BY <1>11, <1>12, <1>13, <1>14

(* The same, for chains of operations.                                     *)
LEMMA Chains2 ==
  \A x, y \in Z2 :
    /\ ZAdd2(x, y) \in Z2 /\ Add2(Red2(x), Red2(y)) = Red2(ZAdd2(x, y))
    /\ ZSub2(x, y) \in Z2 /\ Sub2(Red2(x), Red2(y)) = Red2(ZSub2(x, y))
    /\ ZMul2(x, y) \in Z2 /\ Mul2(Red2(x), Red2(y)) = Red2(ZMul2(x, y))
    /\ Square2(Red2(x)) = Red2(ZMul2(x, x))
    /\ ZNeg2(x) \in Z2 /\ Neg2(Red2(x)) = Red2(ZNeg2(x))
    /\ ZXi2(x) \in Z2 /\ MulByNonresidue2(Red2(x)) = Red2(ZXi2(x))
BY TypeZ2, Residues2

-----------------------------------------------------------------------------
(* Z[u][v], v^3 = xi                                                       *)

Z6 == Z2 \X Z2 \X Z2
Fq6 == Fq2 \X Fq2 \X Fq2
Red6(x) == <<Red2(x[1]), Red2(x[2]), Red2(x[3])>>
ZAdd6(x, y) == <<ZAdd2(x[1], y[1]), ZAdd2(x[2], y[2]), ZAdd2(x[3], y[3])>>
ZSub6(x, y) == <<ZSub2(x[1], y[1]), ZSub2(x[2], y[2]), ZSub2(x[3], y[3])>>
ZNeg6(x) == <<ZNeg2(x[1]), ZNeg2(x[2]), ZNeg2(x[3])>>
ZV6(x) == <<ZXi2(x[3]), x[1], x[2]>>
ZMul6(x, y) ==
  <<ZAdd2(ZXi2(ZAdd2(ZMul2(x[2], y[3]), ZMul2(x[3], y[2]))), ZMul2(x[1], y[1])),
    ZAdd2(ZAdd2(ZMul2(x[1], y[2]), ZMul2(x[2], y[1])), ZXi2(ZMul2(x[3], y[3]))),
    ZAdd2(ZAdd2(ZMul2(x[1], y[3]), ZMul2(x[3], y[1])), ZMul2(x[2], y[2]))>>

LEMMA TypeZ6 ==
  /\ \A x \in Z6 : /\ x[1] \in Z2 /\ x[2] \in Z2 /\ x[3] \in Z2 /\ x = <<x[1], x[2], x[3]>>
                   /\ Red6(x) \in Fq6 /\ Red6(x) \in Z6 /\ ZNeg6(x) \in Z6 /\ ZV6(x) \in Z6
  /\ \A x, y \in Z6 : ZAdd6(x, y) \in Z6 /\ ZSub6(x, y) \in Z6 /\ ZMul6(x, y) \in Z6
  /\ \A x \in Fq6 : x \in Z6 /\ Red6(x) = x
<1>1. ASSUME NEW x \in Z6
      PROVE  x[1] \in Z2 /\ x[2] \in Z2 /\ x[3] \in Z2 /\ x = <<x[1], x[2], x[3]>>
  BY DEF Z6
<1>2. ASSUME NEW x \in Z6
      PROVE  Red6(x) \in Fq6 /\ Red6(x) \in Z6 /\ ZNeg6(x) \in Z6 /\ ZV6(x) \in Z6
  BY <1>1, TypeZ2 DEF Z6, Fq6, Red6, ZNeg6, ZV6
<1>3. ASSUME NEW x \in Z6, NEW y \in Z6
      PROVE  ZAdd6(x, y) \in Z6 /\ ZSub6(x, y) \in Z6
  BY <1>1, TypeZ2 DEF Z6, ZAdd6, ZSub6
<1>4. ASSUME NEW x \in Z6, NEW y \in Z6 PROVE ZMul6(x, y) \in Z6
  BY <1>1, TypeZ2 DEF Z6, ZMul6
<1>5. ASSUME NEW x \in Fq6 PROVE x \in Z6 /\ Red6(x) = x
  <2>1. x[1] \in Fq2 /\ x[2] \in Fq2 /\ x[3] \in Fq2 /\ x = <<x[1], x[2], x[3]>>
    BY DEF Fq6
  <2> QED BY <2>1, TypeZ2 DEF Z6, Red6
<1> QED BY <1>1, <1>2, <1>3, <1>4, <1>5

(* Karatsuba: a product of sums without the products of the parts.         *)
LEMMA Karatsuba ==
  ASSUME NEW x2 \in Z2, NEW x3 \in Z2, NEW y2 \in Z2, NEW y3 \in Z2
  PROVE  /\ ZSub2(ZSub2(ZMul2(ZAdd2(y2, y3), ZAdd2(x2, x3)), ZMul2(x2, y2)), ZMul2(x3, y3))
              = ZAdd2(ZMul2(x2, y3), ZMul2(x3, y2))
         /\ ZSub2(ZMul2(y2, ZAdd2(x2, x3)), ZMul2(x2, y2)) = ZMul2(x3, y2)
         /\ ZSub2(ZMul2(y2, ZAdd2(x3, x2)), ZMul2(x2, y2)) = ZMul2(x3, y2)
<1>1. PICK a \in Int, b \in Int, c \in Int, d \in Int, e \in Int, f \in Int, g \in Int, h \in Int :
        x2 = <<a, b>> /\ x3 = <<c, d>> /\ y2 = <<e, f>> /\ y3 = <<g, h>>
  BY TypeZ2
<1> QED BY <1>1 DEF ZSub2, ZAdd2, ZMul2

(* The third coefficient, taken apart in another order.                    *)
LEMMA KaratsubaLast ==
  ASSUME NEW x1 \in Z2, NEW x2 \in Z2, NEW x3 \in Z2,
         NEW y1 \in Z2, NEW y2 \in Z2, NEW y3 \in Z2
  PROVE  ZSub2(ZAdd2(ZSub2(ZMul2(ZAdd2(y1, y3), ZAdd2(x1, x3)), ZMul2(x1, y1)), ZMul2(x2, y2)), ZMul2(x3, y3))
           = ZAdd2(ZAdd2(ZMul2(x1, y3), ZMul2(x3, y1)), ZMul2(x2, y2))
<1>1. PICK a \in Int, b \in Int, c \in Int, d \in Int, e \in Int, f \in Int, g \in Int, h \in Int,
           k \in Int, l \in Int, m \in Int, n \in Int :
        /\ x1 = <<a, b>> /\ x2 = <<c, d>> /\ x3 = <<e, f>>
        /\ y1 = <<g, h>> /\ y2 = <<k, l>> /\ y3 = <<m, n>>
  BY TypeZ2
<1> QED BY <1>1 DEF ZSub2, ZAdd2, ZMul2

(* The coefficients of a square from three squares and two products.       *)
LEMMA SquareCoefficients ==
  ASSUME NEW x1 \in Z2, NEW x2 \in Z2, NEW x3 \in Z2
  PROVE  LET s1 == ZAdd2(ZMul2(x1, x2), ZMul2(x1, x2))
             t == ZAdd2(ZSub2(x1, x2), x3)
             s3 == ZAdd2(ZMul2(x2, x3), ZMul2(x2, x3))
         IN  /\ s3 = ZAdd2(ZMul2(x2, x3), ZMul2(x3, x2))
             /\ s1 = ZAdd2(ZMul2(x1, x2), ZMul2(x2, x1))
             /\ ZSub2(ZSub2(ZAdd2(ZAdd2(s1, ZMul2(t, t)), s3), ZMul2(x1, x1)), ZMul2(x3, x3))
                  = ZAdd2(ZAdd2(ZMul2(x1, x3), ZMul2(x3, x1)), ZMul2(x2, x2))
<1>1. PICK a \in Int, b \in Int, c \in Int, d \in Int, e \in Int, f \in Int :
        x1 = <<a, b>> /\ x2 = <<c, d>> /\ x3 = <<e, f>>
  BY TypeZ2
<1> QED BY <1>1 DEF ZSub2, ZAdd2, ZMul2

(* Karatsuba in Fq6.                                                       *)
LEMMA ResiduesMul6 ==
  ASSUME NEW x \in Z6, NEW y \in Z6
  PROVE  Mul6(Red6(x), Red6(y)) = Red6(ZMul6(x, y))
<1> DEFINE x1 == x[1]
           x2 == x[2]
           x3 == x[3]
           y1 == y[1]
           y2 == y[2]
           y3 == y[3]
<1>1. x1 \in Z2 /\ x2 \in Z2 /\ x3 \in Z2 /\ y1 \in Z2 /\ y2 \in Z2 /\ y3 \in Z2
  BY TypeZ6
<1>2. Red6(x) = <<Red2(x1), Red2(x2), Red2(x3)>> /\ Red6(y) = <<Red2(y1), Red2(y2), Red2(y3)>>
  BY DEF Red6
<1>3. Red6(ZMul6(x, y)) =
        <<Red2(ZAdd2(ZXi2(ZAdd2(ZMul2(x2, y3), ZMul2(x3, y2))), ZMul2(x1, y1))),
          Red2(ZAdd2(ZAdd2(ZMul2(x1, y2), ZMul2(x2, y1)), ZXi2(ZMul2(x3, y3)))),
          Red2(ZAdd2(ZAdd2(ZMul2(x1, y3), ZMul2(x3, y1)), ZMul2(x2, y2)))>>
  BY DEF Red6, ZMul6
<1> HIDE DEF x1, x2, x3, y1, y2, y3
<1>4. Mul6(Red6(x), Red6(y)) =
        <<Add2(MulByNonresidue2(Sub2(Sub2(Mul2(Add2(Red2(y2), Red2(y3)), Add2(Red2(x2), Red2(x3))),
                                          Mul2(Red2(x2), Red2(y2))), Mul2(Red2(x3), Red2(y3)))),
               Mul2(Red2(x1), Red2(y1))),
          Add2(Sub2(Sub2(Mul2(Add2(Red2(y1), Red2(y2)), Add2(Red2(x1), Red2(x2))),
                         Mul2(Red2(x1), Red2(y1))), Mul2(Red2(x2), Red2(y2))),
               MulByNonresidue2(Mul2(Red2(x3), Red2(y3)))),
          Sub2(Add2(Sub2(Mul2(Add2(Red2(y1), Red2(y3)), Add2(Red2(x1), Red2(x3))),
                         Mul2(Red2(x1), Red2(y1))), Mul2(Red2(x2), Red2(y2))),
               Mul2(Red2(x3), Red2(y3)))>>
  BY <1>2 DEF Mul6, Mul6From
<1>5. Add2(MulByNonresidue2(Sub2(Sub2(Mul2(Add2(Red2(y2), Red2(y3)), Add2(Red2(x2), Red2(x3))),
                                      Mul2(Red2(x2), Red2(y2))), Mul2(Red2(x3), Red2(y3)))),
           Mul2(Red2(x1), Red2(y1)))
        = Red2(ZAdd2(ZXi2(ZAdd2(ZMul2(x2, y3), ZMul2(x3, y2))), ZMul2(x1, y1)))
  <2>1. Add2(MulByNonresidue2(Sub2(Sub2(Mul2(Add2(Red2(y2), Red2(y3)), Add2(Red2(x2), Red2(x3))),
                                      Mul2(Red2(x2), Red2(y2))), Mul2(Red2(x3), Red2(y3)))),
           Mul2(Red2(x1), Red2(y1)))
        = Red2(ZAdd2(ZXi2(ZSub2(ZSub2(ZMul2(ZAdd2(y2, y3), ZAdd2(x2, x3)), ZMul2(x2, y2)), ZMul2(x3, y3))), ZMul2(x1, y1)))
    BY <1>1, Chains2
  <2>2. ZSub2(ZSub2(ZMul2(ZAdd2(y2, y3), ZAdd2(x2, x3)), ZMul2(x2, y2)), ZMul2(x3, y3)) = ZAdd2(ZMul2(x2, y3), ZMul2(x3, y2))
    BY <1>1, Karatsuba
  <2> QED BY <2>1, <2>2
<1>6. Add2(Sub2(Sub2(Mul2(Add2(Red2(y1), Red2(y2)), Add2(Red2(x1), Red2(x2))),
                     Mul2(Red2(x1), Red2(y1))), Mul2(Red2(x2), Red2(y2))),
           MulByNonresidue2(Mul2(Red2(x3), Red2(y3))))
        = Red2(ZAdd2(ZAdd2(ZMul2(x1, y2), ZMul2(x2, y1)), ZXi2(ZMul2(x3, y3))))
  <2>1. Add2(Sub2(Sub2(Mul2(Add2(Red2(y1), Red2(y2)), Add2(Red2(x1), Red2(x2))),
                       Mul2(Red2(x1), Red2(y1))), Mul2(Red2(x2), Red2(y2))),
             MulByNonresidue2(Mul2(Red2(x3), Red2(y3))))
        = Red2(ZAdd2(ZSub2(ZSub2(ZMul2(ZAdd2(y1, y2), ZAdd2(x1, x2)), ZMul2(x1, y1)), ZMul2(x2, y2)),
                     ZXi2(ZMul2(x3, y3))))
    BY <1>1, Chains2
  <2>2. ZSub2(ZSub2(ZMul2(ZAdd2(y1, y2), ZAdd2(x1, x2)), ZMul2(x1, y1)), ZMul2(x2, y2))
          = ZAdd2(ZMul2(x1, y2), ZMul2(x2, y1))
    BY <1>1, Karatsuba
  <2> QED BY <2>1, <2>2
<1>7. Sub2(Add2(Sub2(Mul2(Add2(Red2(y1), Red2(y3)), Add2(Red2(x1), Red2(x3))),
                     Mul2(Red2(x1), Red2(y1))), Mul2(Red2(x2), Red2(y2))),
           Mul2(Red2(x3), Red2(y3)))
        = Red2(ZAdd2(ZAdd2(ZMul2(x1, y3), ZMul2(x3, y1)), ZMul2(x2, y2)))
  <2>1. Sub2(Add2(Sub2(Mul2(Add2(Red2(y1), Red2(y3)), Add2(Red2(x1), Red2(x3))),
                       Mul2(Red2(x1), Red2(y1))), Mul2(Red2(x2), Red2(y2))),
             Mul2(Red2(x3), Red2(y3)))
        = Red2(ZSub2(ZAdd2(ZSub2(ZMul2(ZAdd2(y1, y3), ZAdd2(x1, x3)), ZMul2(x1, y1)), ZMul2(x2, y2)),
                     ZMul2(x3, y3)))
    BY <1>1, Chains2
  <2>2. ZSub2(ZAdd2(ZSub2(ZMul2(ZAdd2(y1, y3), ZAdd2(x1, x3)), ZMul2(x1, y1)), ZMul2(x2, y2)), ZMul2(x3, y3))
          = ZAdd2(ZAdd2(ZMul2(x1, y3), ZMul2(x3, y1)), ZMul2(x2, y2))
    BY <1>1, KaratsubaLast
  <2> QED BY <2>1, <2>2
<1> QED BY <1>3, <1>4, <1>5, <1>6, <1>7

(* A square from two squares, two doubled products and a square of a sum.  *)
LEMMA ResiduesSquare6 ==
  ASSUME NEW x \in Z6
  PROVE  Square6(Red6(x)) = Red6(ZMul6(x, x))
<1> DEFINE x1 == x[1]
           x2 == x[2]
           x3 == x[3]
           s1 == ZAdd2(ZMul2(x1, x2), ZMul2(x1, x2))
           t == ZAdd2(ZSub2(x1, x2), x3)
           s3 == ZAdd2(ZMul2(x2, x3), ZMul2(x2, x3))
           last == ZSub2(ZSub2(ZAdd2(ZAdd2(s1, ZMul2(t, t)), s3), ZMul2(x1, x1)), ZMul2(x3, x3))
<1>1. x1 \in Z2 /\ x2 \in Z2 /\ x3 \in Z2
  BY TypeZ6
<1>2. Red6(x) = <<Red2(x1), Red2(x2), Red2(x3)>>
  BY DEF Red6
<1>3. Red6(ZMul6(x, x)) =
        <<Red2(ZAdd2(ZXi2(ZAdd2(ZMul2(x2, x3), ZMul2(x3, x2))), ZMul2(x1, x1))),
          Red2(ZAdd2(ZAdd2(ZMul2(x1, x2), ZMul2(x2, x1)), ZXi2(ZMul2(x3, x3)))),
          Red2(ZAdd2(ZAdd2(ZMul2(x1, x3), ZMul2(x3, x1)), ZMul2(x2, x2)))>>
  BY DEF Red6, ZMul6
<1> HIDE DEF x1, x2, x3
<1>4. /\ s3 = ZAdd2(ZMul2(x2, x3), ZMul2(x3, x2))
      /\ s1 = ZAdd2(ZMul2(x1, x2), ZMul2(x2, x1))
      /\ last = ZAdd2(ZAdd2(ZMul2(x1, x3), ZMul2(x3, x1)), ZMul2(x2, x2))
  BY <1>1, SquareCoefficients
<1>5. /\ s1 \in Z2 /\ Double2(Mul2(Red2(x1), Red2(x2))) = Red2(s1)
      /\ s3 \in Z2 /\ Double2(Mul2(Red2(x2), Red2(x3))) = Red2(s3)
      /\ t \in Z2 /\ Square2(Add2(Sub2(Red2(x1), Red2(x2)), Red2(x3))) = Red2(ZMul2(t, t))
      /\ Square2(Red2(x1)) = Red2(ZMul2(x1, x1)) /\ Square2(Red2(x3)) = Red2(ZMul2(x3, x3))
  BY <1>1, Chains2 DEF Double2
<1>6. Square6(Red6(x)) =
        Square6From(Red2(ZMul2(x1, x1)), Red2(s1), Red2(ZMul2(t, t)), Red2(s3), Red2(ZMul2(x3, x3)))
  BY <1>2, <1>5 DEF Square6
<1> HIDE DEF s1, s3, t
<1>7. Square6From(Red2(ZMul2(x1, x1)), Red2(s1), Red2(ZMul2(t, t)), Red2(s3), Red2(ZMul2(x3, x3)))
        = <<Red2(ZAdd2(ZXi2(s3), ZMul2(x1, x1))), Red2(ZAdd2(ZXi2(ZMul2(x3, x3)), s1)), Red2(last)>>
  BY <1>1, <1>5, Chains2 DEF Square6From
<1> HIDE DEF last
<1>8. ZAdd2(ZXi2(ZMul2(x3, x3)), s1) = ZAdd2(s1, ZXi2(ZMul2(x3, x3)))
  <2>1. \A y, z \in Z2 : ZAdd2(y, z) = ZAdd2(z, y)
    BY TypeZ2 DEF ZAdd2
  <2> QED BY <2>1, <1>1, <1>5, Chains2
<1> QED BY <1>3, <1>4, <1>6, <1>7, <1>8

(* The operations of Fq6 are the exact ones on residues.                   *)
LEMMA Chains6 ==
  \A x, y \in Z6 :
    /\ ZAdd6(x, y) \in Z6 /\ Add6(Red6(x), Red6(y)) = Red6(ZAdd6(x, y))
    /\ ZSub6(x, y) \in Z6 /\ Sub6(Red6(x), Red6(y)) = Red6(ZSub6(x, y))
    /\ ZMul6(x, y) \in Z6 /\ Mul6(Red6(x), Red6(y)) = Red6(ZMul6(x, y))
    /\ Square6(Red6(x)) = Red6(ZMul6(x, x))
    /\ ZNeg6(x) \in Z6 /\ Neg6(Red6(x)) = Red6(ZNeg6(x))
    /\ ZV6(x) \in Z6 /\ MulByNonresidue6(Red6(x)) = Red6(ZV6(x))
<1> SUFFICES ASSUME NEW x \in Z6, NEW y \in Z6
             PROVE  /\ Add6(Red6(x), Red6(y)) = Red6(ZAdd6(x, y))
                    /\ Sub6(Red6(x), Red6(y)) = Red6(ZSub6(x, y))
                    /\ Neg6(Red6(x)) = Red6(ZNeg6(x))
                    /\ MulByNonresidue6(Red6(x)) = Red6(ZV6(x))
  BY TypeZ6, ResiduesMul6, ResiduesSquare6
<1>1. /\ x[1] \in Z2 /\ x[2] \in Z2 /\ x[3] \in Z2
      /\ y[1] \in Z2 /\ y[2] \in Z2 /\ y[3] \in Z2
  BY TypeZ6
<1>2. Add6(Red6(x), Red6(y)) = Red6(ZAdd6(x, y)) /\ Sub6(Red6(x), Red6(y)) = Red6(ZSub6(x, y))
  BY <1>1, Chains2 DEF Add6, Sub6, Red6, ZAdd6, ZSub6
<1>3. Neg6(Red6(x)) = Red6(ZNeg6(x)) /\ MulByNonresidue6(Red6(x)) = Red6(ZV6(x))
  BY <1>1, Chains2 DEF Neg6, MulByNonresidue6, Red6, ZNeg6, ZV6
<1> QED BY <1>2, <1>3

(* Elements by their integers.                                             *)
LEMMA Integers6 ==
  ASSUME NEW x \in Z6
  PROVE  \E a, b, c, d, e, f \in Int : x = << <<a, b>>, <<c, d>>, <<e, f>> >>
BY TypeZ6, TypeZ2

(* Z[u][v] is a commutative ring, and ZV6 multiplies by v.                 *)
LEMMA Commutative6 == ASSUME NEW x \in Z6, NEW y \in Z6 PROVE ZMul6(x, y) = ZMul6(y, x)
<1>1. PICK a, b, c, d, e, f \in Int : x = << <<a, b>>, <<c, d>>, <<e, f>> >>
  BY Integers6
<1>2. PICK g, h, k, l, m, n \in Int : y = << <<g, h>>, <<k, l>>, <<m, n>> >>
  BY Integers6
<1> QED BY <1>1, <1>2, QType DEF ZMul6, ZAdd2, ZMul2, ZXi2

(* A sum in a coefficient with xi.                                         *)
LEMMA XiSum ==
  ASSUME NEW u \in Z2, NEW w \in Z2, NEW x \in Z2, NEW y \in Z2, NEW z \in Z2
  PROVE  ZAdd2(ZXi2(ZAdd2(u, w)), ZMul2(ZAdd2(x, y), z))
           = ZAdd2(ZAdd2(ZXi2(u), ZMul2(x, z)), ZAdd2(ZXi2(w), ZMul2(y, z)))
<1>1. PICK a, b, c, d, e, f, g, h, k, l \in Int :
        u = <<a, b>> /\ w = <<c, d>> /\ x = <<e, f>> /\ y = <<g, h>> /\ z = <<k, l>>
  BY TypeZ2
<1> QED BY <1>1, QType DEF ZMul2, ZAdd2, ZXi2

(* A difference in it.                                                     *)
LEMMA XiDifference ==
  ASSUME NEW u \in Z2, NEW w \in Z2, NEW x \in Z2, NEW y \in Z2, NEW z \in Z2
  PROVE  ZAdd2(ZXi2(ZSub2(u, w)), ZMul2(ZSub2(x, y), z))
           = ZSub2(ZAdd2(ZXi2(u), ZMul2(x, z)), ZAdd2(ZXi2(w), ZMul2(y, z)))
<1>1. PICK a, b, c, d, e, f, g, h, k, l \in Int :
        u = <<a, b>> /\ w = <<c, d>> /\ x = <<e, f>> /\ y = <<g, h>> /\ z = <<k, l>>
  BY TypeZ2
<1> QED BY <1>1, QType DEF ZMul2, ZAdd2, ZSub2, ZXi2

(* A factor of it.                                                         *)
LEMMA XiScale ==
  ASSUME NEW u \in Z2, NEW x \in Z2, NEW y \in Z2, NEW z \in Z2
  PROVE  ZAdd2(ZXi2(ZMul2(x, u)), ZMul2(ZMul2(x, y), z))
           = ZMul2(x, ZAdd2(ZXi2(u), ZMul2(y, z)))
<1>1. PICK a, b, c, d, e, f, g, h \in Int :
        u = <<a, b>> /\ x = <<c, d>> /\ y = <<e, f>> /\ z = <<g, h>>
  BY TypeZ2
<1> QED BY <1>1, QType DEF ZMul2, ZAdd2, ZXi2

(* ZV6 multiplies by v.                                                    *)
LEMMA ByV6 ==
  ASSUME NEW x \in Z6, NEW y \in Z6
  PROVE  ZMul6(ZV6(x), y) = ZV6(ZMul6(x, y))
<1>1. PICK a, b, c, d, e, f, g, h, k, l, m, n \in Int :
        /\ x[1] = <<a, b>> /\ x[2] = <<c, d>> /\ x[3] = <<e, f>>
        /\ y[1] = <<g, h>> /\ y[2] = <<k, l>> /\ y[3] = <<m, n>>
  BY TypeZ6, TypeZ2
<1>2. ZAdd2(ZXi2(ZAdd2(ZMul2(x[1], y[3]), ZMul2(x[2], y[2]))), ZMul2(ZXi2(x[3]), y[1]))
        = ZXi2(ZAdd2(ZAdd2(ZMul2(x[1], y[3]), ZMul2(x[3], y[1])), ZMul2(x[2], y[2])))
  BY <1>1, QType DEF ZMul2, ZAdd2, ZXi2
<1>3. ZAdd2(ZAdd2(ZMul2(ZXi2(x[3]), y[2]), ZMul2(x[1], y[1])), ZXi2(ZMul2(x[2], y[3])))
        = ZAdd2(ZXi2(ZAdd2(ZMul2(x[2], y[3]), ZMul2(x[3], y[2]))), ZMul2(x[1], y[1]))
  BY <1>1, QType DEF ZMul2, ZAdd2, ZXi2
<1>4. ZAdd2(ZAdd2(ZMul2(ZXi2(x[3]), y[3]), ZMul2(x[2], y[1])), ZMul2(x[1], y[2]))
        = ZAdd2(ZAdd2(ZMul2(x[1], y[2]), ZMul2(x[2], y[1])), ZXi2(ZMul2(x[3], y[3])))
  BY <1>1, QType DEF ZMul2, ZAdd2, ZXi2
<1>5. ZMul6(ZV6(x), y) = ZV6(ZMul6(x, y))
  BY <1>2, <1>3, <1>4 DEF ZMul6, ZV6
<1> QED BY <1>5

(* Products distribute.                                                    *)
LEMMA Distributive6 ==
  ASSUME NEW x \in Z6, NEW y \in Z6, NEW z \in Z6
  PROVE  /\ ZMul6(ZAdd6(x, y), z) = ZAdd6(ZMul6(x, z), ZMul6(y, z))
         /\ ZMul6(ZSub6(x, y), z) = ZSub6(ZMul6(x, z), ZMul6(y, z))
<1>1. PICK a, b, c, d, e, f, g, h, k, l, m, n, o, p, q, r, s, t \in Int :
        /\ x[1] = <<a, b>> /\ x[2] = <<c, d>> /\ x[3] = <<e, f>>
        /\ y[1] = <<g, h>> /\ y[2] = <<k, l>> /\ y[3] = <<m, n>>
        /\ z[1] = <<o, p>> /\ z[2] = <<q, r>> /\ z[3] = <<s, t>>
  BY TypeZ6, TypeZ2
<1>2. ZAdd2(ZXi2(ZAdd2(ZMul2(ZAdd2(x[2], y[2]), z[3]), ZMul2(ZAdd2(x[3], y[3]), z[2]))), ZMul2(ZAdd2(x[1], y[1]), z[1]))
        = ZAdd2(ZAdd2(ZXi2(ZAdd2(ZMul2(x[2], z[3]), ZMul2(x[3], z[2]))), ZMul2(x[1], z[1])), ZAdd2(ZXi2(ZAdd2(ZMul2(y[2], z[3]), ZMul2(y[3], z[2]))), ZMul2(y[1], z[1])))
  <2> DEFINE u == ZAdd2(ZMul2(x[2], z[3]), ZMul2(x[3], z[2]))
             w == ZAdd2(ZMul2(y[2], z[3]), ZMul2(y[3], z[2]))
  <2>1. ZAdd2(ZMul2(ZAdd2(x[2], y[2]), z[3]), ZMul2(ZAdd2(x[3], y[3]), z[2])) = ZAdd2(u, w)
    BY <1>1 DEF ZMul2, ZAdd2
  <2>2. u \in Z2 /\ w \in Z2
    BY TypeZ6, Chains2
  <2> HIDE DEF u, w
  <2>3. x[1] \in Z2 /\ y[1] \in Z2 /\ z[1] \in Z2
    BY TypeZ6
  <2>4. ZAdd2(ZXi2(ZAdd2(u, w)), ZMul2(ZAdd2(x[1], y[1]), z[1]))
          = ZAdd2(ZAdd2(ZXi2(u), ZMul2(x[1], z[1])), ZAdd2(ZXi2(w), ZMul2(y[1], z[1])))
    BY <2>2, <2>3, XiSum
  <2> QED BY <2>1, <2>4 DEF u, w
<1>3. ZAdd2(ZAdd2(ZMul2(ZAdd2(x[1], y[1]), z[2]), ZMul2(ZAdd2(x[2], y[2]), z[1])), ZXi2(ZMul2(ZAdd2(x[3], y[3]), z[3])))
        = ZAdd2(ZAdd2(ZAdd2(ZMul2(x[1], z[2]), ZMul2(x[2], z[1])), ZXi2(ZMul2(x[3], z[3]))), ZAdd2(ZAdd2(ZMul2(y[1], z[2]), ZMul2(y[2], z[1])), ZXi2(ZMul2(y[3], z[3]))))
  BY <1>1, QType, SMTT(60) DEF ZMul2, ZAdd2, ZXi2
<1>4. ZAdd2(ZAdd2(ZMul2(ZAdd2(x[1], y[1]), z[3]), ZMul2(ZAdd2(x[3], y[3]), z[1])), ZMul2(ZAdd2(x[2], y[2]), z[2]))
        = ZAdd2(ZAdd2(ZAdd2(ZMul2(x[1], z[3]), ZMul2(x[3], z[1])), ZMul2(x[2], z[2])), ZAdd2(ZAdd2(ZMul2(y[1], z[3]), ZMul2(y[3], z[1])), ZMul2(y[2], z[2])))
  BY <1>1, QType, SMTT(60) DEF ZMul2, ZAdd2, ZXi2
<1>5. ZMul6(ZAdd6(x, y), z) = ZAdd6(ZMul6(x, z), ZMul6(y, z))
  BY <1>2, <1>3, <1>4 DEF ZMul6, ZAdd6
<1>6. ZAdd2(ZXi2(ZAdd2(ZMul2(ZSub2(x[2], y[2]), z[3]), ZMul2(ZSub2(x[3], y[3]), z[2]))), ZMul2(ZSub2(x[1], y[1]), z[1]))
        = ZSub2(ZAdd2(ZXi2(ZAdd2(ZMul2(x[2], z[3]), ZMul2(x[3], z[2]))), ZMul2(x[1], z[1])), ZAdd2(ZXi2(ZAdd2(ZMul2(y[2], z[3]), ZMul2(y[3], z[2]))), ZMul2(y[1], z[1])))
  <2> DEFINE u == ZAdd2(ZMul2(x[2], z[3]), ZMul2(x[3], z[2]))
             w == ZAdd2(ZMul2(y[2], z[3]), ZMul2(y[3], z[2]))
  <2>1. ZAdd2(ZMul2(ZSub2(x[2], y[2]), z[3]), ZMul2(ZSub2(x[3], y[3]), z[2])) = ZSub2(u, w)
    BY <1>1 DEF ZMul2, ZAdd2, ZSub2
  <2>2. u \in Z2 /\ w \in Z2
    BY TypeZ6, Chains2
  <2> HIDE DEF u, w
  <2>3. x[1] \in Z2 /\ y[1] \in Z2 /\ z[1] \in Z2
    BY TypeZ6
  <2>4. ZAdd2(ZXi2(ZSub2(u, w)), ZMul2(ZSub2(x[1], y[1]), z[1]))
          = ZSub2(ZAdd2(ZXi2(u), ZMul2(x[1], z[1])), ZAdd2(ZXi2(w), ZMul2(y[1], z[1])))
    BY <2>2, <2>3, XiDifference
  <2> QED BY <2>1, <2>4 DEF u, w
<1>7. ZAdd2(ZAdd2(ZMul2(ZSub2(x[1], y[1]), z[2]), ZMul2(ZSub2(x[2], y[2]), z[1])), ZXi2(ZMul2(ZSub2(x[3], y[3]), z[3])))
        = ZSub2(ZAdd2(ZAdd2(ZMul2(x[1], z[2]), ZMul2(x[2], z[1])), ZXi2(ZMul2(x[3], z[3]))), ZAdd2(ZAdd2(ZMul2(y[1], z[2]), ZMul2(y[2], z[1])), ZXi2(ZMul2(y[3], z[3]))))
  BY <1>1, QType, SMTT(60) DEF ZMul2, ZAdd2, ZSub2, ZXi2
<1>8. ZAdd2(ZAdd2(ZMul2(ZSub2(x[1], y[1]), z[3]), ZMul2(ZSub2(x[3], y[3]), z[1])), ZMul2(ZSub2(x[2], y[2]), z[2]))
        = ZSub2(ZAdd2(ZAdd2(ZMul2(x[1], z[3]), ZMul2(x[3], z[1])), ZMul2(x[2], z[2])), ZAdd2(ZAdd2(ZMul2(y[1], z[3]), ZMul2(y[3], z[1])), ZMul2(y[2], z[2])))
  BY <1>1, QType, SMTT(60) DEF ZMul2, ZAdd2, ZSub2, ZXi2
<1>9. ZMul6(ZSub6(x, y), z) = ZSub6(ZMul6(x, z), ZMul6(y, z))
  BY <1>6, <1>7, <1>8 DEF ZMul6, ZSub6
<1> QED BY <1>5, <1>9

ZScale6(k, x) == <<ZMul2(k, x[1]), ZMul2(k, x[2]), ZMul2(k, x[3])>>

(* A constant factor of a factor.                                          *)
LEMMA ScaledProduct ==
  ASSUME NEW k \in Z2, NEW y \in Z6, NEW z \in Z6
  PROVE  ZMul6(ZScale6(k, y), z) = ZScale6(k, ZMul6(y, z))
<1>1. PICK a, b, c, d, e, f, g, h, l, m, n, o, p, q \in Int :
        /\ k = <<a, b>> /\ y[1] = <<c, d>> /\ y[2] = <<e, f>>
        /\ y[3] = <<g, h>> /\ z[1] = <<l, m>> /\ z[2] = <<n, o>>
        /\ z[3] = <<p, q>>
  BY TypeZ6, TypeZ2
<1>2. ZAdd2(ZXi2(ZAdd2(ZMul2(ZMul2(k, y[2]), z[3]), ZMul2(ZMul2(k, y[3]), z[2]))), ZMul2(ZMul2(k, y[1]), z[1]))
        = ZMul2(k, ZAdd2(ZXi2(ZAdd2(ZMul2(y[2], z[3]), ZMul2(y[3], z[2]))), ZMul2(y[1], z[1])))
  <2> DEFINE u == ZAdd2(ZMul2(y[2], z[3]), ZMul2(y[3], z[2]))
  <2>1. ZAdd2(ZMul2(ZMul2(k, y[2]), z[3]), ZMul2(ZMul2(k, y[3]), z[2])) = ZMul2(k, u)
    BY <1>1 DEF ZMul2, ZAdd2
  <2>2. u \in Z2
    BY TypeZ6, Chains2
  <2> HIDE DEF u
  <2>3. y[1] \in Z2 /\ z[1] \in Z2
    BY TypeZ6
  <2>4. ZAdd2(ZXi2(ZMul2(k, u)), ZMul2(ZMul2(k, y[1]), z[1])) = ZMul2(k, ZAdd2(ZXi2(u), ZMul2(y[1], z[1])))
    BY <2>2, <2>3, XiScale
  <2> QED BY <2>1, <2>4 DEF u
<1>3. ZAdd2(ZAdd2(ZMul2(ZMul2(k, y[1]), z[2]), ZMul2(ZMul2(k, y[2]), z[1])), ZXi2(ZMul2(ZMul2(k, y[3]), z[3])))
        = ZMul2(k, ZAdd2(ZAdd2(ZMul2(y[1], z[2]), ZMul2(y[2], z[1])), ZXi2(ZMul2(y[3], z[3]))))
  BY <1>1, QType, SMTT(60) DEF ZMul2, ZAdd2, ZXi2
<1>4. ZAdd2(ZAdd2(ZMul2(ZMul2(k, y[1]), z[3]), ZMul2(ZMul2(k, y[3]), z[1])), ZMul2(ZMul2(k, y[2]), z[2]))
        = ZMul2(k, ZAdd2(ZAdd2(ZMul2(y[1], z[3]), ZMul2(y[3], z[1])), ZMul2(y[2], z[2])))
  BY <1>1, QType, SMTT(60) DEF ZMul2, ZAdd2, ZXi2
<1> QED BY <1>2, <1>3, <1>4 DEF ZMul6, ZScale6

(* A product, by the coefficients of a factor.                             *)
LEMMA Parts6 ==
  ASSUME NEW x \in Z6, NEW y \in Z6
  PROVE  ZMul6(x, y) = ZAdd6(ZAdd6(ZScale6(x[1], y), ZV6(ZScale6(x[2], y))), ZV6(ZV6(ZScale6(x[3], y))))
<1>1. PICK a, b, c, d, e, f, g, h, l, m, n, o \in Int :
        /\ x[1] = <<a, b>> /\ x[2] = <<c, d>> /\ x[3] = <<e, f>>
        /\ y[1] = <<g, h>> /\ y[2] = <<l, m>> /\ y[3] = <<n, o>>
  BY TypeZ6, TypeZ2
<1>2. ZAdd2(ZXi2(ZAdd2(ZMul2(x[2], y[3]), ZMul2(x[3], y[2]))), ZMul2(x[1], y[1]))
        = ZAdd2(ZAdd2(ZMul2(x[1], y[1]), ZXi2(ZMul2(x[2], y[3]))), ZXi2(ZMul2(x[3], y[2])))
  BY <1>1, QType, SMTT(60) DEF ZMul2, ZAdd2, ZXi2
<1>3. ZAdd2(ZAdd2(ZMul2(x[1], y[2]), ZMul2(x[2], y[1])), ZXi2(ZMul2(x[3], y[3])))
        = ZAdd2(ZAdd2(ZMul2(x[1], y[2]), ZMul2(x[2], y[1])), ZXi2(ZMul2(x[3], y[3])))
  BY <1>1, QType, SMTT(60) DEF ZMul2, ZAdd2, ZXi2
<1>4. ZAdd2(ZAdd2(ZMul2(x[1], y[3]), ZMul2(x[3], y[1])), ZMul2(x[2], y[2]))
        = ZAdd2(ZAdd2(ZMul2(x[1], y[3]), ZMul2(x[2], y[2])), ZMul2(x[3], y[1]))
  BY <1>1, QType, SMTT(60) DEF ZMul2, ZAdd2, ZXi2
<1> QED BY <1>2, <1>3, <1>4 DEF ZMul6, ZScale6, ZAdd6, ZV6

(* Products associate.                                                     *)
LEMMA Associative6 ==
  ASSUME NEW x \in Z6, NEW y \in Z6, NEW z \in Z6
  PROVE  ZMul6(ZMul6(x, y), z) = ZMul6(x, ZMul6(y, z))
<1> DEFINE p == ZScale6(x[1], y)
           q == ZScale6(x[2], y)
           r == ZScale6(x[3], y)
<1>1. /\ x[1] \in Z2 /\ x[2] \in Z2 /\ x[3] \in Z2
      /\ y[1] \in Z2 /\ y[2] \in Z2 /\ y[3] \in Z2
  BY TypeZ6
<1>2. p \in Z6 /\ q \in Z6 /\ r \in Z6
  BY <1>1, Chains2 DEF ZScale6, Z6
<1>3. ZMul6(x, y) = ZAdd6(ZAdd6(p, ZV6(q)), ZV6(ZV6(r)))
  BY Parts6
<1>4. /\ ZMul6(p, z) = ZScale6(x[1], ZMul6(y, z))
      /\ ZMul6(q, z) = ZScale6(x[2], ZMul6(y, z))
      /\ ZMul6(r, z) = ZScale6(x[3], ZMul6(y, z))
  BY <1>1, ScaledProduct
<1>5. ZMul6(x, ZMul6(y, z)) = ZAdd6(ZAdd6(ZMul6(p, z), ZV6(ZMul6(q, z))), ZV6(ZV6(ZMul6(r, z))))
  BY <1>4, Parts6, Chains6
<1> HIDE DEF p, q, r
<1>6. ZV6(q) \in Z6 /\ ZV6(r) \in Z6 /\ ZV6(ZV6(r)) \in Z6 /\ ZAdd6(p, ZV6(q)) \in Z6
  BY <1>2, Chains6
<1>7. /\ ZMul6(ZAdd6(ZAdd6(p, ZV6(q)), ZV6(ZV6(r))), z)
           = ZAdd6(ZMul6(ZAdd6(p, ZV6(q)), z), ZMul6(ZV6(ZV6(r)), z))
      /\ ZMul6(ZAdd6(p, ZV6(q)), z) = ZAdd6(ZMul6(p, z), ZMul6(ZV6(q), z))
  BY <1>2, <1>6, Distributive6
<1>8. /\ ZMul6(ZV6(q), z) = ZV6(ZMul6(q, z))
      /\ ZMul6(ZV6(ZV6(r)), z) = ZV6(ZMul6(ZV6(r), z)) /\ ZMul6(ZV6(r), z) = ZV6(ZMul6(r, z))
  BY <1>2, <1>6, ByV6
<1> QED BY <1>3, <1>5, <1>7, <1>8

(* Sums rearranged.                                                        *)
LEMMA Outer2 ==
  ASSUME NEW p \in Z2, NEW q \in Z2, NEW r \in Z2, NEW s \in Z2
  PROVE  ZSub2(ZSub2(ZAdd2(ZAdd2(q, s), ZAdd2(p, r)), p), s) = ZAdd2(r, q)
<1>1. PICK a, b, c, d, e, f, g, h \in Int : p = <<a, b>> /\ q = <<c, d>> /\ r = <<e, f>> /\ s = <<g, h>>
  BY TypeZ2
<1> QED BY <1>1, QType DEF ZAdd2, ZSub2, ZXi2

LEMMA Inner2 ==
  ASSUME NEW p \in Z2, NEW q \in Z2, NEW r \in Z2, NEW s \in Z2
  PROVE  ZSub2(ZSub2(ZAdd2(ZAdd2(q, s), ZAdd2(p, r)), r), q) = ZAdd2(s, p)
<1>1. PICK a, b, c, d, e, f, g, h \in Int : p = <<a, b>> /\ q = <<c, d>> /\ r = <<e, f>> /\ s = <<g, h>>
  BY TypeZ2
<1> QED BY <1>1, QType DEF ZAdd2, ZSub2, ZXi2

LEMMA Regroup2 ==
  ASSUME NEW p \in Z2, NEW q \in Z2, NEW r \in Z2, NEW s \in Z2
  PROVE  ZAdd2(ZAdd2(p, q), ZAdd2(r, s)) = ZAdd2(ZAdd2(q, r), ZAdd2(p, s))
<1>1. PICK a, b, c, d, e, f, g, h \in Int : p = <<a, b>> /\ q = <<c, d>> /\ r = <<e, f>> /\ s = <<g, h>>
  BY TypeZ2
<1> QED BY <1>1, QType DEF ZAdd2, ZSub2, ZXi2

LEMMA Exchange2 ==
  ASSUME NEW p \in Z2, NEW q \in Z2, NEW r \in Z2, NEW s \in Z2
  PROVE  ZAdd2(ZAdd2(p, q), ZAdd2(r, s)) = ZAdd2(ZAdd2(p, r), ZAdd2(q, s))
<1>1. PICK a, b, c, d, e, f, g, h \in Int : p = <<a, b>> /\ q = <<c, d>> /\ r = <<e, f>> /\ s = <<g, h>>
  BY TypeZ2
<1> QED BY <1>1, QType DEF ZAdd2, ZSub2, ZXi2

LEMMA Xi2Linear ==
  ASSUME NEW p \in Z2, NEW q \in Z2
  PROVE  ZXi2(ZAdd2(p, q)) = ZAdd2(ZXi2(p), ZXi2(q))
<1>1. PICK a, b, c, d \in Int : p = <<a, b>> /\ q = <<c, d>>
  BY TypeZ2
<1> QED BY <1>1, QType DEF ZAdd2, ZSub2, ZXi2

LEMMA Commute2 ==
  ASSUME NEW p \in Z2, NEW q \in Z2
  PROVE  ZAdd2(p, q) = ZAdd2(q, p)
<1>1. PICK a, b, c, d \in Int : p = <<a, b>> /\ q = <<c, d>>
  BY TypeZ2
<1> QED BY <1>1, QType DEF ZAdd2, ZSub2, ZXi2

LEMMA Sums6 ==
  ASSUME NEW p \in Z6, NEW q \in Z6, NEW r \in Z6, NEW s \in Z6
  PROVE  /\ ZSub6(ZSub6(ZAdd6(ZAdd6(q, s), ZAdd6(p, r)), p), s) = ZAdd6(r, q)
         /\ ZSub6(ZSub6(ZAdd6(ZAdd6(q, s), ZAdd6(p, r)), r), q) = ZAdd6(s, p)
         /\ ZAdd6(ZAdd6(p, q), ZAdd6(r, s)) = ZAdd6(ZAdd6(q, r), ZAdd6(p, s))
         /\ ZAdd6(ZAdd6(p, q), ZAdd6(r, s)) = ZAdd6(ZAdd6(p, r), ZAdd6(q, s))
         /\ ZV6(ZAdd6(p, q)) = ZAdd6(ZV6(p), ZV6(q))
         /\ ZAdd6(p, q) = ZAdd6(q, p)
<1>a. p[1] \in Z2 /\ q[1] \in Z2 /\ r[1] \in Z2 /\ s[1] \in Z2
  BY TypeZ6
<1>b. p[2] \in Z2 /\ q[2] \in Z2 /\ r[2] \in Z2 /\ s[2] \in Z2
  BY TypeZ6
<1>c. p[3] \in Z2 /\ q[3] \in Z2 /\ r[3] \in Z2 /\ s[3] \in Z2
  BY TypeZ6
<1>2. ZSub6(ZSub6(ZAdd6(ZAdd6(q, s), ZAdd6(p, r)), p), s) = ZAdd6(r, q)
  <2>1. ZSub2(ZSub2(ZAdd2(ZAdd2(q[1], s[1]), ZAdd2(p[1], r[1])), p[1]), s[1]) = ZAdd2(r[1], q[1])
    BY <1>a, Outer2
  <2>2. ZSub2(ZSub2(ZAdd2(ZAdd2(q[2], s[2]), ZAdd2(p[2], r[2])), p[2]), s[2]) = ZAdd2(r[2], q[2])
    BY <1>b, Outer2
  <2>3. ZSub2(ZSub2(ZAdd2(ZAdd2(q[3], s[3]), ZAdd2(p[3], r[3])), p[3]), s[3]) = ZAdd2(r[3], q[3])
    BY <1>c, Outer2
  <2> QED BY <2>1, <2>2, <2>3 DEF ZSub6, ZAdd6, ZV6
<1>3. ZSub6(ZSub6(ZAdd6(ZAdd6(q, s), ZAdd6(p, r)), r), q) = ZAdd6(s, p)
  <2>1. ZSub2(ZSub2(ZAdd2(ZAdd2(q[1], s[1]), ZAdd2(p[1], r[1])), r[1]), q[1]) = ZAdd2(s[1], p[1])
    BY <1>a, Inner2
  <2>2. ZSub2(ZSub2(ZAdd2(ZAdd2(q[2], s[2]), ZAdd2(p[2], r[2])), r[2]), q[2]) = ZAdd2(s[2], p[2])
    BY <1>b, Inner2
  <2>3. ZSub2(ZSub2(ZAdd2(ZAdd2(q[3], s[3]), ZAdd2(p[3], r[3])), r[3]), q[3]) = ZAdd2(s[3], p[3])
    BY <1>c, Inner2
  <2> QED BY <2>1, <2>2, <2>3 DEF ZSub6, ZAdd6, ZV6
<1>4. ZAdd6(ZAdd6(p, q), ZAdd6(r, s)) = ZAdd6(ZAdd6(q, r), ZAdd6(p, s))
  <2>1. ZAdd2(ZAdd2(p[1], q[1]), ZAdd2(r[1], s[1])) = ZAdd2(ZAdd2(q[1], r[1]), ZAdd2(p[1], s[1]))
    BY <1>a, Regroup2
  <2>2. ZAdd2(ZAdd2(p[2], q[2]), ZAdd2(r[2], s[2])) = ZAdd2(ZAdd2(q[2], r[2]), ZAdd2(p[2], s[2]))
    BY <1>b, Regroup2
  <2>3. ZAdd2(ZAdd2(p[3], q[3]), ZAdd2(r[3], s[3])) = ZAdd2(ZAdd2(q[3], r[3]), ZAdd2(p[3], s[3]))
    BY <1>c, Regroup2
  <2> QED BY <2>1, <2>2, <2>3 DEF ZSub6, ZAdd6, ZV6
<1>5. ZAdd6(ZAdd6(p, q), ZAdd6(r, s)) = ZAdd6(ZAdd6(p, r), ZAdd6(q, s))
  <2>1. ZAdd2(ZAdd2(p[1], q[1]), ZAdd2(r[1], s[1])) = ZAdd2(ZAdd2(p[1], r[1]), ZAdd2(q[1], s[1]))
    BY <1>a, Exchange2
  <2>2. ZAdd2(ZAdd2(p[2], q[2]), ZAdd2(r[2], s[2])) = ZAdd2(ZAdd2(p[2], r[2]), ZAdd2(q[2], s[2]))
    BY <1>b, Exchange2
  <2>3. ZAdd2(ZAdd2(p[3], q[3]), ZAdd2(r[3], s[3])) = ZAdd2(ZAdd2(p[3], r[3]), ZAdd2(q[3], s[3]))
    BY <1>c, Exchange2
  <2> QED BY <2>1, <2>2, <2>3 DEF ZSub6, ZAdd6, ZV6
<1>6. ZV6(ZAdd6(p, q)) = ZAdd6(ZV6(p), ZV6(q))
  <2>1. ZXi2(ZAdd2(p[1], q[1])) = ZAdd2(ZXi2(p[1]), ZXi2(q[1]))
    BY <1>a, Xi2Linear
  <2>2. ZXi2(ZAdd2(p[2], q[2])) = ZAdd2(ZXi2(p[2]), ZXi2(q[2]))
    BY <1>b, Xi2Linear
  <2>3. ZXi2(ZAdd2(p[3], q[3])) = ZAdd2(ZXi2(p[3]), ZXi2(q[3]))
    BY <1>c, Xi2Linear
  <2> QED BY <2>1, <2>2, <2>3 DEF ZSub6, ZAdd6, ZV6
<1>7. ZAdd6(p, q) = ZAdd6(q, p)
  <2>1. ZAdd2(p[1], q[1]) = ZAdd2(q[1], p[1])
    BY <1>a, Commute2
  <2>2. ZAdd2(p[2], q[2]) = ZAdd2(q[2], p[2])
    BY <1>b, Commute2
  <2>3. ZAdd2(p[3], q[3]) = ZAdd2(q[3], p[3])
    BY <1>c, Commute2
  <2> QED BY <2>1, <2>2, <2>3 DEF ZSub6, ZAdd6, ZV6
<1> QED BY <1>2, <1>3, <1>4, <1>5, <1>6, <1>7

LEMMA Regroup6 ==
  ASSUME NEW p \in Z6, NEW q \in Z6, NEW r \in Z6, NEW s \in Z6
  PROVE  ZAdd6(ZAdd6(p, q), ZAdd6(r, s)) = ZAdd6(ZAdd6(q, r), ZAdd6(p, s))
BY Sums6

LEMMA V6Linear == ASSUME NEW p \in Z6, NEW q \in Z6 PROVE ZV6(ZAdd6(p, q)) = ZAdd6(ZV6(p), ZV6(q))
BY Sums6

(* The laws with the factors exchanged.                                    *)
LEMMA LeftLaws6 ==
  ASSUME NEW x \in Z6, NEW y \in Z6, NEW z \in Z6
  PROVE  /\ ZMul6(z, ZAdd6(x, y)) = ZAdd6(ZMul6(z, x), ZMul6(z, y))
         /\ ZMul6(z, ZSub6(x, y)) = ZSub6(ZMul6(z, x), ZMul6(z, y))
         /\ ZMul6(z, ZV6(x)) = ZV6(ZMul6(z, x))
<1>1. /\ ZMul6(z, ZAdd6(x, y)) = ZMul6(ZAdd6(x, y), z) /\ ZMul6(z, ZSub6(x, y)) = ZMul6(ZSub6(x, y), z)
      /\ ZMul6(z, ZV6(x)) = ZMul6(ZV6(x), z) /\ ZMul6(z, x) = ZMul6(x, z) /\ ZMul6(z, y) = ZMul6(y, z)
  BY Chains6, Commutative6
<1> QED BY <1>1, Distributive6, ByV6

-----------------------------------------------------------------------------
(* Z[u][v][w], w^2 = v                                                     *)

Z12 == Z6 \X Z6
Fq12 == Fq6 \X Fq6
Red12(x) == <<Red6(x[1]), Red6(x[2])>>
ZAdd12(x, y) == <<ZAdd6(x[1], y[1]), ZAdd6(x[2], y[2])>>
ZMul12(x, y) ==
  <<ZAdd6(ZV6(ZMul6(x[2], y[2])), ZMul6(x[1], y[1])), ZAdd6(ZMul6(x[1], y[2]), ZMul6(x[2], y[1]))>>

LEMMA TypeZ12 ==
  /\ \A x \in Z12 : x[1] \in Z6 /\ x[2] \in Z6 /\ Red12(x) \in Fq12
  /\ \A x, y \in Z12 : ZMul12(x, y) \in Z12 /\ ZAdd12(x, y) \in Z12
  /\ \A x \in Fq12 : x \in Z12 /\ Red12(x) = x
<1>1. ASSUME NEW x \in Z12 PROVE x[1] \in Z6 /\ x[2] \in Z6 /\ Red12(x) \in Fq12
  BY TypeZ6 DEF Z12, Fq12, Red12
<1>2. ASSUME NEW x \in Z12, NEW y \in Z12 PROVE ZMul12(x, y) \in Z12 /\ ZAdd12(x, y) \in Z12
  <2>1. x[1] \in Z6 /\ x[2] \in Z6 /\ y[1] \in Z6 /\ y[2] \in Z6
    BY <1>1
  <2>2. /\ ZAdd6(ZV6(ZMul6(x[2], y[2])), ZMul6(x[1], y[1])) \in Z6
        /\ ZAdd6(ZMul6(x[1], y[2]), ZMul6(x[2], y[1])) \in Z6
        /\ ZAdd6(x[1], y[1]) \in Z6 /\ ZAdd6(x[2], y[2]) \in Z6
    BY <2>1, Chains6
  <2> QED BY <2>2 DEF Z12, ZMul12, ZAdd12
<1>3. ASSUME NEW x \in Fq12 PROVE x \in Z12 /\ Red12(x) = x
  <2>1. x[1] \in Fq6 /\ x[2] \in Fq6 /\ x = <<x[1], x[2]>>
    BY DEF Fq12
  <2> QED BY <2>1, TypeZ6 DEF Z12, Red12
<1> QED BY <1>1, <1>2, <1>3

(* The mixed product of sums, taken apart.                                 *)
LEMMA Mixed12 ==
  ASSUME NEW a \in Z6, NEW b \in Z6, NEW c \in Z6, NEW d \in Z6
  PROVE  ZMul6(ZAdd6(b, a), ZAdd6(c, d))
           = ZAdd6(ZAdd6(ZMul6(b, c), ZMul6(b, d)), ZAdd6(ZMul6(a, c), ZMul6(a, d)))
<1>1. ZMul6(ZAdd6(b, a), ZAdd6(c, d)) = ZAdd6(ZMul6(b, ZAdd6(c, d)), ZMul6(a, ZAdd6(c, d)))
  BY Chains6, Distributive6
<1>2. /\ ZMul6(b, ZAdd6(c, d)) = ZAdd6(ZMul6(b, c), ZMul6(b, d))
      /\ ZMul6(a, ZAdd6(c, d)) = ZAdd6(ZMul6(a, c), ZMul6(a, d))
  BY LeftLaws6
<1> QED BY <1>1, <1>2

(* Karatsuba in Fq12.                                                      *)
LEMMA ResiduesMul12 ==
  ASSUME NEW x \in Z12, NEW y \in Z12
  PROVE  Mul12(Red12(x), Red12(y)) = Red12(ZMul12(x, y))
<1> DEFINE a == x[1]
           b == x[2]
           c == y[1]
           d == y[2]
<1>1. a \in Z6 /\ b \in Z6 /\ c \in Z6 /\ d \in Z6
  BY TypeZ12
<1>2. Red12(x) = <<Red6(a), Red6(b)>> /\ Red12(y) = <<Red6(c), Red6(d)>>
  BY DEF Red12
<1>3. Red12(ZMul12(x, y))
        = <<Red6(ZAdd6(ZV6(ZMul6(b, d)), ZMul6(a, c))), Red6(ZAdd6(ZMul6(a, d), ZMul6(b, c)))>>
  BY DEF Red12, ZMul12
<1> HIDE DEF a, b, c, d
<1>4. Mul12(Red12(x), Red12(y)) =
        <<Add6(MulByNonresidue6(Mul6(Red6(b), Red6(d))), Mul6(Red6(a), Red6(c))),
          Sub6(Sub6(Mul6(Add6(Red6(b), Red6(a)), Add6(Red6(c), Red6(d))), Mul6(Red6(a), Red6(c))),
               Mul6(Red6(b), Red6(d)))>>
  BY <1>2 DEF Mul12, Product12
<1>5. Add6(MulByNonresidue6(Mul6(Red6(b), Red6(d))), Mul6(Red6(a), Red6(c)))
        = Red6(ZAdd6(ZV6(ZMul6(b, d)), ZMul6(a, c)))
  BY <1>1, Chains6
<1>6. Sub6(Sub6(Mul6(Add6(Red6(b), Red6(a)), Add6(Red6(c), Red6(d))), Mul6(Red6(a), Red6(c))),
           Mul6(Red6(b), Red6(d)))
        = Red6(ZSub6(ZSub6(ZMul6(ZAdd6(b, a), ZAdd6(c, d)), ZMul6(a, c)), ZMul6(b, d)))
  BY <1>1, Chains6
<1>7. ZMul6(ZAdd6(b, a), ZAdd6(c, d))
        = ZAdd6(ZAdd6(ZMul6(b, c), ZMul6(b, d)), ZAdd6(ZMul6(a, c), ZMul6(a, d)))
  BY <1>1, Mixed12
<1>8. ZSub6(ZSub6(ZAdd6(ZAdd6(ZMul6(b, c), ZMul6(b, d)), ZAdd6(ZMul6(a, c), ZMul6(a, d))), ZMul6(a, c)), ZMul6(b, d))
        = ZAdd6(ZMul6(a, d), ZMul6(b, c))
  <2>1. ZMul6(b, c) \in Z6 /\ ZMul6(b, d) \in Z6 /\ ZMul6(a, c) \in Z6 /\ ZMul6(a, d) \in Z6
    BY <1>1, Chains6
  <2> QED BY <2>1, Sums6
<1> QED BY <1>3, <1>4, <1>5, <1>6, <1>7, <1>8

(* A square from two products.                                             *)
LEMMA ResiduesSquare12 ==
  ASSUME NEW x \in Z12
  PROVE  Square12(Red12(x)) = Red12(ZMul12(x, x))
<1> DEFINE a == x[1]
           b == x[2]
           ab == ZMul6(a, b)
<1>1. a \in Z6 /\ b \in Z6
  BY TypeZ12
<1>2. Red12(x) = <<Red6(a), Red6(b)>>
  BY DEF Red12
<1>3. Red12(ZMul12(x, x))
        = <<Red6(ZAdd6(ZV6(ZMul6(b, b)), ZMul6(a, a))), Red6(ZAdd6(ZMul6(a, b), ZMul6(b, a)))>>
  BY DEF Red12, ZMul12
<1> HIDE DEF a, b
<1>4. /\ ab \in Z6 /\ ZMul6(b, a) = ab /\ ZV6(ab) \in Z6 /\ ZMul6(a, a) \in Z6 /\ ZV6(ZMul6(b, b)) \in Z6
      /\ ZV6(b) \in Z6
      /\ ZMul6(ZV6(b), a) = ZV6(ab) /\ ZMul6(ZV6(b), b) = ZV6(ZMul6(b, b))
  BY <1>1, Chains6, Commutative6, ByV6
<1>5. /\ Mul6(Red6(a), Red6(b)) = Red6(ab)
      /\ Mul6(Add6(MulByNonresidue6(Red6(b)), Red6(a)), Add6(Red6(a), Red6(b)))
           = Red6(ZMul6(ZAdd6(ZV6(b), a), ZAdd6(a, b)))
      /\ ZMul6(ZAdd6(ZV6(b), a), ZAdd6(a, b)) \in Z6
  BY <1>1, Chains6
<1>6. ZMul6(ZAdd6(ZV6(b), a), ZAdd6(a, b))
        = ZAdd6(ZAdd6(ZMul6(ZV6(b), a), ZMul6(ZV6(b), b)), ZAdd6(ZMul6(a, a), ZMul6(a, b)))
  BY <1>1, <1>4, Mixed12
<1> HIDE DEF ab
<1>7. ZSub6(ZSub6(ZAdd6(ZAdd6(ZV6(ab), ZV6(ZMul6(b, b))), ZAdd6(ZMul6(a, a), ab)), ab), ZV6(ab))
        = ZAdd6(ZV6(ZMul6(b, b)), ZMul6(a, a))
  BY <1>4, Sums6
<1>8. Square12(Red12(x)) = Square12From(Red6(ab), Red6(ZMul6(ZAdd6(ZV6(b), a), ZAdd6(a, b))))
  BY <1>2, <1>5 DEF Square12
<1>9. Square12From(Red6(ab), Red6(ZMul6(ZAdd6(ZV6(b), a), ZAdd6(a, b))))
        = <<Red6(ZSub6(ZSub6(ZMul6(ZAdd6(ZV6(b), a), ZAdd6(a, b)), ab), ZV6(ab))), Red6(ZAdd6(ab, ab))>>
  BY <1>4, <1>5, Chains6 DEF Square12From
<1>10. ZMul6(a, b) = ab
  BY DEF ab
<1> QED BY <1>3, <1>4, <1>6, <1>7, <1>8, <1>9, <1>10

(* Products in Fq12 associate and commute.                                 *)
LEMMA Associative12 ==
  ASSUME NEW x \in Z12, NEW y \in Z12, NEW z \in Z12
  PROVE  ZMul12(ZMul12(x, y), z) = ZMul12(x, ZMul12(y, z)) /\ ZMul12(x, y) = ZMul12(y, x)
<1> DEFINE a == x[1]
           b == x[2]
           c == y[1]
           d == y[2]
           e == z[1]
           f == z[2]
           t(k, l, m) == ZMul6(ZMul6(k, l), m)
<1>1. a \in Z6 /\ b \in Z6 /\ c \in Z6 /\ d \in Z6 /\ e \in Z6 /\ f \in Z6
  BY TypeZ12
<1>2. /\ ZMul12(x, y) = <<ZAdd6(ZV6(ZMul6(b, d)), ZMul6(a, c)), ZAdd6(ZMul6(a, d), ZMul6(b, c))>>
      /\ ZMul12(y, z) = <<ZAdd6(ZV6(ZMul6(d, f)), ZMul6(c, e)), ZAdd6(ZMul6(c, f), ZMul6(d, e))>>
      /\ ZMul12(y, x) = <<ZAdd6(ZV6(ZMul6(d, b)), ZMul6(c, a)), ZAdd6(ZMul6(c, b), ZMul6(d, a))>>
  BY DEF ZMul12
<1>3. /\ ZMul12(ZMul12(x, y), z) =
           <<ZAdd6(ZV6(ZMul6(ZAdd6(ZMul6(a, d), ZMul6(b, c)), f)), ZMul6(ZAdd6(ZV6(ZMul6(b, d)), ZMul6(a, c)), e)),
             ZAdd6(ZMul6(ZAdd6(ZV6(ZMul6(b, d)), ZMul6(a, c)), f), ZMul6(ZAdd6(ZMul6(a, d), ZMul6(b, c)), e))>>
      /\ ZMul12(x, ZMul12(y, z)) =
           <<ZAdd6(ZV6(ZMul6(b, ZAdd6(ZMul6(c, f), ZMul6(d, e)))), ZMul6(a, ZAdd6(ZV6(ZMul6(d, f)), ZMul6(c, e)))),
             ZAdd6(ZMul6(a, ZAdd6(ZMul6(c, f), ZMul6(d, e))), ZMul6(b, ZAdd6(ZV6(ZMul6(d, f)), ZMul6(c, e))))>>
  BY <1>2 DEF ZMul12
<1> HIDE DEF a, b, c, d, e, f
<1>4. /\ ZMul6(a, c) \in Z6 /\ ZMul6(a, d) \in Z6 /\ ZMul6(b, c) \in Z6 /\ ZMul6(b, d) \in Z6
      /\ ZMul6(c, e) \in Z6 /\ ZMul6(c, f) \in Z6 /\ ZMul6(d, e) \in Z6 /\ ZMul6(d, f) \in Z6
      /\ ZV6(ZMul6(b, d)) \in Z6 /\ ZV6(ZMul6(d, f)) \in Z6
  BY <1>1, Chains6
<1>5. /\ t(a, d, f) \in Z6 /\ t(b, c, f) \in Z6 /\ t(b, d, e) \in Z6 /\ t(a, c, e) \in Z6
      /\ t(b, d, f) \in Z6 /\ t(a, c, f) \in Z6 /\ t(a, d, e) \in Z6 /\ t(b, c, e) \in Z6
      /\ ZV6(t(a, d, f)) \in Z6 /\ ZV6(t(b, c, f)) \in Z6 /\ ZV6(t(b, d, e)) \in Z6 /\ ZV6(t(b, d, f)) \in Z6
  BY <1>1, Chains6
<1>6. /\ ZMul6(ZAdd6(ZMul6(a, d), ZMul6(b, c)), f) = ZAdd6(t(a, d, f), t(b, c, f))
      /\ ZMul6(ZAdd6(ZMul6(a, d), ZMul6(b, c)), e) = ZAdd6(t(a, d, e), t(b, c, e))
  BY <1>1, <1>4, Distributive6
<1>7. /\ ZMul6(ZAdd6(ZV6(ZMul6(b, d)), ZMul6(a, c)), e) = ZAdd6(ZV6(t(b, d, e)), t(a, c, e))
      /\ ZMul6(ZAdd6(ZV6(ZMul6(b, d)), ZMul6(a, c)), f) = ZAdd6(ZV6(t(b, d, f)), t(a, c, f))
  BY <1>1, <1>4, Distributive6, ByV6
<1>8. /\ ZMul6(b, ZAdd6(ZMul6(c, f), ZMul6(d, e))) = ZAdd6(t(b, c, f), t(b, d, e))
      /\ ZMul6(a, ZAdd6(ZMul6(c, f), ZMul6(d, e))) = ZAdd6(t(a, c, f), t(a, d, e))
  <2>1. /\ ZMul6(b, ZAdd6(ZMul6(c, f), ZMul6(d, e))) = ZAdd6(ZMul6(b, ZMul6(c, f)), ZMul6(b, ZMul6(d, e)))
        /\ ZMul6(a, ZAdd6(ZMul6(c, f), ZMul6(d, e))) = ZAdd6(ZMul6(a, ZMul6(c, f)), ZMul6(a, ZMul6(d, e)))
    BY <1>1, <1>4, LeftLaws6
  <2>2. /\ t(b, c, f) = ZMul6(b, ZMul6(c, f)) /\ t(b, d, e) = ZMul6(b, ZMul6(d, e))
        /\ t(a, c, f) = ZMul6(a, ZMul6(c, f)) /\ t(a, d, e) = ZMul6(a, ZMul6(d, e))
    BY <1>1, Associative6
  <2> QED BY <2>1, <2>2
<1>9. /\ ZMul6(a, ZAdd6(ZV6(ZMul6(d, f)), ZMul6(c, e))) = ZAdd6(ZV6(t(a, d, f)), t(a, c, e))
      /\ ZMul6(b, ZAdd6(ZV6(ZMul6(d, f)), ZMul6(c, e))) = ZAdd6(ZV6(t(b, d, f)), t(b, c, e))
  <2>1. /\ ZMul6(a, ZAdd6(ZV6(ZMul6(d, f)), ZMul6(c, e))) = ZAdd6(ZMul6(a, ZV6(ZMul6(d, f))), ZMul6(a, ZMul6(c, e)))
        /\ ZMul6(b, ZAdd6(ZV6(ZMul6(d, f)), ZMul6(c, e))) = ZAdd6(ZMul6(b, ZV6(ZMul6(d, f))), ZMul6(b, ZMul6(c, e)))
    BY <1>1, <1>4, LeftLaws6
  <2>2. /\ ZMul6(a, ZV6(ZMul6(d, f))) = ZV6(ZMul6(a, ZMul6(d, f)))
        /\ ZMul6(b, ZV6(ZMul6(d, f))) = ZV6(ZMul6(b, ZMul6(d, f)))
    BY <1>1, <1>4, LeftLaws6
  <2>3. /\ t(a, d, f) = ZMul6(a, ZMul6(d, f)) /\ t(a, c, e) = ZMul6(a, ZMul6(c, e))
        /\ t(b, d, f) = ZMul6(b, ZMul6(d, f)) /\ t(b, c, e) = ZMul6(b, ZMul6(c, e))
    BY <1>1, Associative6
  <2> QED BY <2>1, <2>2, <2>3
<1> HIDE DEF t
<1>10. /\ ZV6(ZAdd6(t(a, d, f), t(b, c, f))) = ZAdd6(ZV6(t(a, d, f)), ZV6(t(b, c, f)))
       /\ ZV6(ZAdd6(t(b, c, f), t(b, d, e))) = ZAdd6(ZV6(t(b, c, f)), ZV6(t(b, d, e)))
  BY <1>5, V6Linear
<1>11. ZAdd6(ZAdd6(ZV6(t(a, d, f)), ZV6(t(b, c, f))), ZAdd6(ZV6(t(b, d, e)), t(a, c, e)))
         = ZAdd6(ZAdd6(ZV6(t(b, c, f)), ZV6(t(b, d, e))), ZAdd6(ZV6(t(a, d, f)), t(a, c, e)))
  BY <1>5, Regroup6
<1>12. ZAdd6(ZAdd6(ZV6(t(b, d, f)), t(a, c, f)), ZAdd6(t(a, d, e), t(b, c, e)))
         = ZAdd6(ZAdd6(t(a, c, f), t(a, d, e)), ZAdd6(ZV6(t(b, d, f)), t(b, c, e)))
  BY <1>5, Regroup6
<1>13. ZMul12(ZMul12(x, y), z) = ZMul12(x, ZMul12(y, z))
  BY <1>3, <1>6, <1>7, <1>8, <1>9, <1>10, <1>11, <1>12
<1>14. ZMul12(x, y) = ZMul12(y, x)
  <2>1. /\ ZMul6(b, d) = ZMul6(d, b) /\ ZMul6(a, c) = ZMul6(c, a)
        /\ ZMul6(a, d) = ZMul6(d, a) /\ ZMul6(b, c) = ZMul6(c, b)
    BY <1>1, Commutative6
  <2>2. ZAdd6(ZMul6(a, d), ZMul6(b, c)) = ZAdd6(ZMul6(b, c), ZMul6(a, d))
    BY <1>4, Sums6
  <2> QED BY <1>2, <2>1, <2>2
<1> QED BY <1>13, <1>14

-----------------------------------------------------------------------------
(* The formulas of fq2.rs, fq6.rs and fq12.rs                              *)

(* Karatsuba's products in fq2.rs, fq6.rs and fq12.rs are the products of  *)
(* polynomials modulo u^2 + 1, v^3 - xi and w^2 - v.                       *)
THEOREM ProductsExact ==
  /\ \A a, b \in Fq2 : Mul2(a, b) = <<Sub1(Mul1(a[1], b[1]), Mul1(a[2], b[2])), Add1(Mul1(a[1], b[2]), Mul1(a[2], b[1]))>>
  /\ \A a, b \in Fq6 :
       Mul6(a, b) =
         <<Add2(MulByNonresidue2(Add2(Mul2(a[2], b[3]), Mul2(a[3], b[2]))), Mul2(a[1], b[1])),
           Add2(Add2(Mul2(a[1], b[2]), Mul2(a[2], b[1])), MulByNonresidue2(Mul2(a[3], b[3]))),
           Add2(Add2(Mul2(a[1], b[3]), Mul2(a[3], b[1])), Mul2(a[2], b[2]))>>
  /\ \A a, b \in Fq12 :
       Mul12(a, b) = <<Add6(MulByNonresidue6(Mul6(a[2], b[2])), Mul6(a[1], b[1])),
                       Add6(Mul6(a[1], b[2]), Mul6(a[2], b[1]))>>
<1>1. ASSUME NEW a \in Fq2, NEW b \in Fq2
      PROVE  Mul2(a, b) = <<Sub1(Mul1(a[1], b[1]), Mul1(a[2], b[2])), Add1(Mul1(a[1], b[2]), Mul1(a[2], b[1]))>>
  <2> DEFINE c == a[1] * b[1]
             d == a[2] * b[2]
             e == a[1] * b[2]
             f == a[2] * b[1]
  <2>1. c \in Int /\ d \in Int /\ e \in Int /\ f \in Int
    BY TypeZ2
  <2>2. Mul2(a, b) = <<(c - d) % Q, (e + f) % Q>>
    <3>1. Mul2(a, b) = Red2(ZMul2(a, b))
      BY TypeZ2, Chains2
    <3> QED BY <3>1 DEF Red2, ZMul2
  <2>3. <<Sub1(Mul1(a[1], b[1]), Mul1(a[2], b[2])), Add1(Mul1(a[1], b[2]), Mul1(a[2], b[1]))>>
          = <<((c % Q) - (d % Q)) % Q, ((e % Q) + (f % Q)) % Q>>
    BY DEF Sub1, Add1, Mul1
  <2> HIDE DEF c, d, e, f
  <2>4. PICK i, j, k, l \in Int : c % Q = c + i * Q /\ d % Q = d + j * Q /\ e % Q = e + k * Q /\ f % Q = f + l * Q
    BY <2>1, ResidueForm
  <2>5. ((c % Q) - (d % Q)) % Q = (c - d) % Q
    <3> DEFINE n == (c % Q) - (d % Q)
               m == c - d
               t == i - j
    <3>1. n \in Int /\ m \in Int /\ t \in Int /\ n = m + t * Q
      BY <2>1, <2>4, QType
    <3> HIDE DEF n, m, t
    <3>2. n % Q = m % Q
      BY <3>1, SameResidue
    <3> QED BY <3>2 DEF n, m
  <2>6. ((e % Q) + (f % Q)) % Q = (e + f) % Q
    <3> DEFINE n == (e % Q) + (f % Q)
               m == e + f
               t == k + l
    <3>1. n \in Int /\ m \in Int /\ t \in Int /\ n = m + t * Q
      BY <2>1, <2>4, QType
    <3> HIDE DEF n, m, t
    <3>2. n % Q = m % Q
      BY <3>1, SameResidue
    <3> QED BY <3>2 DEF n, m
  <2> QED BY <2>2, <2>3, <2>5, <2>6
<1>2. ASSUME NEW a \in Fq6, NEW b \in Fq6
      PROVE  Mul6(a, b) =
               <<Add2(MulByNonresidue2(Add2(Mul2(a[2], b[3]), Mul2(a[3], b[2]))), Mul2(a[1], b[1])),
                 Add2(Add2(Mul2(a[1], b[2]), Mul2(a[2], b[1])), MulByNonresidue2(Mul2(a[3], b[3]))),
                 Add2(Add2(Mul2(a[1], b[3]), Mul2(a[3], b[1])), Mul2(a[2], b[2]))>>
  <2>1. /\ a[1] \in Fq2 /\ a[2] \in Fq2 /\ a[3] \in Fq2
        /\ b[1] \in Fq2 /\ b[2] \in Fq2 /\ b[3] \in Fq2
    BY DEF Fq6
  <2>2. /\ a[1] \in Z2 /\ a[2] \in Z2 /\ a[3] \in Z2
        /\ b[1] \in Z2 /\ b[2] \in Z2 /\ b[3] \in Z2
        /\ Red2(a[1]) = a[1] /\ Red2(a[2]) = a[2] /\ Red2(a[3]) = a[3]
        /\ Red2(b[1]) = b[1] /\ Red2(b[2]) = b[2] /\ Red2(b[3]) = b[3]
    BY <2>1, TypeZ2
  <2>3. Mul6(a, b) = Red6(ZMul6(a, b))
    BY TypeZ6, Chains6
  <2>4. Add2(MulByNonresidue2(Add2(Mul2(a[2], b[3]), Mul2(a[3], b[2]))), Mul2(a[1], b[1]))
          = Red2(ZAdd2(ZXi2(ZAdd2(ZMul2(a[2], b[3]), ZMul2(a[3], b[2]))), ZMul2(a[1], b[1])))
    <3>1. /\ ZAdd2(ZMul2(a[2], b[3]), ZMul2(a[3], b[2])) \in Z2 /\ ZMul2(a[1], b[1]) \in Z2
          /\ Add2(Mul2(a[2], b[3]), Mul2(a[3], b[2])) = Red2(ZAdd2(ZMul2(a[2], b[3]), ZMul2(a[3], b[2])))
          /\ Mul2(a[1], b[1]) = Red2(ZMul2(a[1], b[1]))
      BY <2>2, Chains2
    <3> QED BY <3>1, Chains2
  <2>5. Add2(Add2(Mul2(a[1], b[2]), Mul2(a[2], b[1])), MulByNonresidue2(Mul2(a[3], b[3])))
          = Red2(ZAdd2(ZAdd2(ZMul2(a[1], b[2]), ZMul2(a[2], b[1])), ZXi2(ZMul2(a[3], b[3]))))
    BY <2>2, Chains2
  <2>6. Add2(Add2(Mul2(a[1], b[3]), Mul2(a[3], b[1])), Mul2(a[2], b[2]))
          = Red2(ZAdd2(ZAdd2(ZMul2(a[1], b[3]), ZMul2(a[3], b[1])), ZMul2(a[2], b[2])))
    BY <2>2, Chains2
  <2> QED BY <2>3, <2>4, <2>5, <2>6 DEF Red6, ZMul6
<1>3. ASSUME NEW a \in Fq12, NEW b \in Fq12
      PROVE  Mul12(a, b) = <<Add6(MulByNonresidue6(Mul6(a[2], b[2])), Mul6(a[1], b[1])),
                             Add6(Mul6(a[1], b[2]), Mul6(a[2], b[1]))>>
  <2>1. a[1] \in Fq6 /\ a[2] \in Fq6 /\ b[1] \in Fq6 /\ b[2] \in Fq6
    BY DEF Fq12
  <2>2. /\ a[1] \in Z6 /\ a[2] \in Z6 /\ b[1] \in Z6 /\ b[2] \in Z6
        /\ Red6(a[1]) = a[1] /\ Red6(a[2]) = a[2] /\ Red6(b[1]) = b[1] /\ Red6(b[2]) = b[2]
    BY <2>1, TypeZ6
  <2>3. Mul12(a, b) = Red12(ZMul12(a, b))
    BY TypeZ12, ResiduesMul12
  <2>4. Add6(MulByNonresidue6(Mul6(a[2], b[2])), Mul6(a[1], b[1]))
          = Red6(ZAdd6(ZV6(ZMul6(a[2], b[2])), ZMul6(a[1], b[1])))
    BY <2>2, Chains6
  <2>5. Add6(Mul6(a[1], b[2]), Mul6(a[2], b[1])) = Red6(ZAdd6(ZMul6(a[1], b[2]), ZMul6(a[2], b[1])))
    BY <2>2, Chains6
  <2> QED BY <2>3, <2>4, <2>5 DEF Red12, ZMul12
<1> QED BY <1>1, <1>2, <1>3

(* square of fq2.rs, fq6.rs and fq12.rs, each with its own formula,        *)
(* computes what mul_assign does with equal operands.                      *)
THEOREM SquaresExact ==
  /\ \A a \in Fq2 : Square2(a) = Mul2(a, a)
  /\ \A a \in Fq6 : Square6(a) = Mul6(a, a)
  /\ \A a \in Fq12 : Square12(a) = Mul12(a, a)
<1>1. \A a \in Fq2 : Square2(a) = Mul2(a, a)
  BY TypeZ2, Chains2
<1>2. \A a \in Fq6 : Square6(a) = Mul6(a, a)
  BY TypeZ6, Chains6
<1>3. \A a \in Fq12 : Square12(a) = Mul12(a, a)
  BY TypeZ12, ResiduesMul12, ResiduesSquare12
<1> QED BY <1>1, <1>2, <1>3

(* The operators of the tower take elements to elements, and its products  *)
(* commute and associate.                                                  *)
THEOREM ProductsAssociate ==
  /\ \A a, b \in Fq6 : Mul6(a, b) \in Fq6 /\ Mul6(a, b) = Mul6(b, a)
  /\ \A a, b, c \in Fq6 : Mul6(Mul6(a, b), c) = Mul6(a, Mul6(b, c))
  /\ \A a, b, c \in Fq6 : Mul6(Add6(a, b), c) = Add6(Mul6(a, c), Mul6(b, c))
  /\ \A a, b \in Fq12 : Mul12(a, b) \in Fq12 /\ Mul12(a, b) = Mul12(b, a)
  /\ \A a, b, c \in Fq12 : Mul12(Mul12(a, b), c) = Mul12(a, Mul12(b, c))
<1>1. ASSUME NEW a \in Fq6, NEW b \in Fq6
      PROVE  /\ a \in Z6 /\ b \in Z6 /\ ZMul6(a, b) \in Z6 /\ Red6(a) = a /\ Red6(b) = b
             /\ Mul6(a, b) = Red6(ZMul6(a, b)) /\ Mul6(a, b) \in Fq6 /\ Mul6(a, b) = Mul6(b, a)
             /\ Add6(a, b) = Red6(ZAdd6(a, b)) /\ ZAdd6(a, b) \in Z6
  <2>1. a \in Z6 /\ b \in Z6 /\ Red6(a) = a /\ Red6(b) = b
    BY TypeZ6
  <2>2. /\ ZMul6(a, b) \in Z6 /\ Mul6(a, b) = Red6(ZMul6(a, b)) /\ Mul6(b, a) = Red6(ZMul6(b, a))
        /\ Add6(a, b) = Red6(ZAdd6(a, b)) /\ ZAdd6(a, b) \in Z6
    BY <2>1, Chains6
  <2> QED BY <2>1, <2>2, TypeZ6, Commutative6
<1>2. ASSUME NEW a \in Fq6, NEW b \in Fq6, NEW c \in Fq6
      PROVE  Mul6(Mul6(a, b), c) = Mul6(a, Mul6(b, c))
  <2>1. Mul6(Mul6(a, b), c) = Red6(ZMul6(ZMul6(a, b), c)) /\ Mul6(a, Mul6(b, c)) = Red6(ZMul6(a, ZMul6(b, c)))
    <3>1. /\ Mul6(Mul6(a, b), c) = Mul6(Red6(ZMul6(a, b)), Red6(c))
          /\ Mul6(a, Mul6(b, c)) = Mul6(Red6(a), Red6(ZMul6(b, c)))
      BY <1>1
    <3> QED BY <3>1, <1>1, Chains6
  <2>2. ZMul6(ZMul6(a, b), c) = ZMul6(a, ZMul6(b, c))
    BY <1>1, Associative6
  <2> QED BY <2>1, <2>2
<1>3. ASSUME NEW a \in Fq6, NEW b \in Fq6, NEW c \in Fq6
      PROVE  Mul6(Add6(a, b), c) = Add6(Mul6(a, c), Mul6(b, c))
  <2>1. Mul6(Add6(a, b), c) = Red6(ZMul6(ZAdd6(a, b), c))
    <3>1. Mul6(Add6(a, b), c) = Mul6(Red6(ZAdd6(a, b)), Red6(c))
      BY <1>1
    <3> QED BY <3>1, <1>1, Chains6
  <2>2. Add6(Mul6(a, c), Mul6(b, c)) = Red6(ZAdd6(ZMul6(a, c), ZMul6(b, c)))
    BY <1>1, Chains6
  <2>3. ZMul6(ZAdd6(a, b), c) = ZAdd6(ZMul6(a, c), ZMul6(b, c))
    BY <1>1, Distributive6
  <2> QED BY <2>1, <2>2, <2>3
<1>4. ASSUME NEW a \in Fq12, NEW b \in Fq12
      PROVE  /\ a \in Z12 /\ b \in Z12 /\ ZMul12(a, b) \in Z12 /\ Red12(a) = a /\ Red12(b) = b
             /\ Mul12(a, b) = Red12(ZMul12(a, b)) /\ Mul12(a, b) \in Fq12 /\ Mul12(a, b) = Mul12(b, a)
  <2>1. a \in Z12 /\ b \in Z12 /\ Red12(a) = a /\ Red12(b) = b
    BY TypeZ12
  <2>2. ZMul12(a, b) \in Z12 /\ Mul12(a, b) = Red12(ZMul12(a, b)) /\ Mul12(b, a) = Red12(ZMul12(b, a))
    BY <2>1, TypeZ12, ResiduesMul12
  <2> QED BY <2>1, <2>2, TypeZ12, Associative12
<1>5. ASSUME NEW a \in Fq12, NEW b \in Fq12, NEW c \in Fq12
      PROVE  Mul12(Mul12(a, b), c) = Mul12(a, Mul12(b, c))
  <2>1. /\ Mul12(Mul12(a, b), c) = Mul12(Red12(ZMul12(a, b)), Red12(c))
        /\ Mul12(a, Mul12(b, c)) = Mul12(Red12(a), Red12(ZMul12(b, c)))
    BY <1>4
  <2>2. /\ Mul12(Mul12(a, b), c) = Red12(ZMul12(ZMul12(a, b), c))
        /\ Mul12(a, Mul12(b, c)) = Red12(ZMul12(a, ZMul12(b, c)))
    BY <2>1, <1>4, ResiduesMul12
  <2> QED BY <2>2, <1>4, Associative12
<1> QED BY <1>1, <1>2, <1>3, <1>4, <1>5

-----------------------------------------------------------------------------
(* Sparse products                                                         *)

LEMMA Constants2 == Zero2 \in Fq2 /\ One2 \in Fq2 /\ Zero2 \in Z2 /\ One2 \in Z2
BY QAssumption DEF Zero2, One2, Fq2, Fq, Z2

(* A product with c + d v, coefficient by coefficient.                     *)
LEMMA Sparse6 ==
  ASSUME NEW x \in Z6, NEW c \in Z2, NEW d \in Z2
  PROVE  ZMul6(x, <<c, d, Zero2>>)
           = <<ZAdd2(ZXi2(ZMul2(x[3], d)), ZMul2(x[1], c)), ZAdd2(ZMul2(x[1], d), ZMul2(x[2], c)),
               ZAdd2(ZMul2(x[3], c), ZMul2(x[2], d))>>
<1>1. PICK e, f, g, h, k, l \in Int : x[1] = <<e, f>> /\ x[2] = <<g, h>> /\ x[3] = <<k, l>>
  BY TypeZ6, TypeZ2
<1>2. PICK m, n, o, p \in Int : c = <<m, n>> /\ d = <<o, p>>
  BY TypeZ2
<1>3. /\ ZAdd2(ZMul2(x[2], Zero2), ZMul2(x[3], d)) = ZMul2(x[3], d)
      /\ ZAdd2(ZAdd2(ZMul2(x[1], d), ZMul2(x[2], c)), ZXi2(ZMul2(x[3], Zero2)))
           = ZAdd2(ZMul2(x[1], d), ZMul2(x[2], c))
      /\ ZAdd2(ZAdd2(ZMul2(x[1], Zero2), ZMul2(x[3], c)), ZMul2(x[2], d))
           = ZAdd2(ZMul2(x[3], c), ZMul2(x[2], d))
  BY <1>1, <1>2, QType DEF ZAdd2, ZMul2, ZXi2, Zero2
<1> QED BY <1>3 DEF ZMul6

(* A product with d v.                                                     *)
LEMMA Sparser6 ==
  ASSUME NEW x \in Z6, NEW d \in Z2
  PROVE  ZMul6(x, <<Zero2, d, Zero2>>) = <<ZXi2(ZMul2(x[3], d)), ZMul2(x[1], d), ZMul2(x[2], d)>>
<1>1. ZMul6(x, <<Zero2, d, Zero2>>)
        = <<ZAdd2(ZXi2(ZMul2(x[3], d)), ZMul2(x[1], Zero2)), ZAdd2(ZMul2(x[1], d), ZMul2(x[2], Zero2)),
            ZAdd2(ZMul2(x[3], Zero2), ZMul2(x[2], d))>>
  BY Sparse6, Constants2
<1>2. PICK e, f, g, h, k, l, m, n \in Int : x[1] = <<e, f>> /\ x[2] = <<g, h>> /\ x[3] = <<k, l>> /\ d = <<m, n>>
  BY TypeZ6, TypeZ2
<1>3. /\ ZAdd2(ZXi2(ZMul2(x[3], d)), ZMul2(x[1], Zero2)) = ZXi2(ZMul2(x[3], d))
      /\ ZAdd2(ZMul2(x[1], d), ZMul2(x[2], Zero2)) = ZMul2(x[1], d)
      /\ ZAdd2(ZMul2(x[3], Zero2), ZMul2(x[2], d)) = ZMul2(x[2], d)
  BY <1>2, QType DEF ZAdd2, ZMul2, ZXi2, Zero2
<1> QED BY <1>1, <1>3

LEMMA MulBy1Exact ==
  ASSUME NEW a \in Fq6, NEW c \in Fq2
  PROVE  MulBy1(a, c) = Mul6(a, <<Zero2, c, Zero2>>) /\ <<Zero2, c, Zero2>> \in Fq6
<1> DEFINE x1 == a[1]
           x2 == a[2]
           x3 == a[3]
<1>0. x1 \in Z2 /\ x2 \in Z2 /\ x3 \in Z2 /\ c \in Z2
  BY TypeZ6, TypeZ2
<1>1. x1 = Red2(x1) /\ x2 = Red2(x2) /\ x3 = Red2(x3) /\ c = Red2(c)
  <2>1. x1 \in Fq2 /\ x2 \in Fq2 /\ x3 \in Fq2
    BY DEF Fq6
  <2> QED BY <2>1, TypeZ2
<1>2. <<Zero2, c, Zero2>> \in Fq6
  BY Constants2 DEF Fq6
<1>3. Mul6(a, <<Zero2, c, Zero2>>) = <<Red2(ZXi2(ZMul2(x3, c))), Red2(ZMul2(x1, c)), Red2(ZMul2(x2, c))>>
  <2>1. /\ a \in Z6 /\ Red6(a) = a /\ <<Zero2, c, Zero2>> \in Z6
        /\ Red6(<<Zero2, c, Zero2>>) = <<Zero2, c, Zero2>>
    BY <1>2, TypeZ6
  <2>2. Mul6(a, <<Zero2, c, Zero2>>) = Red6(ZMul6(a, <<Zero2, c, Zero2>>))
    BY <2>1, Chains6
  <2> QED BY <2>1, <2>2, <1>0, Sparser6 DEF Red6
<1> DEFINE s3 == Sub2(Mul2(Red2(c), Add2(Red2(x2), Red2(x3))), Mul2(Red2(x2), Red2(c)))
           s1 == Sub2(Mul2(Red2(c), Add2(Red2(x1), Red2(x2))), Mul2(Red2(x2), Red2(c)))
<1>4. MulBy1(a, c) = <<MulByNonresidue2(s3), s1, Mul2(Red2(x2), Red2(c))>>
  BY <1>1 DEF MulBy1
<1> HIDE DEF x1, x2, x3
<1>5. s3 = Red2(ZMul2(x3, c))
  <2>1. s3 = Red2(ZSub2(ZMul2(c, ZAdd2(x2, x3)), ZMul2(x2, c)))
    BY <1>0, Chains2
  <2> QED BY <2>1, <1>0, Karatsuba
<1>6. s1 = Red2(ZMul2(x1, c))
  <2>1. s1 = Red2(ZSub2(ZMul2(c, ZAdd2(x1, x2)), ZMul2(x2, c)))
    BY <1>0, Chains2
  <2> QED BY <2>1, <1>0, Karatsuba
<1> HIDE DEF s1, s3
<1>7. /\ Mul2(Red2(x2), Red2(c)) = Red2(ZMul2(x2, c))
      /\ MulByNonresidue2(Red2(ZMul2(x3, c))) = Red2(ZXi2(ZMul2(x3, c)))
  BY <1>0, Chains2
<1> QED BY <1>2, <1>3, <1>4, <1>5, <1>6, <1>7

LEMMA MulBy01Exact ==
  ASSUME NEW a \in Fq6, NEW c \in Fq2, NEW d \in Fq2
  PROVE  MulBy01(a, c, d) = Mul6(a, <<c, d, Zero2>>) /\ <<c, d, Zero2>> \in Fq6
<1> DEFINE x1 == a[1]
           x2 == a[2]
           x3 == a[3]
<1>0. x1 \in Z2 /\ x2 \in Z2 /\ x3 \in Z2 /\ c \in Z2 /\ d \in Z2
  BY TypeZ6, TypeZ2
<1>1. x1 = Red2(x1) /\ x2 = Red2(x2) /\ x3 = Red2(x3) /\ c = Red2(c) /\ d = Red2(d)
  <2>1. x1 \in Fq2 /\ x2 \in Fq2 /\ x3 \in Fq2
    BY DEF Fq6
  <2> QED BY <2>1, TypeZ2
<1>2. <<c, d, Zero2>> \in Fq6
  BY Constants2 DEF Fq6
<1>3. Mul6(a, <<c, d, Zero2>>)
        = <<Red2(ZAdd2(ZXi2(ZMul2(x3, d)), ZMul2(x1, c))), Red2(ZAdd2(ZMul2(x1, d), ZMul2(x2, c))),
            Red2(ZAdd2(ZMul2(x3, c), ZMul2(x2, d)))>>
  <2>1. /\ a \in Z6 /\ Red6(a) = a /\ <<c, d, Zero2>> \in Z6 /\ Red6(<<c, d, Zero2>>) = <<c, d, Zero2>>
    BY <1>2, TypeZ6
  <2>2. Mul6(a, <<c, d, Zero2>>) = Red6(ZMul6(a, <<c, d, Zero2>>))
    BY <2>1, Chains6
  <2> QED BY <2>1, <2>2, <1>0, Sparse6 DEF Red6
<1> DEFINE aa == Mul2(Red2(x1), Red2(c))
           bb == Mul2(Red2(x2), Red2(d))
           s1 == Sub2(Mul2(Red2(d), Add2(Red2(x2), Red2(x3))), bb)
           s2 == Sub2(Sub2(Mul2(Add2(Red2(c), Red2(d)), Add2(Red2(x1), Red2(x2))), aa), bb)
           s3 == Sub2(Mul2(Red2(c), Add2(Red2(x1), Red2(x3))), aa)
<1>4. MulBy01(a, c, d) = <<Add2(MulByNonresidue2(s1), aa), s2, Add2(s3, bb)>>
  BY <1>1 DEF MulBy01, MulBy01From
<1> HIDE DEF x1, x2, x3
<1>5. aa = Red2(ZMul2(x1, c)) /\ bb = Red2(ZMul2(x2, d)) /\ ZMul2(x1, c) \in Z2 /\ ZMul2(x2, d) \in Z2
  BY <1>0, Chains2
<1>6. s1 = Red2(ZMul2(x3, d))
  <2>1. s1 = Red2(ZSub2(ZMul2(d, ZAdd2(x2, x3)), ZMul2(x2, d)))
    BY <1>0, Chains2
  <2> QED BY <2>1, <1>0, Karatsuba
<1>7. s2 = Red2(ZAdd2(ZMul2(x1, d), ZMul2(x2, c)))
  <2>1. s2 = Red2(ZSub2(ZSub2(ZMul2(ZAdd2(c, d), ZAdd2(x1, x2)), ZMul2(x1, c)), ZMul2(x2, d)))
    BY <1>0, Chains2
  <2> QED BY <2>1, <1>0, Karatsuba
<1>8. s3 = Red2(ZMul2(x3, c))
  <2>1. s3 = Red2(ZSub2(ZMul2(c, ZAdd2(x1, x3)), ZMul2(x1, c)))
    BY <1>0, Chains2
  <2> QED BY <2>1, <1>0, Karatsuba
<1> HIDE DEF aa, bb, s1, s2, s3
<1>9. /\ Add2(MulByNonresidue2(Red2(ZMul2(x3, d))), Red2(ZMul2(x1, c))) = Red2(ZAdd2(ZXi2(ZMul2(x3, d)), ZMul2(x1, c)))
      /\ Add2(Red2(ZMul2(x3, c)), Red2(ZMul2(x2, d))) = Red2(ZAdd2(ZMul2(x3, c), ZMul2(x2, d)))
  BY <1>0, Chains2
<1> QED BY <1>2, <1>3, <1>4, <1>5, <1>6, <1>7, <1>8, <1>9

(* Sums of residues are residues.                                          *)
LEMMA SumType ==
  /\ \A a, b \in Fq2 : Add2(a, b) \in Fq2
  /\ \A a, b \in Fq6 : Add6(a, b) \in Fq6
  /\ \A a \in Fq2 : Add2(a, Zero2) = a
<1>1. \A a, b \in Fq2 : Add2(a, b) \in Fq2
  <2>1. \A a, b \in Fq2 : a \in Z2 /\ b \in Z2 /\ Add2(a, b) = Red2(ZAdd2(a, b)) /\ ZAdd2(a, b) \in Z2
    BY TypeZ2, Chains2
  <2> QED BY <2>1, TypeZ2
<1>2. \A a, b \in Fq6 : Add6(a, b) \in Fq6
  BY <1>1 DEF Add6, Fq6
<1>3. ASSUME NEW a \in Fq2 PROVE Add2(a, Zero2) = a
  <2>1. a \in Z2 /\ Red2(a) = a /\ a[1] \in Int /\ a[2] \in Int
    BY TypeZ2
  <2>2. a[1] + 0 = a[1] /\ a[2] + 0 = a[2]
    BY <2>1
  <2> QED BY <2>1, <2>2 DEF Add2, Zero2, Red2
<1> QED BY <1>1, <1>2, <1>3

(* mul_by_1 and mul_by_01 of fq6.rs and mul_by_014 of fq12.rs compute the  *)
(* products with the sparse elements the Miller loop multiplies by.        *)
THEOREM SparseProductsExact ==
  /\ \A a \in Fq6, c \in Fq2 : MulBy1(a, c) = Mul6(a, <<Zero2, c, Zero2>>)
  /\ \A a \in Fq6, c, d \in Fq2 : MulBy01(a, c, d) = Mul6(a, <<c, d, Zero2>>)
  /\ \A a \in Fq12, c, d, e \in Fq2 :
       MulBy014(a, c, d, e) = Mul12(a, << <<c, d, Zero2>>, <<Zero2, e, Zero2>> >>)
<1>1. ASSUME NEW a \in Fq12, NEW c \in Fq2, NEW d \in Fq2, NEW e \in Fq2
      PROVE  MulBy014(a, c, d, e) = Mul12(a, << <<c, d, Zero2>>, <<Zero2, e, Zero2>> >>)
  <2>1. a[1] \in Fq6 /\ a[2] \in Fq6 /\ Add6(a[2], a[1]) \in Fq6 /\ Add2(d, e) \in Fq2
    BY SumType DEF Fq12
  <2>2. /\ MulBy01(a[1], c, d) = Mul6(a[1], <<c, d, Zero2>>)
        /\ MulBy1(a[2], e) = Mul6(a[2], <<Zero2, e, Zero2>>)
        /\ MulBy01(Add6(a[2], a[1]), c, Add2(d, e)) = Mul6(Add6(a[2], a[1]), <<c, Add2(d, e), Zero2>>)
    BY <2>1, MulBy1Exact, MulBy01Exact
  <2>3. Add6(<<c, d, Zero2>>, <<Zero2, e, Zero2>>) = <<c, Add2(d, e), Zero2>>
    BY SumType, Constants2 DEF Add6
  <2> QED BY <2>2, <2>3 DEF MulBy014, Mul12
<1> QED BY <1>1, MulBy1Exact, MulBy01Exact

-----------------------------------------------------------------------------
(* Inverses                                                                *)

(* The conjugate over the norm.                                            *)
LEMMA Inverse2Exact ==
  ASSUME NEW x \in Fq2, Inverse2(x) # Absent
  PROVE  Inverse2(x) \in Fq2 /\ Mul2(x, Inverse2(x)) = One2
<1> DEFINE a == x[1]
           b == x[2]
           n == a * a + b * b
           t == Inverse1(Norm2(x))
           y == <<a * t, -(b * t)>>
<1>1. a \in Int /\ b \in Int /\ x \in Z2 /\ Red2(x) = x
  BY TypeZ2
<1>2. n \in Int /\ Norm2(x) = n % Q /\ Norm2(x) \in Fq
  <2>1. n \in Int
    BY <1>1
  <2> QED BY <2>1, ResidueForm DEF Norm2
<1>3. t # Absent1 /\ Inverse2(x) = <<(a * t) % Q, (-(b * t)) % Q>>
  BY DEF Inverse2, ByNorm2
<1>4. Norm2(x) # 0
  BY <1>3 DEF Inverse1
<1>5. t \in Fq /\ (Norm2(x) * t) % Q = 1
  BY <1>2, <1>4, FermatAssumption DEF Mul1
<1>6. t \in Int /\ Norm2(x) \in Int
  BY <1>2, <1>5, OwnResidue
<1>7. PICK i \in Int : Norm2(x) = n + i * Q
  BY <1>2, ResidueForm
<1>8. PICK k \in Int : 1 = Norm2(x) * t + k * Q
  <2>1. Norm2(x) * t \in Int
    BY <1>6
  <2> QED BY <2>1, <1>5, ResidueForm
<1>9. y \in Z2 /\ Inverse2(x) = Red2(y) /\ Inverse2(x) \in Fq2
  <2>1. a * t \in Int /\ -(b * t) \in Int
    BY <1>1, <1>6
  <2>2. y \in Z2
    BY <2>1 DEF Z2
  <2>3. Inverse2(x) = Red2(y)
    BY <1>3 DEF Red2
  <2> QED BY <2>2, <2>3, TypeZ2
<1>10. Mul2(x, Inverse2(x)) = Red2(ZMul2(x, y))
  BY <1>1, <1>9, Chains2
<1>11. Red2(ZMul2(x, y)) = <<(a * (a * t) - b * (-(b * t))) % Q, (a * (-(b * t)) + b * (a * t)) % Q>>
  BY DEF Red2, ZMul2
<1> HIDE DEF a, b, t
<1>12. (a * (a * t) - b * (-(b * t))) % Q = 1
  <2> DEFINE l == a * (a * t) - b * (-(b * t))
             m == -(i * t + k)
  <2>1. l \in Int /\ m \in Int /\ l = 1 + m * Q
    BY <1>1, <1>6, <1>7, <1>8, QType
  <2> HIDE DEF l, m
  <2>2. l % Q = 1 % Q
    BY <2>1, SameResidue
  <2>3. 1 % Q = 1
    BY QAssumption
  <2> QED BY <2>2, <2>3 DEF l
<1>13. (a * (-(b * t)) + b * (a * t)) % Q = 0
  <2>1. a * (-(b * t)) + b * (a * t) = 0
    BY <1>1, <1>6
  <2> QED BY <2>1, QAssumption
<1> QED BY <1>9, <1>10, <1>11, <1>12, <1>13 DEF One2

(* The adjoint of an element of Z6: their product is a constant.           *)
Adjoint(x) ==
  <<ZAdd2(ZNeg2(ZMul2(ZXi2(x[3]), x[2])), ZMul2(x[1], x[1])),
    ZSub2(ZXi2(ZMul2(x[3], x[3])), ZMul2(x[1], x[2])),
    ZSub2(ZMul2(x[2], x[2]), ZMul2(x[1], x[3]))>>
ZNorm6(x) ==
  ZAdd2(ZXi2(ZAdd2(ZMul2(x[3], Adjoint(x)[2]), ZMul2(x[2], Adjoint(x)[3]))), ZMul2(x[1], Adjoint(x)[1]))

LEMMA AdjointType ==
  ASSUME NEW x \in Z6
  PROVE  /\ Adjoint(x) \in Z6 /\ ZNorm6(x) \in Z2
         /\ Adjoint(x)[1] \in Z2 /\ Adjoint(x)[2] \in Z2 /\ Adjoint(x)[3] \in Z2
<1>1. x[1] \in Z2 /\ x[2] \in Z2 /\ x[3] \in Z2
  BY TypeZ6
<1>2. Adjoint(x)[1] \in Z2 /\ Adjoint(x)[2] \in Z2 /\ Adjoint(x)[3] \in Z2
  BY <1>1, Chains2 DEF Adjoint
<1>3. Adjoint(x) = <<Adjoint(x)[1], Adjoint(x)[2], Adjoint(x)[3]>>
  BY DEF Adjoint
<1>4. ZNorm6(x) \in Z2
  BY <1>1, <1>2, Chains2 DEF ZNorm6
<1> QED BY <1>2, <1>3, <1>4 DEF Z6

LEMMA AdjointProduct ==
  ASSUME NEW x \in Z6
  PROVE  ZMul6(x, Adjoint(x)) = <<ZNorm6(x), Zero2, Zero2>>
<1> DEFINE c0 == Adjoint(x)[1]
           c1 == Adjoint(x)[2]
           c2 == Adjoint(x)[3]
           a == x[1][1]
           b == x[1][2]
           c == x[2][1]
           d == x[2][2]
           e == x[3][1]
           f == x[3][2]
<1>1. /\ a \in Int /\ b \in Int /\ c \in Int /\ d \in Int /\ e \in Int /\ f \in Int
      /\ x[1] = <<a, b>> /\ x[2] = <<c, d>> /\ x[3] = <<e, f>>
  BY TypeZ6, TypeZ2
<1>2. /\ c0[1] = -((Xi0 * e - f) * c - (Xi0 * f + e) * d) + (a * a - b * b)
      /\ c0[2] = -((Xi0 * e - f) * d + (Xi0 * f + e) * c) + (a * b + b * a)
      /\ c1[1] = (Xi0 * (e * e - f * f) - (e * f + f * e)) - (a * c - b * d)
      /\ c1[2] = (Xi0 * (e * f + f * e) + (e * e - f * f)) - (a * d + b * c)
      /\ c2[1] = (c * c - d * d) - (a * e - b * f)
      /\ c2[2] = (c * d + d * c) - (a * f + b * e)
  BY DEF Adjoint, ZAdd2, ZSub2, ZNeg2, ZMul2, ZXi2
<1> HIDE DEF a, b, c, d, e, f, c0, c1, c2
<1> DEFINE p0 == c0[1]
           q0 == c0[2]
           p1 == c1[1]
           q1 == c1[2]
           p2 == c2[1]
           q2 == c2[2]
<1> HIDE DEF p0, q0, p1, q1, p2, q2
<1>3. /\ p0 = -((Xi0 * e - f) * c - (Xi0 * f + e) * d) + (a * a - b * b)
      /\ q0 = -((Xi0 * e - f) * d + (Xi0 * f + e) * c) + (a * b + b * a)
      /\ p1 = (Xi0 * (e * e - f * f) - (e * f + f * e)) - (a * c - b * d)
      /\ q1 = (Xi0 * (e * f + f * e) + (e * e - f * f)) - (a * d + b * c)
      /\ p2 = (c * c - d * d) - (a * e - b * f)
      /\ q2 = (c * d + d * c) - (a * f + b * e)
  BY <1>2 DEF p0, q0, p1, q1, p2, q2
<1>4. /\ ((a * p1 - b * q1) + (c * p0 - d * q0)) + (Xi0 * (e * p2 - f * q2) - (e * q2 + f * p2)) = 0
      /\ ((a * q1 + b * p1) + (c * q0 + d * p0)) + (Xi0 * (e * q2 + f * p2) + (e * p2 - f * q2)) = 0
      /\ ((a * p2 - b * q2) + (e * p0 - f * q0)) + (c * p1 - d * q1) = 0
      /\ ((a * q2 + b * p2) + (e * q0 + f * p0)) + (c * q1 + d * p1) = 0
  <2>1. ((a * p1 - b * q1) + (c * p0 - d * q0)) + (Xi0 * (e * p2 - f * q2) - (e * q2 + f * p2)) = 0
    BY <1>1, <1>3, QType
  <2>2. ((a * q1 + b * p1) + (c * q0 + d * p0)) + (Xi0 * (e * q2 + f * p2) + (e * p2 - f * q2)) = 0
    BY <1>1, <1>3, QType
  <2>3. ((a * p2 - b * q2) + (e * p0 - f * q0)) + (c * p1 - d * q1) = 0
    BY <1>1, <1>3, QType
  <2>4. ((a * q2 + b * p2) + (e * q0 + f * p0)) + (c * q1 + d * p1) = 0
    BY <1>1, <1>3, QType
  <2> QED BY <2>1, <2>2, <2>3, <2>4
<1>5. ZAdd2(ZAdd2(ZMul2(x[1], c1), ZMul2(x[2], c0)), ZXi2(ZMul2(x[3], c2))) = Zero2
  BY <1>4 DEF a, b, c, d, e, f, p0, q0, p1, q1, p2, q2, ZAdd2, ZMul2, ZXi2, Zero2
<1>6. ZAdd2(ZAdd2(ZMul2(x[1], c2), ZMul2(x[3], c0)), ZMul2(x[2], c1)) = Zero2
  BY <1>4 DEF a, b, c, d, e, f, p0, q0, p1, q1, p2, q2, ZAdd2, ZMul2, Zero2
<1>7. ZAdd2(ZXi2(ZAdd2(ZMul2(x[2], c2), ZMul2(x[3], c1))), ZMul2(x[1], c0)) = ZNorm6(x)
  <2>1. ZMul2(x[2], c2) \in Z2 /\ ZMul2(x[3], c1) \in Z2
    BY TypeZ6, AdjointType, Chains2 DEF c1, c2
  <2>2. ZAdd2(ZMul2(x[2], c2), ZMul2(x[3], c1)) = ZAdd2(ZMul2(x[3], c1), ZMul2(x[2], c2))
    BY <2>1, Commute2
  <2> QED BY <2>2 DEF ZNorm6, c0, c1, c2
<1> QED BY <1>5, <1>6, <1>7 DEF ZMul6, c0, c1, c2

(* Inverses in Fq6 from those in Fq2.                                      *)
LEMMA Inverse6Exact ==
  ASSUME NEW x \in Fq6, Inverse6(x) # Absent
  PROVE  Inverse6(x) \in Fq6 /\ Mul6(x, Inverse6(x)) = One6
<1> DEFINE x1 == x[1]
           x2 == x[2]
           x3 == x[3]
           c == Adjoint(x)
           n == ZNorm6(x)
           t == Inverse2(Red2(n))
<1>1. x1 \in Z2 /\ x2 \in Z2 /\ x3 \in Z2 /\ x \in Z6 /\ Red6(x) = x
  BY TypeZ6
<1>2. x1 = Red2(x1) /\ x2 = Red2(x2) /\ x3 = Red2(x3)
  <2>1. x1 \in Fq2 /\ x2 \in Fq2 /\ x3 \in Fq2
    BY DEF Fq6
  <2> QED BY <2>1, TypeZ2
<1>3. c \in Z6 /\ n \in Z2 /\ c[1] \in Z2 /\ c[2] \in Z2 /\ c[3] \in Z2
  BY <1>1, AdjointType
<1>4. /\ c[1] = ZAdd2(ZNeg2(ZMul2(ZXi2(x3), x2)), ZMul2(x1, x1))
      /\ c[2] = ZSub2(ZXi2(ZMul2(x3, x3)), ZMul2(x1, x2))
      /\ c[3] = ZSub2(ZMul2(x2, x2), ZMul2(x1, x3))
      /\ n = ZAdd2(ZXi2(ZAdd2(ZMul2(x3, c[2]), ZMul2(x2, c[3]))), ZMul2(x1, c[1]))
  BY DEF Adjoint, ZNorm6
<1>5. Inverse6(x) =
        Inverse6From(x, Add2(Neg2(Mul2(MulByNonresidue2(Red2(x3)), Red2(x2))), Square2(Red2(x1))),
                     Sub2(MulByNonresidue2(Square2(Red2(x3))), Mul2(Red2(x1), Red2(x2))),
                     Sub2(Square2(Red2(x2)), Mul2(Red2(x1), Red2(x3))))
  BY <1>2 DEF Inverse6
<1> HIDE DEF x1, x2, x3, c, n
<1>6. /\ Add2(Neg2(Mul2(MulByNonresidue2(Red2(x3)), Red2(x2))), Square2(Red2(x1))) = Red2(c[1])
      /\ Sub2(MulByNonresidue2(Square2(Red2(x3))), Mul2(Red2(x1), Red2(x2))) = Red2(c[2])
      /\ Sub2(Square2(Red2(x2)), Mul2(Red2(x1), Red2(x3))) = Red2(c[3])
  BY <1>1, <1>4, Chains2
<1>7. Inverse6(x) = Inverse6By(t, Red2(c[1]), Red2(c[2]), Red2(c[3]))
  <2>1. Inverse6(x) =
          Inverse6By(Inverse2(Add2(MulByNonresidue2(Add2(Mul2(x3, Red2(c[2])), Mul2(x2, Red2(c[3])))),
                                   Mul2(x1, Red2(c[1])))), Red2(c[1]), Red2(c[2]), Red2(c[3]))
    BY <1>5, <1>6 DEF Inverse6From, x1, x2, x3
  <2>2. Add2(MulByNonresidue2(Add2(Mul2(Red2(x3), Red2(c[2])), Mul2(Red2(x2), Red2(c[3])))), Mul2(Red2(x1), Red2(c[1])))
          = Red2(n)
    BY <1>1, <1>3, <1>4, Chains2
  <2> QED BY <2>1, <2>2, <1>2
<1>8. t # Absent
  BY <1>7 DEF Inverse6By
<1>9. Red2(n) \in Fq2 /\ t \in Fq2 /\ Mul2(Red2(n), t) = One2
  <2>1. Red2(n) \in Fq2
    BY <1>3, TypeZ2
  <2> QED BY <2>1, <1>8, Inverse2Exact
<1> HIDE DEF t
<1>10. t \in Z2 /\ Red2(t) = t
  BY <1>9, TypeZ2
<1>11. Inverse6(x) = Red6(ZScale6(t, c)) /\ ZScale6(t, c) \in Z6
  <2>1. Inverse6(x) = <<Mul2(t, Red2(c[1])), Mul2(t, Red2(c[2])), Mul2(t, Red2(c[3]))>>
    BY <1>7, <1>8 DEF Inverse6By
  <2>2. /\ Mul2(t, Red2(c[1])) = Red2(ZMul2(t, c[1])) /\ ZMul2(t, c[1]) \in Z2
        /\ Mul2(t, Red2(c[2])) = Red2(ZMul2(t, c[2])) /\ ZMul2(t, c[2]) \in Z2
        /\ Mul2(t, Red2(c[3])) = Red2(ZMul2(t, c[3])) /\ ZMul2(t, c[3]) \in Z2
    BY <1>3, <1>10, Chains2
  <2> QED BY <2>1, <2>2 DEF Red6, ZScale6, Z6
<1>12. ZMul6(x, ZScale6(t, c)) = ZScale6(t, <<n, Zero2, Zero2>>)
  <2>1. ZMul6(x, ZScale6(t, c)) = ZMul6(ZScale6(t, c), x)
    BY <1>1, <1>11, Commutative6
  <2>2. ZMul6(ZScale6(t, c), x) = ZScale6(t, ZMul6(c, x))
    BY <1>1, <1>3, <1>10, ScaledProduct
  <2>3. ZMul6(c, x) = ZMul6(x, c)
    BY <1>1, <1>3, Commutative6
  <2>4. ZMul6(x, c) = <<n, Zero2, Zero2>>
    BY <1>1, AdjointProduct DEF c, n
  <2> QED BY <2>1, <2>2, <2>3, <2>4
<1>13. Red2(ZMul2(t, n)) = One2
  <2>1. Mul2(Red2(n), Red2(t)) = Red2(ZMul2(n, t))
    BY <1>3, <1>10, Chains2
  <2>2. ZMul2(n, t) = ZMul2(t, n)
    <3>1. n[1] \in Int /\ n[2] \in Int /\ t[1] \in Int /\ t[2] \in Int
      BY <1>3, <1>10, TypeZ2
    <3> QED BY <3>1 DEF ZMul2
  <2> QED BY <1>9, <1>10, <2>1, <2>2
<1>14. Red2(ZMul2(t, Zero2)) = Zero2
  <2>1. ZMul2(t, Zero2) = Zero2
    <3>1. t[1] \in Int /\ t[2] \in Int
      BY <1>10, TypeZ2
    <3> QED BY <3>1 DEF ZMul2, Zero2
  <2> QED BY <2>1, Constants2, TypeZ2
<1>15. Mul6(x, Inverse6(x)) = Red6(ZScale6(t, <<n, Zero2, Zero2>>))
  BY <1>1, <1>11, <1>12, Chains6
<1>16. Inverse6(x) \in Fq6
  BY <1>11, TypeZ6
<1> QED BY <1>13, <1>14, <1>15, <1>16 DEF Red6, ZScale6, One6

(* Signs in Z6.                                                            *)
LEMMA Negative6 ==
  ASSUME NEW x \in Z6, NEW y \in Z6
  PROVE  /\ ZMul6(x, ZNeg6(y)) = ZNeg6(ZMul6(x, y))
         /\ ZV6(ZNeg6(x)) = ZNeg6(ZV6(x))
         /\ ZAdd6(ZNeg6(x), y) = ZSub6(y, x)
         /\ ZAdd6(ZNeg6(x), x) = <<Zero2, Zero2, Zero2>>
<1> DEFINE m == <<-1, 0>>
<1>1. m \in Z2
  BY DEF Z2
<1>2. ASSUME NEW z \in Z2 PROVE ZMul2(m, z) = ZNeg2(z)
  <2>1. z[1] \in Int /\ z[2] \in Int
    BY TypeZ2
  <2>2. ZMul2(m, z) = <<(-1) * z[1] - 0 * z[2], (-1) * z[2] + 0 * z[1]>>
    BY DEF ZMul2
  <2>3. (-1) * z[1] - 0 * z[2] = -z[1] /\ (-1) * z[2] + 0 * z[1] = -z[2]
    BY <2>1
  <2> QED BY <2>2, <2>3 DEF ZNeg2
<1>3. ASSUME NEW z \in Z6 PROVE ZScale6(m, z) = ZNeg6(z)
  <2>1. z[1] \in Z2 /\ z[2] \in Z2 /\ z[3] \in Z2
    BY TypeZ6
  <2> HIDE DEF m
  <2> QED BY <1>2, <2>1 DEF ZScale6, ZNeg6
<1> HIDE DEF m
<1>4. ZMul6(x, ZNeg6(y)) = ZNeg6(ZMul6(x, y))
  <2>1. ZMul6(x, ZNeg6(y)) = ZMul6(ZNeg6(y), x) /\ ZMul6(x, y) = ZMul6(y, x) /\ ZMul6(y, x) \in Z6
    BY Chains6, Commutative6
  <2>2. ZMul6(ZScale6(m, y), x) = ZScale6(m, ZMul6(y, x))
    BY <1>1, ScaledProduct
  <2> QED BY <2>1, <2>2, <1>3
<1>5. /\ x[1] \in Z2 /\ x[2] \in Z2 /\ x[3] \in Z2
      /\ y[1] \in Z2 /\ y[2] \in Z2 /\ y[3] \in Z2
  BY TypeZ6
<1>6. ASSUME NEW p \in Z2, NEW q \in Z2
      PROVE  /\ ZXi2(ZNeg2(p)) = ZNeg2(ZXi2(p)) /\ ZAdd2(ZNeg2(p), q) = ZSub2(q, p)
             /\ ZAdd2(ZNeg2(p), p) = Zero2
  <2>1. p[1] \in Int /\ p[2] \in Int /\ q[1] \in Int /\ q[2] \in Int
    BY TypeZ2
  <2>2. ZXi2(ZNeg2(p)) = ZNeg2(ZXi2(p))
    <3>1. Xi0 * (-p[1]) - (-p[2]) = -(Xi0 * p[1] - p[2]) /\ Xi0 * (-p[2]) + (-p[1]) = -(Xi0 * p[2] + p[1])
      BY <2>1, QType
    <3> QED BY <3>1 DEF ZXi2, ZNeg2
  <2>3. ZAdd2(ZNeg2(p), q) = ZSub2(q, p)
    <3>1. -p[1] + q[1] = q[1] - p[1] /\ -p[2] + q[2] = q[2] - p[2]
      BY <2>1
    <3> QED BY <3>1 DEF ZAdd2, ZNeg2, ZSub2
  <2>4. ZAdd2(ZNeg2(p), p) = Zero2
    <3>1. -p[1] + p[1] = 0 /\ -p[2] + p[2] = 0
      BY <2>1
    <3> QED BY <3>1 DEF ZAdd2, ZNeg2, Zero2
  <2> QED BY <2>2, <2>3, <2>4
<1>7. ZV6(ZNeg6(x)) = ZNeg6(ZV6(x))
  BY <1>5, <1>6 DEF ZV6, ZNeg6
<1>8. ZAdd6(ZNeg6(x), y) = ZSub6(y, x)
  BY <1>5, <1>6 DEF ZAdd6, ZNeg6, ZSub6
<1>9. ZAdd6(ZNeg6(x), x) = <<Zero2, Zero2, Zero2>>
  BY <1>5, <1>6 DEF ZAdd6, ZNeg6
<1> QED BY <1>4, <1>7, <1>8, <1>9

(* Inverses in Fq12 from those in Fq6.                                     *)
LEMMA Inverse12Exact ==
  ASSUME NEW x \in Fq12, Inverse12(x) # Absent
  PROVE  Inverse12(x) \in Fq12 /\ Mul12(x, Inverse12(x)) = One12
<1> DEFINE a == x[1]
           b == x[2]
           n == ZSub6(ZMul6(a, a), ZV6(ZMul6(b, b)))
           t == Inverse6(Red6(n))
           y == <<ZMul6(t, a), ZNeg6(ZMul6(t, b))>>
<1>1. a \in Z6 /\ b \in Z6 /\ x \in Z12 /\ Red12(x) = x /\ Red6(a) = a /\ Red6(b) = b
  <2>1. a \in Fq6 /\ b \in Fq6
    BY DEF Fq12
  <2> QED BY <2>1, TypeZ6, TypeZ12
<1>2. Inverse12(x) = Inverse12By(x, Inverse6(Sub6(Square6(a), MulByNonresidue6(Square6(b)))))
  BY DEF Inverse12
<1> HIDE DEF a, b
<1>3. /\ n \in Z6 /\ Sub6(Square6(Red6(a)), MulByNonresidue6(Square6(Red6(b)))) = Red6(n)
      /\ ZMul6(a, a) \in Z6 /\ ZMul6(b, b) \in Z6 /\ ZV6(ZMul6(b, b)) \in Z6
  <2>1. /\ ZMul6(a, a) \in Z6 /\ Square6(Red6(a)) = Red6(ZMul6(a, a))
        /\ ZMul6(b, b) \in Z6 /\ Square6(Red6(b)) = Red6(ZMul6(b, b))
    BY <1>1, Chains6
  <2>2. ZV6(ZMul6(b, b)) \in Z6 /\ MulByNonresidue6(Red6(ZMul6(b, b))) = Red6(ZV6(ZMul6(b, b)))
    BY <2>1, Chains6
  <2>3. n \in Z6 /\ Sub6(Red6(ZMul6(a, a)), Red6(ZV6(ZMul6(b, b)))) = Red6(n)
    BY <2>1, <2>2, Chains6
  <2> QED BY <2>1, <2>2, <2>3
<1>4. Inverse12(x) = Inverse12By(x, t)
  BY <1>1, <1>2, <1>3
<1>5. t # Absent /\ Inverse12(x) = <<Mul6(t, a), Neg6(Mul6(t, b))>>
  BY <1>4 DEF Inverse12By, a, b
<1>6. Red6(n) \in Fq6 /\ t \in Fq6 /\ Mul6(Red6(n), t) = One6
  <2>1. Red6(n) \in Fq6
    BY <1>3, TypeZ6
  <2> QED BY <2>1, <1>5, Inverse6Exact
<1> HIDE DEF n, t
<1>7. t \in Z6 /\ Red6(t) = t
  BY <1>6, TypeZ6
<1>8. /\ ZMul6(t, a) \in Z6 /\ Mul6(Red6(t), Red6(a)) = Red6(ZMul6(t, a))
      /\ ZMul6(t, b) \in Z6 /\ ZNeg6(ZMul6(t, b)) \in Z6
      /\ Neg6(Mul6(Red6(t), Red6(b))) = Red6(ZNeg6(ZMul6(t, b)))
  BY <1>1, <1>7, Chains6
<1>9. y \in Z12 /\ Inverse12(x) = Red12(y) /\ Inverse12(x) \in Fq12
  <2>1. y \in Z12
    BY <1>8 DEF Z12
  <2>2. Inverse12(x) = Red12(y)
    BY <1>1, <1>5, <1>7, <1>8 DEF Red12
  <2> QED BY <2>1, <2>2, TypeZ12
<1>10. Mul12(x, Inverse12(x)) = Red12(ZMul12(x, y))
  BY <1>1, <1>9, ResiduesMul12
<1>11. ZMul12(x, y) = <<ZAdd6(ZV6(ZMul6(b, ZNeg6(ZMul6(t, b)))), ZMul6(a, ZMul6(t, a))),
                        ZAdd6(ZMul6(a, ZNeg6(ZMul6(t, b))), ZMul6(b, ZMul6(t, a)))>>
  BY DEF ZMul12, a, b
<1>12. /\ ZMul6(a, ZMul6(t, a)) = ZMul6(t, ZMul6(a, a)) /\ ZMul6(b, ZMul6(t, b)) = ZMul6(t, ZMul6(b, b))
       /\ ZMul6(a, ZMul6(t, b)) = ZMul6(t, ZMul6(b, a)) /\ ZMul6(b, ZMul6(t, a)) = ZMul6(t, ZMul6(b, a))
  <2>1. ASSUME NEW k \in Z6, NEW l \in Z6, ZMul6(t, l) \in Z6 PROVE ZMul6(k, ZMul6(t, l)) = ZMul6(t, ZMul6(l, k))
    <3>1. ZMul6(k, ZMul6(t, l)) = ZMul6(ZMul6(t, l), k)
      BY <2>1, Commutative6
    <3> QED BY <3>1, <1>7, Associative6
  <2>2. ZMul6(a, b) = ZMul6(b, a)
    BY <1>1, Commutative6
  <2> QED BY <2>1, <2>2, <1>1, <1>8
<1>13. /\ ZMul6(t, ZMul6(a, a)) \in Z6 /\ ZMul6(t, ZMul6(b, b)) \in Z6 /\ ZMul6(t, ZMul6(b, a)) \in Z6
       /\ ZV6(ZMul6(t, ZMul6(b, b))) \in Z6
  BY <1>1, <1>7, Chains6
<1>14. ZAdd6(ZV6(ZMul6(b, ZNeg6(ZMul6(t, b)))), ZMul6(a, ZMul6(t, a))) = ZMul6(t, n)
  <2>1. ZMul6(b, ZNeg6(ZMul6(t, b))) = ZNeg6(ZMul6(t, ZMul6(b, b)))
    BY <1>1, <1>8, <1>12, Negative6
  <2>2. ZV6(ZNeg6(ZMul6(t, ZMul6(b, b)))) = ZNeg6(ZV6(ZMul6(t, ZMul6(b, b))))
    BY <1>13, Negative6
  <2>3. ZAdd6(ZNeg6(ZV6(ZMul6(t, ZMul6(b, b)))), ZMul6(t, ZMul6(a, a)))
          = ZSub6(ZMul6(t, ZMul6(a, a)), ZV6(ZMul6(t, ZMul6(b, b))))
    BY <1>13, Negative6
  <2>4. ZMul6(t, n) = ZSub6(ZMul6(t, ZMul6(a, a)), ZMul6(t, ZV6(ZMul6(b, b))))
    BY <1>3, <1>7, LeftLaws6 DEF n
  <2>5. ZMul6(t, ZV6(ZMul6(b, b))) = ZV6(ZMul6(t, ZMul6(b, b)))
    BY <1>3, <1>7, LeftLaws6
  <2> QED BY <2>1, <2>2, <2>3, <2>4, <2>5, <1>12
<1>15. ZAdd6(ZMul6(a, ZNeg6(ZMul6(t, b))), ZMul6(b, ZMul6(t, a))) = <<Zero2, Zero2, Zero2>>
  <2>1. ZMul6(a, ZNeg6(ZMul6(t, b))) = ZNeg6(ZMul6(t, ZMul6(b, a)))
    BY <1>1, <1>8, <1>12, Negative6
  <2> QED BY <2>1, <1>12, <1>13, Negative6
<1>16. Red6(ZMul6(t, n)) = One6
  <2>1. Mul6(Red6(n), Red6(t)) = Red6(ZMul6(n, t)) /\ ZMul6(n, t) = ZMul6(t, n)
    BY <1>3, <1>7, Chains6, Commutative6
  <2> QED BY <2>1, <1>6, <1>7
<1>17. Red6(<<Zero2, Zero2, Zero2>>) = Zero6
  BY Constants2, TypeZ2 DEF Red6, Zero6
<1> QED BY <1>9, <1>10, <1>11, <1>14, <1>15, <1>16, <1>17 DEF Red12, One12

(* What inverse of fq2.rs, fq6.rs and fq12.rs returns is the inverse: the  *)
(* chain of norms down to the power in Fq, and the one product per         *)
(* coefficient on the way back, are those of the extension.                *)
THEOREM InversesExact ==
  /\ \A a \in Fq2 : Inverse2(a) # Absent => Inverse2(a) \in Fq2 /\ Mul2(a, Inverse2(a)) = One2
  /\ \A a \in Fq6 : Inverse6(a) # Absent => Inverse6(a) \in Fq6 /\ Mul6(a, Inverse6(a)) = One6
  /\ \A a \in Fq12 : Inverse12(a) # Absent => Inverse12(a) \in Fq12 /\ Mul12(a, Inverse12(a)) = One12
BY Inverse2Exact, Inverse6Exact, Inverse12Exact
=============================================================================
