---------------------------- MODULE CofactorGroup ----------------------------
(***************************************************************************)
(* All the points of a curve, and the subgroup of prime order n generated  *)
(* by G in them (curves/curve.py), for curves whose whole group is cyclic: *)
(* every curve of cofactor 1, where the two groups are one, and the tests' *)
(* curves of cofactor 2 to 5.  A point is its discrete logarithm to a      *)
(* generator of the whole group that h times over is G; infinity is 0.     *)
(*                                                                         *)
(* Unlike PrimeGroup, this module keeps the coordinates ECDSA looks at:    *)
(* the x-coordinate, a field element, and the parity of y.                 *)
(***************************************************************************)
EXTENDS Integers

CONSTANTS
  p,      \* the order of the field (Curve.p)
  n,      \* the order of G (Curve.n)
  h,      \* the cofactor (Curve.cofactor)
  XOf,    \* XOf[P]: the x-coordinate of P
  OddY    \* the points whose y-coordinate is odd

N      == n * h
Scalar == 0..(n - 1)
Point  == 0..(N - 1)
INF    == 0
G      == h
Finite == 1..(N - 1)

ASSUME GroupAssumption ==
  /\ n \in Nat /\ n > 2
  /\ h \in Nat /\ h > 0
  /\ p \in Nat

\* n is prime: every scalar but zero has an inverse.
ASSUME PrimeAssumption ==
  \A k \in 1..(n - 1) : \E i \in 1..(n - 1) : (k * i) % n = 1

\* A field element is the x-coordinate of a point and of its opposite, and of
\* no other; of two opposite points one has an odd y, unless they are one
\* point, whose y is zero.
ASSUME CoordinatesAssumption ==
  /\ XOf \in [Finite -> 0..(p - 1)]
  /\ \A P, Q \in Finite : XOf[P] = XOf[Q] <=> Q \in {P, N - P}
  /\ OddY \subseteq Finite
  /\ \A P \in Finite : IF N - P = P THEN P \notin OddY
                                    ELSE P \in OddY <=> (N - P) \notin OddY

-----------------------------------------------------------------------------
Add(P, Q) == (P + Q) % N

\* mult: the scalar is reduced modulo n whatever the order of P.
Mult(k, P) == ((k % n) * P) % N

\* The parity of y, as a bit.
Parity(P) == IF P \in OddY THEN 1 ELSE 0

\* _is_x_coordinate_var and _y_even_var: whether x is the x-coordinate of a
\* point, and the point with that x whose y has the parity asked for.
IsXCoordinate(x) == \E P \in Finite : XOf[P] = x
Lift(x, parity) ==
  CHOOSE P \in Finite : XOf[P] = x /\ (N - P = P \/ Parity(P) = parity)

\* n*P is infinity: P is a multiple of G (_assert_in_subgroup, and step 1.4 of
\* key recovery).
InSubgroup(P) == (n * P) % N = INF

\* What point_from_pub_key accepts.
PubKey == {P \in Finite : InSubgroup(P)}

\* mod_inv and mod_inv_var, modulo n.
Inverses == [k \in 1..(n - 1) |-> CHOOSE i \in 1..(n - 1) : (k * i) % n = 1]
ModInv(k) == Inverses[k]
=============================================================================
