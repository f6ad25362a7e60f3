---------------------------- MODULE JacobianWalk ----------------------------
(***************************************************************************)
(* An accumulator and an operand walked over the curve the way a           *)
(* multiplication walks its own, through every special case of the law: an *)
(* operand at infinity, a point added to itself and to its opposite, each  *)
(* in any coordinates.                                                     *)
(*                                                                         *)
(* P and R are history variables, what J and K are to be: every action     *)
(* does to them, by the affine group law, what it is named for.            *)
(***************************************************************************)
EXTENDS JacobianGroup

VARIABLES J,   \* the accumulator
          K,   \* the point an addition adds to it
          P,   \* the accumulator, had everything been done on affine points
          R    \* and the other point

vars == <<J, K, P, R>>

Scalings == 1..(p - 1)
\* The coordinates a point may come in.
Representations(Q) ==
  IF IsInf(Q) THEN {INFJ, JacFromAff(INF)}
  ELSE {BlindedJac(JacFromAff(Q), lam) : lam \in Scalings}

Init ==
  /\ P \in AffinePoints \cup {INF} /\ J \in Representations(P)
  /\ R \in AffinePoints \cup {INF} /\ K \in Representations(R)

DoubleIt == J' = DoubleJac(J) /\ P' = Double(P) /\ UNCHANGED <<K, R>>
Add ==
  J' \in {AddJac(J, K), AddJac(K, J)} /\ P' = AddAff(P, R) /\ UNCHANGED <<K, R>>
AddAffine ==
  J' = AddJacAff(J, AffFromJac(K)) /\ P' = AddAff(P, R) /\ UNCHANGED <<K, R>>
Negate == J' = NegateJac(J) /\ P' = CurveNegateAff(P) /\ UNCHANGED <<K, R>>
Copy == K' = J /\ R' = P /\ UNCHANGED <<J, P>>
Blind == (\E lam \in Scalings : J' = BlindedJac(J, lam)) /\ UNCHANGED <<K, P, R>>
\* Read off as an affine point and taken up again, as every mult does.
Normalise == J' = JacFromAff(AffFromJac(J)) /\ UNCHANGED <<K, P, R>>

Next == DoubleIt \/ Add \/ AddAffine \/ Negate \/ Copy \/ Blind \/ Normalise

Spec == Init /\ [][Next]_vars

----------------------------------------------------------------------------
(* Properties *)

\* Coordinates are reduced, the 7 of infinity apart, and a finite accumulator
\* is on the curve in its own coordinates (curve_group.py:379, 543).
TypeOK ==
  /\ J \in (Field \cup {7}) \X Field \X Field
  /\ J[3] # 0 =>
       LET z2 == (J[3] * J[3]) % p
           z4 == (z2 * z2) % p
       IN  (J[2] * J[2]) % p
             = (((J[1] * J[1]) % p) * J[1] + a * ((J[1] * z4) % p) + b * ((z4 * z2) % p)) % p

\* Whatever coordinates the points are in, and through every special case of
\* the formulas, doubling, adding and negating do to them what the affine group
\* law does to affine points, and rewriting a point does not move it: infinity
\* added leaves a point where it was, and added to is the other one
\* (curve_group.py:379-573).
WalksWithTheLaw == AffFromJac(J) = P /\ AffFromJac(K) = R

\* The readings agree: a batch conversion with infinities anywhere in it
\* answers what one conversion each would, and x alone and y alone are the
\* coordinates of the whole (curve_group.py:294, 322, 336).
ReadingsAgree ==
  /\ LET Qs == <<J, INFJ, DoubleJac(J), JacFromAff(INF), K>>
     IN  AffFromJacBatch(Qs) = [i \in 1..Len(Qs) |-> AffFromJac(Qs[i])]
  /\ J[3] # 0 => AffFromJac(J) = <<XAffFromJac(J), YAffFromJac(J)>>

\* is_jac_equal answers whether two Jacobian points are the same affine point
\* (curve_group.py:351).
JacEqualIsAffineEqual == IsJacEqual(J, K) <=> AffFromJac(J) = AffFromJac(K)
=============================================================================
