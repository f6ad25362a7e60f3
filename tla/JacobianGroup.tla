--------------------------- MODULE JacobianGroup ---------------------------
(***************************************************************************)
(* The arithmetic of curve_group.py over a small field: the affine group   *)
(* law, and the Jacobian formulas, where (X, Y, Z) is the affine point     *)
(* (X/Z^2, Y/Z^3) and Z = 0 is infinity whatever X and Y are.              *)
(*                                                                         *)
(* An affine infinity is spelled (5, 0), as the code spells it, and every  *)
(* point with y = 0 is read as infinity: the affine law is a group law on  *)
(* curves without a point of order two.                                    *)
(***************************************************************************)
EXTENDS Integers, Sequences, FiniteSets

CONSTANTS p, a, b   \* the curve y^2 = x^3 + a*x + b over the integers modulo p

Field == 0..(p - 1)
INF == <<5, 0>>
IsInf(Q) == Q[2] = 0

FieldInv(x) == CHOOSE i \in Field : (x * i) % p = 1

Y2(x) == ((x * x + a) * x + b) % p
AffinePoints == {Q \in Field \X Field : ~IsInf(Q) /\ (Q[2] * Q[2]) % p = Y2(Q[1])}

\* The third point of the line of slope lam through Q and R, mirrored.
OnLine(lam, Q, R) ==
  LET x == (lam * lam - Q[1] - R[1]) % p
  IN  <<x, (lam * (Q[1] - x) - Q[2]) % p>>

Double(Q) ==
  IF IsInf(Q) THEN INF
  ELSE OnLine(((3 * Q[1] * Q[1] + a) * FieldInv((2 * Q[2]) % p)) % p, Q, Q)

\* add_aff_var: infinity is asked first, because (5, 0) may share its
\* x-coordinate with a point.
AddAff(Q, R) ==
  IF IsInf(R) THEN Q
  ELSE IF IsInf(Q) THEN R
  ELSE IF R[1] = Q[1] THEN (IF R[2] = Q[2] THEN Double(R) ELSE INF)
  ELSE OnLine(((R[2] - Q[2]) * FieldInv((R[1] - Q[1]) % p)) % p, Q, R)

\* The multiples of a point up to m times it.
Multiples(Q, m) ==
  LET times[k \in 0..m] == IF k = 0 THEN INF ELSE AddAff(times[k - 1], Q)
  IN  times

----------------------------------------------------------------------------
(* All the points of the curve, one of order two included, and their sum   *)
(* by chord and tangent, infinity being none of them: the group that       *)
(* affine and Jacobian coordinates are to be in.                           *)

None == <<>>

Points == {Q \in Field \X Field : (Q[2] * Q[2]) % p = Y2(Q[1])}
Order  == Cardinality(Points) + 1

Plus(Q, R) ==
  LET slope == IF Q = R THEN (3 * Q[1] * Q[1] + a) * FieldInv((2 * Q[2]) % p)
               ELSE (R[2] - Q[2]) * FieldInv((R[1] - Q[1]) % p)
  IN  IF Q = None THEN R ELSE IF R = None THEN Q
      ELSE IF Q[1] = R[1] /\ (Q[2] + R[2]) % p = 0 THEN None
      ELSE OnLine(slope % p, Q, R)

\* 0*Q, ..., m*Q.
TimesTo(m, Q) ==
  LET times[k \in 0..m] == IF k = 0 THEN None ELSE Plus(times[k - 1], Q)
  IN  times

\* k is the order of Q.
IsOrderOf(k, Q) ==
  LET times == TimesTo(k, Q) IN \A i \in 1..k : times[i] = None <=> i = k

----------------------------------------------------------------------------
(* Representations *)

INFJ == <<7, 0, 0>>   \* 7 is not reduced: it is 0 when p is 7

JacFromAff(Q) == <<Q[1], Q[2], IF Q[2] # 0 THEN 1 ELSE 0>>

AffFromZInv(Q, zInv) ==
  LET zInv2 == (zInv * zInv) % p
  IN  <<(Q[1] * zInv2) % p, (((Q[2] * zInv2) % p) * zInv) % p>>

AffFromJac(Q) == IF Q[3] = 0 THEN INF ELSE AffFromZInv(Q, FieldInv(Q[3]))

\* One batch of inverses, taken in turn by the points that have a Z.
AffFromJacBatchSlip(Qs) ==   \* an inverse is taken for infinity too
  LET inverses == [i \in 1..Len(Qs) |-> IF Qs[i][3] = 0 THEN 1 ELSE FieldInv(Qs[i][3])]
      finite == SelectSeq(inverses, LAMBDA x : x # 1)
  IN  [i \in 1..Len(Qs) |->
        IF Qs[i][3] = 0 \/ i > Len(finite) THEN INF ELSE AffFromZInv(Qs[i], finite[i])]
AffFromJacBatch(Qs) ==
  LET zs       == SelectSeq([i \in 1..Len(Qs) |-> Qs[i][3]], LAMBDA z : z # 0)
      inverses == [k \in 1..Len(zs) |-> FieldInv(zs[k])]
      turn(i)  == Cardinality({j \in 1..i : Qs[j][3] # 0})
  IN  [i \in 1..Len(Qs) |->
        IF Qs[i][3] = 0 THEN INF ELSE AffFromZInv(Qs[i], inverses[turn(i)])]

\* One coordinate alone; infinity has none and is refused by the caller's guard.
XAffFromJac(Q) == (Q[1] * FieldInv((Q[3] * Q[3]) % p)) % p
YAffSlip(Q) == (Q[2] * FieldInv((Q[3] * Q[3]) % p)) % p
YAffFromJac(Q) == (Q[2] * FieldInv((Q[3] * Q[3] * Q[3]) % p)) % p

IsJacEqualSlip(Q, R) == (Q[1] * R[3] * R[3]) % p = (R[1] * Q[3] * Q[3]) % p
IsJacEqual(Q, R) ==
  LET R2 == R[3] * R[3]
      Q2 == Q[3] * Q[3]
  IN  /\ (Q[1] * R2) % p = (R[1] * Q2) % p
      /\ (Q[2] * ((R2 * R[3]) % p)) % p = (R[2] * ((Q2 * Q[3]) % p)) % p

\* Slip: Z is negated with Y, which leaves the point where it was.
NegateBoth(Q) == <<Q[1], (p - Q[2]) % p, (p - Q[3]) % p>>
NegateJac(Q) == <<Q[1], (p - Q[2]) % p, Q[3]>>

\* The same point with another Z: _blinded_jac, lam its random nonzero factor.
BlindSlip(Q, lam) == <<(Q[1] * lam * lam) % p, (Q[2] * lam * lam) % p, (Q[3] * lam) % p>>
BlindedJac(Q, lam) ==
  LET lam2 == (lam * lam) % p
  IN  <<(Q[1] * lam2) % p, (((Q[2] * lam2) % p) * lam) % p, (Q[3] * lam) % p>>

----------------------------------------------------------------------------
(* The group law *)

Tangent(Q, Z2) ==
  IF a = 0 THEN (3 * Q[1] * Q[1]) % p
  ELSE IF a = p - 3 THEN (3 * (((Q[1] - Z2) * (Q[1] + Z2)) % p)) % p
  ELSE (3 * Q[1] * Q[1] + a * ((Z2 * Z2) % p)) % p

\* Z is 0 both for infinity and for a point of order two.
DoubleJacHelper(Q, Z2) ==
  LET Y2Q == (Q[2] * Q[2]) % p
      W   == Tangent(Q, Z2)
      V   == (4 * Q[1] * Y2Q) % p
      X   == (W * W - 2 * V) % p
  IN  <<X, (W * (V - X) - 8 * Y2Q * Y2Q) % p, (2 * Q[2] * Q[3]) % p>>

DoubleJac(Q) == DoubleJacHelper(Q, IF a = 0 THEN 0 ELSE (Q[3] * Q[3]) % p)

\* What the arithmetic is done on in place of an operand at infinity.
StandInQ == <<p \div 3, p \div 5, p \div 7>>
StandInR == <<p \div 11, p \div 13, p \div 17>>

\* The chord through Q and R once both are in one frame: M and T are Q's
\* coordinates there, V and W the differences of the two points' coordinates.
Chord(M, T, V, W, z) ==
  LET V2  == (V * V) % p
      V3  == (V2 * V) % p
      MV2 == (M * V2) % p
      X   == (W * W - V3 - 2 * MV2) % p
  IN  <<X, (W * (MV2 - X) - T * V3) % p, z>>

\* Slip: an infinity on either side answers the first operand.
SelectedFirst(qInf, rInf, sum, Q, R) == IF qInf \/ rInf THEN Q ELSE sum
\* The answer is selected by which operands are infinity, after the fact.
Selected(qInf, rInf, sum, Q, R) ==
  IF qInf THEN (IF rInf THEN INFJ ELSE R) ELSE IF rInf THEN Q ELSE sum

\* V = 0 is read only when neither operand is infinity: of a stand-in, as of
\* an infinity's X, it says nothing.
AddJacNoZTests(Q, R) ==
  LET QS  == IF Q[3] = 0 THEN StandInQ ELSE Q
      RS  == IF R[3] = 0 THEN StandInR ELSE R
      RZ2 == (RS[3] * RS[3]) % p
      QZ2 == (QS[3] * QS[3]) % p
      M   == (QS[1] * RZ2) % p
      T   == (QS[2] * ((RZ2 * RS[3]) % p)) % p
      V   == (RS[1] * QZ2 - M) % p
      W   == (RS[2] * ((QZ2 * QS[3]) % p) - T) % p
  IN  IF V = 0 THEN (IF W = 0 THEN DoubleJacHelper(Q, QZ2) ELSE INFJ)
      ELSE Selected(Q[3] = 0, R[3] = 0,
                    Chord(M, T, V, W, (((V * QS[3]) % p) * RS[3]) % p), Q, R)
AddJac(Q, R) ==
  LET QS  == IF Q[3] = 0 THEN StandInQ ELSE Q
      RS  == IF R[3] = 0 THEN StandInR ELSE R
      RZ2 == (RS[3] * RS[3]) % p
      QZ2 == (QS[3] * QS[3]) % p
      M   == (QS[1] * RZ2) % p
      T   == (QS[2] * ((RZ2 * RS[3]) % p)) % p
      V   == (RS[1] * QZ2 - M) % p
      W   == (RS[2] * ((QZ2 * QS[3]) % p) - T) % p
  IN  IF V = 0 /\ Q[3] # 0 /\ R[3] # 0
      THEN IF W = 0 THEN DoubleJacHelper(Q, QZ2) ELSE INFJ
      ELSE Selected(Q[3] = 0, R[3] = 0,
                    Chord(M, T, V, W, (((V * QS[3]) % p) * RS[3]) % p), Q, R)

\* add_jac with R affine: R's frame is the affine one, and R[2] = 0 is infinity.
AddJacAff(Q, R) ==
  LET QS  == IF Q[3] = 0 THEN StandInQ ELSE Q
      RS  == IF R[2] = 0 THEN StandInR ELSE R
      QZ2 == (QS[3] * QS[3]) % p
      V   == (RS[1] * QZ2 - QS[1]) % p
      W   == (RS[2] * ((QZ2 * QS[3]) % p) - QS[2]) % p
  IN  IF V = 0 /\ Q[3] # 0 /\ R[2] # 0
      THEN IF W = 0 THEN DoubleJacHelper(Q, QZ2) ELSE INFJ
      ELSE Selected(Q[3] = 0, R[2] = 0,
                    Chord(QS[1], QS[2], V, W, (V * QS[3]) % p), Q, <<R[1], R[2], 1>>)

----------------------------------------------------------------------------
(* Points that count the operations that made them; an affine point is its *)
(* two coordinates, and has forgotten what it cost.                        *)

At(j) == [j |-> j, adds |-> 0, dbls |-> 0]
CurveInfinity == At(INFJ)
CurveDouble(Q) == [j |-> DoubleJac(Q.j), adds |-> Q.adds, dbls |-> Q.dbls + 1]
CurveAdd(Q, R) == [j    |-> AddJac(Q.j, R.j),
                   adds |-> Q.adds + R.adds + 1, dbls |-> Q.dbls + R.dbls]
CurveAddAff(Q, R) == [Q EXCEPT !.j = AddJacAff(Q.j, R), !.adds = Q.adds + 1]
CurveNegate(Q) == [Q EXCEPT !.j = NegateJac(Q.j)]
CurveNegateAff(Q) == <<Q[1], (p - Q[2]) % p>>
CurveFromAff(Q) == At(JacFromAff(Q))
CurveToAff(Q) == AffFromJac(Q.j)
CurveBlinded(Q) == [Q EXCEPT !.j = BlindedJac(Q.j, p - 2)]
=============================================================================
