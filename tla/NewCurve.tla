------------------------------ MODULE NewCurve ------------------------------
(***************************************************************************)
(* What parameters a curve is built from (CurveGroup.__init__ and          *)
(* Curve.__init__): which of them are refused, by which check, and what is *)
(* then true of the ones that are not.  A parameter is a number; that n    *)
(* and p are tested for primality is NumberTheory's.                       *)
(***************************************************************************)
EXTENDS Integers, FiniteSets

CONSTANTS
  Candidates,   \* bound: what somebody builds a curve from
  MinDegree     \* the least embedding degree that is not weak, 100

NewCurveAssumption ==
  /\ MinDegree \in Nat
  /\ \A c \in Candidates : c.p \in Nat /\ c.n \in Nat /\ c.weaknessCheck \in BOOLEAN

Jac(p, a, b) == INSTANCE JacobianGroup

IsPrime(x) == x > 2 /\ \A d \in 2..(x - 1) : x % d # 0
ISqrt(x) == CHOOSE i \in 0..x : i * i <= x /\ x < (i + 1) * (i + 1)

\* CurveGroup.__init__
IsGroup(c) ==
  /\ IsPrime(c.p)
  /\ c.a \in 0..(c.p - 1) /\ c.b \in 0..(c.p - 1)
  /\ (4 * c.a * c.a * c.a + 27 * c.b * c.b) % c.p # 0

\* CurveGroup.is_on_curve, to which (x, 0) is infinity.
IsOnCurve(c, Q) ==
  /\ Q[1] \in 0..(c.p - 1)
  /\ \/ Q[2] = 0
     \/ Q[2] \in 1..(c.p - 1) /\ (Q[2] * Q[2]) % c.p = Jac(c.p, c.a, c.b)!Y2(Q[1])

\* Hasse's half-width, floor(2*sqrt(p)).  Slip: 2*floor(sqrt(p)).
DeltaTwice(p) == 2 * ISqrt(p)
Delta(p) == ISqrt(4 * p)

\* Slip: a cofactor is any that bounds n.
IsCofactorOfN(c) == c.cofactor >= 1 /\ c.n <= c.p + 1 + Delta(c.p)
IsCofactor(c) ==
  /\ c.cofactor >= 1
  /\ c.cofactor * c.n \in (c.p + 1 - Delta(c.p))..(c.p + 1 + Delta(c.p))

\* n*G = INF, by _mult_jac_var.
Annihilates(c) ==
  LET doubled[i \in 0..10] ==
        IF i = 0 THEN <<c.G[1], c.G[2], 1>> ELSE Jac(c.p, c.a, c.b)!DoubleJac(doubled[i - 1])
      sum[i \in 0..10] ==   \* the low i bits of n, times G
        IF i = 0 THEN Jac(c.p, c.a, c.b)!INFJ
        ELSE IF (c.n \div 2^(i - 1)) % 2 = 0 THEN sum[i - 1]
        ELSE IF i = 1 THEN doubled[0]
        ELSE Jac(c.p, c.a, c.b)!AddJac(sum[i - 1], doubled[i - 1])
  IN  sum[10][3] = 0

\* p^i mod n for i below the least degree.
IsMovResistant(c) ==
  LET power[i \in 0..MinDegree] == IF i = 0 THEN 1 % c.n ELSE (power[i - 1] * c.p) % c.n
  IN  \A i \in 1..(MinDegree - 1) : power[i] # 1

\* Curve.__init__, its checks in their order.
IsCurve(c) ==
  /\ IsGroup(c)
  /\ IsOnCurve(c, c.G)
  /\ IsPrime(c.n)
  /\ IsCofactor(c)
  /\ c.G[2] # 0
  /\ c.orderCheck => Annihilates(c)
  /\ c.n # c.p
  /\ c.weaknessCheck => IsMovResistant(c)

-----------------------------------------------------------------------------
VARIABLES
  params,   \* the parameters
  curve     \* "none", or what came of them: "built" or "refused"

vars == <<params, curve>>

Init == params \in Candidates /\ curve = "none"

Build ==
  /\ curve = "none"
  /\ curve' = IF IsCurve(params) THEN "built" ELSE "refused"
  /\ UNCHANGED params

Spec == Init /\ [][Build]_vars

-----------------------------------------------------------------------------
(* Properties *)

Law(c) == INSTANCE JacobianGroup WITH p <- c.p, a <- c.a, b <- c.b

\* Whatever a curve is built from with order_check on, n is the order of its
\* generator: not a multiple of it, and not half of it on a curve that has a
\* point of order two (curve.py:281-287, 322-365).
BuiltHasItsOrder ==
  curve = "built" /\ params.orderCheck => Law(params)!IsOrderOf(params.n, params.G)

\* Where n is more than twice Hasse's half-width, the cofactor is the index of
\* the subgroup in the curve (curve.py:297-320).
BuiltHasItsCofactor ==
  curve = "built" /\ params.orderCheck /\ params.n > 2 * ISqrt(4 * params.p) =>
    params.cofactor * params.n = Law(params)!Order

\* Every subgroup of odd prime order of every curve is built, unless it is
\* anomalous, with its cofactor: Hasse's bounds refuse none
\* (curve.py:288-320, 367-379).
EveryCurveIsBuilt ==
  LET c == params
  IN  curve = "refused" /\ IsGroup(c) /\ ~c.weaknessCheck =>
        ~ /\ IsPrime(c.n) /\ c.n # c.p
          /\ c.G \in Law(c)!Points /\ c.G[2] # 0
          /\ c.cofactor * c.n = Law(c)!Order
          /\ Law(c)!IsOrderOf(c.n, c.G)
=============================================================================
