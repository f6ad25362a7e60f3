----------------------------- MODULE PrimeGroup -----------------------------
(***************************************************************************)
(* The prime-order group every scheme of btclib_ecc computes in, seen      *)
(* through discrete logarithms: the point k*G is the number k, so a point  *)
(* is a member of 0..n-1, the generator is 1 and the point at infinity is  *)
(* 0.  Addition, negation and multiplication by a scalar are then what     *)
(* CurveGroup.add_var, CurveGroup.negate and curves.mult compute, whatever *)
(* coordinates and whichever algorithm they compute it with.               *)
(***************************************************************************)
EXTENDS Integers, Sequences

CONSTANT n   \* the order of the group (Curve.n)

ASSUME OrderAssumption == n \in Nat /\ n > 2

Scalar == 0..(n - 1)
Point  == 0..(n - 1)
INF    == 0
G      == 1

\* What a compressed encoding may decode to: any point but infinity.
Finite == Point \ {INF}

Add(P, Q)  == (P + Q) % n
Negate(P)  == (n - P) % n
Mult(k, P) == (k * P) % n

\* The sum of a sequence of points or scalars, term by term.
PartialSums(s) ==
  LET upTo[i \in 0..Len(s)] == IF i = 0 THEN 0 ELSE (upTo[i - 1] + s[i]) % n
  IN  upTo
SumAll(s) == PartialSums(s)[Len(s)]
=============================================================================
