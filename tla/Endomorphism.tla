---------------------------- MODULE Endomorphism ----------------------------
(***************************************************************************)
(* secp256k1's endomorphism in curve_group_2.py: lambda times a point is   *)
(* one product away, so a scalar is split into two short halves over a     *)
(* point and its image, by rounding to the nearest point of a lattice.     *)
(***************************************************************************)
EXTENDS Multiplications

CONSTANTS
  Endo(_),             \* lambda times a point: its x times beta
  N,                   \* the order of the group
  Lam,                 \* lambda, a cube root of one modulo N
  A1, B1, A2, B2,      \* the lattice: A1 + B1*lambda = A2 + B2*lambda = 0 modulo N
  HalfLen              \* the bits a half is given

----------------------------------------------------------------------------
(* The split *)

DecomposerCeil(m) ==   \* quotients rounded up
  LET r  == m % N
      c1 == (B2 * r + N - 1) \div N
      c2 == (-B1 * r + N - 1) \div N
  IN  <<r - c1 * A1 - c2 * A2, -c1 * B1 - c2 * B2>>
MultiplierDecomposer(m) ==   \* two signed halves
  LET r  == m % N
      c1 == (B2 * r + N \div 2) \div N
      c2 == (-B1 * r + N \div 2) \div N
  IN  <<r - c1 * A1 - c2 * A2, -c1 * B1 - c2 * B2>>

\* The signs go to the points.
SplitUnsigned(m, Q) ==
  LET half == MultiplierDecomposer(m)
  IN  [m1 |-> Abs(half[1]), P |-> Q, m2 |-> Abs(half[2]), K |-> Endo(Q)]
Split(m, Q) ==
  LET half == MultiplierDecomposer(m)
      signed(h, R) == IF h < 0 THEN NegateJac(R) ELSE R
  IN  [m1 |-> Abs(half[1]), P |-> signed(half[1], Q),
       m2 |-> Abs(half[2]), K |-> signed(half[2], Endo(Q))]

----------------------------------------------------------------------------
(* The multiplications built on it *)

\* A private key's and a nonce's: regular in the halves.
MultEndomorphism ==
  /\ Single
  /\ LET s == Split(call.m, call.Q)
     IN  Answer("endomorphism", DoubleMultRegularWindow(s.m1, s.P, s.m2, s.K, call.w, HalfLen))

MultEndomorphismVar ==
  /\ Single
  /\ LET s == Split(call.m, call.Q)
     IN  Answer("endomorphism var", DoubleMultWNaf(s.m1, s.P, s.m2, s.K, call.w, {}))

\* A verification's: four halves interleaved. A fixed point's images are fixed.
DoubleMultEndomorphismVar ==
  /\ Pair
  /\ LET s == Split(call.u, call.H)
         t == Split(call.v, call.Q)
         fixed == call.fixed \cup (IF call.H \in call.fixed THEN {s.P, s.K} ELSE {})
                             \cup (IF call.Q \in call.fixed THEN {t.P, t.K} ELSE {})
     IN  Answer("endomorphism pair",
                MultiMultWNaf(<<s.m1, s.m2, t.m1, t.m2>>, <<s.P, s.K, t.P, t.K>>, call.w, fixed))

EndoNext == MultEndomorphism \/ MultEndomorphismVar \/ DoubleMultEndomorphismVar

EndoSpec == Init /\ [][EndoNext]_vars

----------------------------------------------------------------------------
(* Properties *)

\* The two halves are the scalar, are short, and fit the bits the regular
\* multiplication gives them, for every scalar and negative ones
\* (curve_group_2.py:434-453, 474).
HalvesAreShort ==
  call \in Singles =>
    \A m \in {call.m, -call.m} :
      LET half == MultiplierDecomposer(m)
      IN  /\ (half[1] + half[2] * Lam - m) % N = 0
          /\ 2 * Abs(half[1]) <= Abs(A1) + Abs(A2)
          /\ 2 * Abs(half[2]) <= Abs(B1) + Abs(B2)
          /\ Fits(Abs(half[1]), HalfLen) /\ Fits(Abs(half[2]), HalfLen)

\* Through the endomorphism a multiplication costs the same for every scalar,
\* and half the doublings of the group's (curve_group_2.py:517-518, 543-547).
EndomorphismCost ==
  by = "endomorphism" =>
    LET size == CeilDiv(HalfLen, call.w)
    IN  Adds(answer) = 2 * size + 1 /\ Dbls(answer) = call.w * (size - 1)
=============================================================================
