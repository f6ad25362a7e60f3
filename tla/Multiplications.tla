-------------------------- MODULE Multiplications --------------------------
(***************************************************************************)
(* Every scalar multiplication of the library answering the same calls:    *)
(* an input is given, and an algorithm answers it.                         *)
(***************************************************************************)
EXTENDS ScalarMult

CONSTANTS
  Singles,   \* calls with one scalar: records with m, Q and w
  Pairs,     \* calls with two: records with u, H, v, Q, w and fixed
  Adds(_),   \* the additions that made a point, since it was last made affine
  Dbls(_)    \* and the doublings

VARIABLES call,    \* the input
          by,      \* the algorithm that answered, or "nobody"
          answer   \* what it answered

vars == <<call, by, answer>>

Init == call \in Singles \cup Pairs /\ by = "nobody" /\ answer = INFJ

\* Every algorithm refuses a width that is not positive and a negative scalar.
Single == by = "nobody" /\ call \in Singles /\ call.w > 0 /\ call.m >= 0
Pair   == by = "nobody" /\ call \in Pairs /\ call.w > 0 /\ call.u >= 0 /\ call.v >= 0

Answer(algorithm, point) == by' = algorithm /\ answer' = point /\ UNCHANGED call

Fits(m, bits) == BitLength(m) <= bits

RecursiveAff == Single /\ Answer("recursive aff",
                                 JacFromAff(MultRecursiveAff(call.m, AffFromJac(call.Q))))
RecursiveJac == Single /\ Answer("recursive jac", MultRecursiveJac(call.m, call.Q))
BinaryAff == Single /\ Answer("binary aff", JacFromAff(MultAff(call.m, AffFromJac(call.Q))))
BinaryJac == Single /\ Answer("binary jac", MultJac(call.m, call.Q))
Ladder == Single /\ Answer("ladder", MultMontLadder(call.m, call.Q))
Base3 == Single /\ Answer("base 3", MultBase3(call.m, call.Q))
FixedWindow == Single /\ \E cached \in BOOLEAN :
  /\ cached => call.w <= MaxW
  /\ Answer("fixed window", MultFixedWindow(call.m, call.Q, call.w, cached))
\* A scalar longer than the positions the table has is out of its range.
FixedWindowCached ==
  /\ Single /\ Fits(call.m, call.w * (FieldLen \div call.w + 1))
  /\ Answer("fixed window cached", MultFixedWindowCached(call.m, call.Q, call.w))
\* signed_odd_digits refuses a scalar longer than its digits.
FixedBase ==
  /\ Single /\ Fits(call.m, call.w * CeilDiv(ScalarLen, call.w))
  /\ Answer("fixed base", MultFixedBase(call.m, call.Q, call.w))
RegularWindow == Single /\ Answer("regular window", MultRegularWindow(call.m, call.Q, call.w))
SlidingWindow == Single /\ Answer("sliding window", MultSlidingWindow(call.m, call.Q, call.w))
WNaf == Single /\ Answer("wNAF", MultWNaf(call.m, call.Q, call.w))

Shamir == Pair /\ Answer("Shamir", DoubleMult(call.u, call.H, call.v, call.Q))
PairWNaf == Pair /\ Answer("pair wNAF",
                           DoubleMultWNaf(call.u, call.H, call.v, call.Q, call.w, call.fixed))
PairRegularWindow == Pair /\ Answer("pair regular window",
  DoubleMultRegularWindow(call.u, call.H, call.v, call.Q, call.w, ScalarLen))

Next ==
  \/ RecursiveAff \/ RecursiveJac \/ BinaryAff \/ BinaryJac \/ Ladder \/ Base3
  \/ FixedWindow \/ FixedWindowCached \/ FixedBase \/ RegularWindow
  \/ SlidingWindow \/ WNaf \/ Shamir \/ PairWNaf \/ PairRegularWindow

Spec == Init /\ [][Next]_vars

----------------------------------------------------------------------------
(* Properties *)

\* Whichever algorithm runs, at whatever width, it answers m times the point,
\* or u times the first plus v times the second: on zero, on even scalars, on
\* scalars that fill their digits and on longer ones (curve_group.py:748-1701,
\* curve_group_2.py:140-412).
EveryAlgorithmAgrees ==
  by # "nobody" =>
    AffFromJac(answer) =
      IF call \in Singles THEN AffFromJac(Times(call.m, call.Q))
      ELSE AffFromJac(AddJac(Times(call.u, call.H), Times(call.v, call.Q)))

\* The recodings are the scalar. A wNAF's digits are zero, or odd and below
\* 2^(w - 1), two of them w apart or more, and at most one more than the bits
\* (curve_group.py:937-951); a regular recoding has as many digits as asked
\* for, each odd and below 2^w (curve_group.py:976-996).
RecodingsHold ==
  call \in Singles /\ call.w > 0 /\ call.m >= 0 =>
    LET value(ds, w) == FoldRight(LAMBDA d, x : d + 2^w * x, ds, 0)
        naf  == WNafOf(call.m, call.w)
        w    == Larger(2, call.w)
        size == CeilDiv(Larger(ScalarLen, BitLength(call.m)), call.w)
        odd  == SignedOddDigits(OddOf(call.m), call.w, size)
    IN  /\ value(naf, 1) = call.m
        /\ Len(naf) <= BitLength(call.m) + 1
        /\ \A i \in DOMAIN naf : naf[i] # 0 =>
             /\ Odd(naf[i]) /\ Abs(naf[i]) < 2^(w - 1)
             /\ \A j \in (i + 1)..(i + w - 1) : j \in DOMAIN naf => naf[j] = 0
        /\ value(odd, call.w) = OddOf(call.m)
        /\ Len(odd) = size
        /\ \A i \in DOMAIN odd : Odd(odd[i]) /\ Abs(odd[i]) < 2^call.w

\* What a regular multiplication costs is the same for every scalar of the
\* group: an addition per digit, w doublings between digits, and one addition
\* more for each scalar, even or odd (curve_group.py:1149-1159, 1355-1368,
\* curve_group_2.py:351-361).
RegularCost ==
  LET size == CeilDiv(ScalarLen, call.w)
      cost(additions, doublings) == Adds(answer) = additions /\ Dbls(answer) = doublings
  IN  /\ by = "fixed base" => cost(size, 0)
      /\ by = "regular window" /\ Fits(call.m, ScalarLen) => cost(size, call.w * (size - 1))
      /\ by = "pair regular window" /\ Fits(call.u, ScalarLen) /\ Fits(call.v, ScalarLen) =>
           cost(2 * size + 1, call.w * (size - 1))
=============================================================================
