----------------------------- MODULE ScalarMult -----------------------------
(***************************************************************************)
(* The scalar multiplications of curve_group.py and curve_group_2.py, over *)
(* any group given by the operations they call. Scalars are not reduced.   *)
(*                                                                         *)
(* A sequence here starts at 1 where a list of the code starts at 0: the   *)
(* entry i of a list T is T[i + 1].                                        *)
(***************************************************************************)
EXTENDS Integers, SequencesExt

CONSTANTS
  INFJ, DoubleJac(_), AddJac(_, _), NegateJac(_),   \* Jacobian points
  INF, DoubleAff(_), AddAff(_, _), NegateAff(_),    \* affine points
  AddJacAff(_, _), JacFromAff(_), AffFromJac(_), BlindedJac(_),
  ScalarLen,    \* bits of a scalar of the group
  FieldLen,     \* bits of a coordinate, in whole octets
  MaxW,         \* MAX_W: the width of the memoized table of multiples
  FixedPointW   \* _FIXED_POINT_W: the width of the memoized wNAF tables

CeilDiv(x, y) == (x + y - 1) \div y
BitLength(m) == CHOOSE l \in 0..30 : 2^l > m /\ (l > 0 => 2^(l - 1) <= m)
Odd(m) == m % 2 = 1
Abs(m) == IF m < 0 THEN -m ELSE m
Larger(x, y) == IF x < y THEN y ELSE x
OddOf(m) == IF Odd(m) THEN m ELSE m + 1   \* m | 1

----------------------------------------------------------------------------
(* Recodings of a scalar *)

RECURSIVE ConvertNumberToBase(_, _)
ConvertNumberToBase(i, base) ==   \* most significant digit first, never empty
  IF i < base THEN <<i>> ELSE Append(ConvertNumberToBase(i \div base, base), i % base)

ModsUnsigned(m, w) == m % 2^w
Mods(m, w) ==
  LET M == m % 2^w IN IF 2^w \div 2 <= M THEN M - 2^w ELSE M

\* Least significant first; a width of one is the width of two.
RECURSIVE WNafOf(_, _)
WNafOf(m, w) ==
  IF m <= 0 THEN <<>>
  ELSE LET d == IF ~Odd(m) THEN 0 ELSE IF w = 1 THEN 2 - (m % 4) ELSE Mods(m, w)
       IN  <<d>> \o WNafOf((m - d) \div 2, w)

\* The size odd digits of an odd m that fits them: the last one is what is left.
RECURSIVE SignedOddDigits(_, _, _)
SignedOddDigits(m, w, size) ==
  IF size = 1 THEN <<m>>
  ELSE LET d == (m % (2 * 2^w)) - 2^w
       IN  <<d>> \o SignedOddDigits((m - d) \div 2^w, w, size - 1)

----------------------------------------------------------------------------
(* Tables *)

RECURSIVE Doubled(_, _)
Doubled(R, w) == IF w = 0 THEN R ELSE Doubled(DoubleJac(R), w - 1)

\* 0*Q, ..., (size - 1)*Q: an even multiple is a doubling, an odd one follows it.
Multiples(Q, size) ==
  LET T[k \in 0..(size - 1)] ==
        IF k = 0 THEN INFJ ELSE IF k = 1 THEN Q
        ELSE IF Odd(k) THEN AddJac(T[k - 1], Q) ELSE DoubleJac(T[k \div 2])
  IN  T

CachedMultiples(Q) == Multiples(Q, 2^MaxW)

\* A table per digit position, each of the last one's multiple 2^w.
RECURSIVE PositionBases(_, _, _)
PositionBases(K, w, count) ==
  IF count = 0 THEN <<>>
  ELSE <<K>> \o PositionBases(DoubleJac(Multiples(K, 2^w)[2^(w - 1)]), w, count - 1)
CachedMultiplesFixwind(Q, w) ==
  LET bases == PositionBases(Q, w, FieldLen \div w + 1)
  IN  [i \in 1..Len(bases) |-> Multiples(bases[i], 2^w)]

\* 1*Q, 3*Q, ..., (2^(w - 1) - 1)*Q.
OddMultiples(Q, w) ==
  LET Q2 == DoubleJac(Q)
      T[i \in 1..(IF w > 2 THEN 2^(w - 2) ELSE 1)] ==
        IF i = 1 THEN Q ELSE AddJac(T[i - 1], Q2)
  IN  T

OddMultiplesAff(Q, w) ==
  LET T == OddMultiples(Q, w) IN [i \in DOMAIN T |-> AffFromJac(T[i])]

\* -(2^w - 1)*Q, ..., (2^w - 1)*Q.
SignedOddMultiplesAff(Q, w) ==
  LET T == OddMultiplesAff(Q, w + 1)
  IN  [i \in 1..Len(T) |-> NegateAff(Reverse(T)[i])] \o T

RECURSIVE FixedBaseTables(_, _, _)
FixedBaseTables(K, w, count) ==
  IF count = 0 THEN <<>>
  ELSE <<SignedOddMultiplesAff(K, w)>> \o FixedBaseTables(Doubled(K, w), w, count - 1)
CachedFixedBaseMultiples(Q, w) == FixedBaseTables(Q, w, CeilDiv(ScalarLen, w))

\* The entry of a signed odd table a digit names.
Named(T, digit, w) == T[(digit + 2^w - 1) \div 2 + 1]

----------------------------------------------------------------------------
(* One scalar *)

RECURSIVE MultRecursiveAff(_, _)
MultRecursiveAff(m, Q) ==
  IF m = 0 THEN INF
  ELSE IF Odd(m) THEN AddAff(Q, MultRecursiveAff(m - 1, Q))
  ELSE MultRecursiveAff(m \div 2, DoubleAff(Q))

RECURSIVE MultRecursiveJac(_, _)
MultRecursiveJac(m, Q) ==
  IF m = 0 THEN INFJ
  ELSE IF Odd(m) THEN AddJac(Q, MultRecursiveJac(m - 1, Q))
  ELSE MultRecursiveJac(m \div 2, DoubleJac(Q))

\* Right to left, R the answer so far and Q doubled once a bit.
RECURSIVE RightToLeftAff(_, _, _)
RightToLeftAff(m, R, Q) ==
  IF m = 0 THEN R
  ELSE LET Q2 == DoubleAff(Q)
       IN  RightToLeftAff(m \div 2, IF Odd(m) THEN AddAff(R, Q2) ELSE R, Q2)
MultAff(m, Q) == RightToLeftAff(m \div 2, IF Odd(m) THEN Q ELSE INF, Q)

RECURSIVE RightToLeftJac(_, _, _)
RightToLeftJac(m, R, Q) ==
  IF m = 0 THEN R
  ELSE LET Q2 == DoubleJac(Q)
       IN  RightToLeftJac(m \div 2, IF Odd(m) THEN AddJac(R, Q2) ELSE R, Q2)
MultJac(m, Q) == RightToLeftJac(m \div 2, IF Odd(m) THEN Q ELSE INFJ, Q)

\* One addition and one doubling a bit, the bit choosing where each goes.
LadderStepSlip(R, i) == IF i = 0 THEN <<DoubleJac(R[1]), AddJac(R[1], R[2])>>
                        ELSE <<DoubleJac(R[1]), AddJac(R[1], R[2])>>
LadderStep(R, i) == IF i = 0 THEN <<DoubleJac(R[1]), AddJac(R[1], R[2])>>
                    ELSE <<AddJac(R[2], R[1]), DoubleJac(R[2])>>
MultMontLadder(m, Q) ==
  FoldLeft(LadderStep, <<INFJ, Q>>, ConvertNumberToBase(m, 2))[1]

MultBase3(m, Q) ==
  LET T == <<INFJ, Q, DoubleJac(Q)>>
      digits == ConvertNumberToBase(m, 3)
      step(R, d) == AddJac(AddJac(DoubleJac(R), R), T[d + 1])
  IN  FoldLeft(step, T[digits[1] + 1], Tail(digits))

MultFixedWindow(m, Q, w, cached) ==
  LET T == IF cached THEN CachedMultiples(Q) ELSE Multiples(Q, 2^w)
      digits == ConvertNumberToBase(m, 2^w)
      step(R, d) == AddJac(Doubled(R, w), T[d])
  IN  FoldLeft(step, T[digits[1]], Tail(digits))

\* The first digit is the last position's, and nothing is doubled.
MultFixedWindowCached(m, Q, w) ==
  LET T == CachedMultiplesFixwind(Q, w)
      digits == ConvertNumberToBase(m, 2^w)
      size == Len(digits)
      sum[i \in 1..size] ==
        LET entry == T[size + 1 - i][digits[i]]
        IN  IF i = 1 THEN entry ELSE AddJac(sum[i - 1], entry)
  IN  sum[size]

\* What an even scalar owes the odd one multiplied in its place; paid by an
\* addition whichever it is.
Undo(m, Q) == IF Odd(m) THEN INFJ ELSE NegateJac(Q)

MultFixedBase(m, Q, w) ==
  LET T == CachedFixedBaseMultiples(Q, w)
      digits == SignedOddDigits(OddOf(m), w, Len(T))
      sum[i \in 1..Len(T)] ==   \* from position i up
        IF i = Len(T) THEN BlindedJac(JacFromAff(Named(T[i], digits[i], w)))
        ELSE AddJacAff(sum[i + 1], Named(T[i], digits[i], w))
  IN  AddJac(sum[1], Undo(m, Q))

\* As many digits as the group's scalars have, or as a longer m needs.
RegularSizeOwn(m, w) == CeilDiv(Larger(1, BitLength(m)), w)
RegularSize(m, w) == CeilDiv(Larger(ScalarLen, BitLength(m)), w)
MultRegularWindow(m, Q, w) ==
  LET digits == Reverse(SignedOddDigits(OddOf(m), w, RegularSize(m, w)))
      T == SignedOddMultiplesAff(Q, w)
      step(R, d) == AddJacAff(Doubled(R, w), Named(T, d, w))
  IN  AddJac(FoldLeft(step, JacFromAff(Named(T, digits[1], w)), Tail(digits)), Undo(m, Q))

\* 2^(w - 1)*Q, ..., (2^w - 1)*Q: a window is opened on a nonzero digit.
SlidingWindowTable(Q, w) ==
  LET T[i \in 1..(2^(w - 1))] == IF i = 1 THEN Doubled(Q, w - 1) ELSE AddJac(T[i - 1], Q)
  IN  T

DoubleAndAdd(R, Q, digits) ==
  LET step(S, d) == IF d = 1 THEN AddJac(DoubleJac(S), Q) ELSE DoubleJac(S)
  IN  FoldLeft(step, R, digits)

\* The digits from i on; the last ones, short of a window, go one by one.
RECURSIVE Slide(_, _, _, _, _)
Slide(R, Q, T, digits, w) ==
  IF digits = <<>> THEN R
  ELSE IF digits[1] = 0 THEN Slide(DoubleJac(R), Q, T, Tail(digits), w)
  ELSE IF Len(digits) < w THEN DoubleAndAdd(R, Q, digits)
  ELSE LET t == FoldLeft(LAMBDA x, d : 2 * x + d, 0, SubSeq(digits, 1, w))
       IN  Slide(AddJac(Doubled(R, w), T[t - 2^(w - 1) + 1]), Q, T,
                 SubSeq(digits, w + 1, Len(digits)), w)
MultSlidingWindow(m, Q, w) ==
  Slide(INFJ, Q, SlidingWindowTable(Q, w), ConvertNumberToBase(m, 2), w)

\* Odd multiples and then their opposites; a width of one has one of each.
WNafTable(Q, w) ==
  LET Q2 == DoubleJac(Q)
      T[i \in 1..Larger(1, 2^w \div 4)] == IF i = 1 THEN Q ELSE AddJac(T[i - 1], Q2)
  IN  T \o [i \in DOMAIN T |-> NegateJac(T[i])]
MultWNaf(m, Q, w) ==
  LET T == WNafTable(Q, w)
      entry(d) == IF d > 0 THEN T[(d - 1) \div 2 + 1]
                  ELSE IF w = 1 THEN T[2]
                  ELSE T[2^w \div 4 - ((d + 1) \div 2) + 1]
      step(R, d) == IF d = 0 THEN DoubleJac(R) ELSE AddJac(DoubleJac(R), entry(d))
  IN  FoldLeft(step, INFJ, Reverse(WNafOf(m, w)))

----------------------------------------------------------------------------
(* Several scalars *)

\* A digit for every bit of the longer one: which of H, Q and H + Q it adds.
DoubleMult(u, H, v, Q) ==
  LET T == <<INFJ, H, Q, AddJac(H, Q)>>
      us == ConvertNumberToBase(u, 2)
      vs == ConvertNumberToBase(v, 2)
      size == Larger(Len(us), Len(vs))
      zfill(ds, i) == IF i <= size - Len(ds) THEN 0 ELSE ds[i - (size - Len(ds))]
      digits == [i \in 1..size |-> zfill(us, i) + 2 * zfill(vs, i)]
      step(R, d) == AddJac(DoubleJac(R), T[d + 1])
  IN  FoldLeft(step, T[digits[1] + 1], Tail(digits))

\* The pairs whose scalar is not zero; fewer than two of any kind are refused.
IsMultiMult(scalars, points) ==
  /\ Len(scalars) = Len(points)
  /\ Len(scalars) >= 2
  /\ \A i \in DOMAIN scalars : scalars[i] >= 0
MultiMultPairs(scalars, points) ==
  SelectSeq([i \in DOMAIN scalars |-> <<scalars[i], points[i]>>], LAMBDA x : x[1] # 0)

\* What each bit position adds, in the order of the scalars.
AdditionsByPosition(nafs, tables) ==
  LET size == FoldLeft(LAMBDA x, naf : Larger(x, Len(naf)), 0, nafs)
      digit(i, j) == IF j <= Len(nafs[i]) THEN nafs[i][j] ELSE 0
      entry(i, d) == IF d > 0 THEN tables[i][(d - 1) \div 2 + 1]
                     ELSE NegateAff(tables[i][(-d - 1) \div 2 + 1])
      adding(j) == SelectSeq([i \in DOMAIN nafs |-> i], LAMBDA i : digit(i, j) # 0)
  IN  [j \in 1..size |->
        [k \in 1..Len(adding(j)) |-> entry(adding(j)[k], digit(adding(j)[k], j))]]

\* Interleaved wNAFs; a fixed point's table is memoized, and wider.
MultiMultWNaf(scalars, points, w, fixed) ==
  LET pairs == MultiMultPairs(scalars, points)
      width(i) == IF pairs[i][2] \notin fixed THEN w
                  ELSE IF FixedPointW < ScalarLen THEN FixedPointW ELSE ScalarLen
      nafs == [i \in DOMAIN pairs |-> WNafOf(pairs[i][1], width(i))]
      tables == [i \in DOMAIN pairs |-> OddMultiplesAff(pairs[i][2], width(i))]
      step(R, additions) == FoldLeft(AddJacAff, DoubleJac(R), additions)
  IN  IF pairs = <<>> THEN INFJ
      ELSE FoldLeft(step, INFJ, Reverse(AdditionsByPosition(nafs, tables)))

DoubleMultWNaf(u, H, v, Q, w, fixed) == MultiMultWNaf(<<u, v>>, <<H, Q>>, w, fixed)

PairSizeOwn(u, v, w, scalarLen) == CeilDiv(Larger(1, Larger(BitLength(u), BitLength(v))), w)
PairSize(u, v, w, scalarLen) ==
  CeilDiv(Larger(scalarLen, Larger(BitLength(u), BitLength(v))), w)
DoubleMultRegularWindow(u, H, v, Q, w, scalarLen) ==
  LET size == PairSize(u, v, w, scalarLen)
      us == SignedOddDigits(OddOf(u), w, size)
      vs == SignedOddDigits(OddOf(v), w, size)
      TH == SignedOddMultiplesAff(H, w)
      TQ == SignedOddMultiplesAff(Q, w)
      sum[i \in 1..size] ==   \* from position i up
        LET R == IF i = size THEN JacFromAff(Named(TH, us[i], w))
                 ELSE AddJacAff(Doubled(sum[i + 1], w), Named(TH, us[i], w))
        IN  AddJacAff(R, Named(TQ, vs[i], w))
  IN  AddJac(AddJac(sum[1], Undo(u, H)), Undo(v, Q))

----------------------------------------------------------------------------
(* What all of them are to answer: the sum of m copies of the point *)

RECURSIVE Times(_, _)
Times(m, Q) ==
  IF m = 0 THEN INFJ ELSE IF m = 1 THEN Q
  ELSE AddJac(Times(m \div 2, Q), Times(m - m \div 2, Q))
=============================================================================
