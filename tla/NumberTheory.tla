---------------------------- MODULE NumberTheory ----------------------------
(***************************************************************************)
(* number_theory.py: inverses one at a time and in batches, with and       *)
(* without blinding; the Legendre symbol; square roots, by exponentiation  *)
(* and by Tonelli-Shanks; the primality test of curves.                    *)
(*                                                                         *)
(* A behaviour is one call.  What has no loop of interest is answered in   *)
(* one step, the drawn blinding factors being its only choice; the search  *)
(* for a non-residue and the descent of Tonelli-Shanks go a pass at a      *)
(* time, since whether they end is the question.                           *)
(*                                                                         *)
(* An answer is a set of one element; the empty one is BTClibEccValueError.*)
(***************************************************************************)
EXTENDS Integers, Sequences

CONSTANT Calls    \* the calls made: [op, a, m], a a sequence for a batch

Refusal == {}
Answer(x) == {x}

-----------------------------------------------------------------------------
(* Python's pow                                                            *)

RECURSIVE Pow(_, _, _)
Pow(x, e, m) ==
  IF e = 0 THEN 1 % m
  ELSE LET half == Pow(x, e \div 2, m)
           square == (half * half) % m
       IN  IF e % 2 = 0 THEN square ELSE (square * x) % m

\* pow(a, -1, m), which raises where there is no inverse.
PowInverse(a, m) == {i \in 0..(m - 1) : (a * i) % m = 1 % m}

\* The factors of two in k > 0, and k without them.
RECURSIVE Twos(_)
Twos(k) == IF k % 2 = 1 THEN 0 ELSE 1 + Twos(k \div 2)
Odd(k) == k \div (2 ^ Twos(k))

-----------------------------------------------------------------------------
(* Greatest common divisors and inverses                                   *)

\* xgcd_var: its loop, from the cofactors it starts with.
RECURSIVE XgcdLoop(_, _, _, _, _, _)
XgcdLoop(a, b, x0, x1, y0, y1) ==
  IF a = 0 THEN <<b, x0, y0>>
  ELSE LET q == b \div a
       IN  XgcdLoop(b % a, a, x1, x0 - q * x1, y1, y0 - q * y1)

\* Slip: the cofactors are swapped.
XgcdSwapped(a, b) == LET t == XgcdLoop(a, b, 0, 1, 1, 0) IN <<t[1], t[3], t[2]>>
Xgcd(a, b) == XgcdLoop(a, b, 0, 1, 1, 0)

ModInvVar(a, m) == PowInverse(a % m, m)

Factors(m) == IF m > 1 THEN 1..(m - 1) ELSE {1}

Times(answer, b, m) == {(i * b) % m : i \in answer}

\* mod_inv: the inverse of a blinded a; a factor that is no unit falls back.
ModInv(a, m, b) ==
  LET blinded == ModInvVar((a * b) % m, m)
  IN  IF blinded # Refusal THEN Times(blinded, b, m) ELSE ModInvVar(a, m)

\* A sequence of answers, as the answer of a list comprehension.
AllOf(answers) ==
  IF \E i \in DOMAIN answers : answers[i] = Refusal THEN Refusal
  ELSE Answer([i \in DOMAIN answers |-> CHOOSE x \in answers[i] : TRUE])

\* The running products of mod_inv_batch_var.
Acc(a, m) ==
  LET acc[i \in 0..Len(a)] == IF i = 0 THEN 1 ELSE (acc[i - 1] * a[i]) % m
  IN  acc

\* The inverses peeled off the inverse of the whole product, last to first.
Peel(a, m, inv) ==
  LET left[i \in 1..Len(a)] == IF i = Len(a) THEN inv ELSE (left[i + 1] * a[i + 1]) % m
  IN  [i \in 1..Len(a) |-> IF i = 1 THEN left[1] ELSE (left[i] * Acc(a, m)[i - 1]) % m]

\* mod_inv_batch_var: where the product has no inverse, the elements are
\* inverted one at a time, to name the one that has none.
ModInvBatchVar(a, m) ==
  IF a = << >> THEN Answer(<< >>)
  ELSE LET inv == PowInverse(Acc(a, m)[Len(a)], m)
       IN  IF inv = Refusal THEN AllOf([i \in DOMAIN a |-> ModInvVar(a[i], m)])
           ELSE Answer(Peel(a, m, CHOOSE x \in inv : TRUE))

\* Slip: the blinding of each is taken off with the first factor.
ModInvBatchOneFactor(a, m, bs) ==
  LET inverses == ModInvBatchVar([i \in DOMAIN a |-> (a[i] * bs[i]) % m], m)
  IN  {[i \in DOMAIN a |-> (inv[i] * bs[1]) % m] : inv \in inverses}

\* mod_inv_batch: every element blinded with a factor of its own; where a
\* blinded product has no inverse, mod_inv one at a time.
ModInvBatch(a, m, bs) ==
  LET inverses == ModInvBatchVar([i \in DOMAIN a |-> (a[i] * bs[i]) % m], m)
  IN  IF inverses = Refusal THEN AllOf([i \in DOMAIN a |-> ModInv(a[i], m, bs[i])])
      ELSE {[i \in DOMAIN a |-> (inv[i] * bs[i]) % m] : inv \in inverses}

-----------------------------------------------------------------------------
(* Symbols                                                                 *)

\* legendre_symbol_var: factors of two at once, then reciprocity.
RECURSIVE LegendreLoop(_, _, _)
LegendreLoop(a, p, result) ==
  IF a = 0 THEN (IF p = 1 THEN result ELSE 0)
  ELSE LET odd == Odd(a)
           byTwos == IF Twos(a) % 2 = 1 /\ p % 8 \in {3, 5} THEN -1 ELSE 1
           bySwap == IF odd % 4 = 3 /\ p % 4 = 3 THEN -1 ELSE 1
       IN  LegendreLoop(p % odd, odd, result * byTwos * bySwap)

\* Slip: the factors of two turn the sign whatever their count.
RECURSIVE LegendreLoopTwos(_, _, _)
LegendreLoopTwos(a, p, result) ==
  IF a = 0 THEN (IF p = 1 THEN result ELSE 0)
  ELSE LET odd == Odd(a)
           byTwos == IF odd # a /\ p % 8 \in {3, 5} THEN -1 ELSE 1
           bySwap == IF odd % 4 = 3 /\ p % 4 = 3 THEN -1 ELSE 1
       IN  LegendreLoopTwos(p % odd, odd, result * byTwos * bySwap)
LegendreTwos(a, p) == LegendreLoopTwos(a % p, p, 1)

Legendre(a, p) == LegendreLoop(a % p, p, 1)

\* _jacobi: a two at a time, and the swap before it is asked about.
RECURSIVE JacobiLoop(_, _, _)
JacobiLoop(a, k, result) ==
  IF a = 0 THEN (IF k = 1 THEN result ELSE 0)
  ELSE IF a % 2 = 0
  THEN JacobiLoop(a \div 2, k, IF k % 8 \in {3, 5} THEN -result ELSE result)
  ELSE JacobiLoop(k % a, a, IF k % 4 = 3 /\ a % 4 = 3 THEN -result ELSE result)
Jacobi(a, k) == JacobiLoop(a % k, k, 1)

-----------------------------------------------------------------------------
(* The primality test                                                      *)

\* x squared up to `times` times, among which m - 1 is looked for.
RECURSIVE SquaresReach(_, _, _, _)
SquaresReach(x, m, target, times) ==
  times > 0 /\ LET square == (x * x) % m
               IN  square = target \/ SquaresReach(square, m, target, times - 1)

IsStrongProbablePrimeBase2(m) ==
  LET x == Pow(2, Odd(m - 1), m)
  IN  x \in {1, m - 1} \/ SquaresReach(x, m, m - 1, Twos(m - 1) - 1)

\* Selfridge's parameter: the first of 5, -7, 9, ... whose symbol is not 1.
RECURSIVE SelfridgeD(_, _)
SelfridgeD(d, m) ==
  IF Jacobi(d, m) = 1 THEN SelfridgeD(IF d > 0 THEN -d - 2 ELSE -d + 2, m) ELSE d

Halve(x, m) == ((IF x % 2 = 1 THEN x + m ELSE x) \div 2) % m

\* U_k, V_k and Q^k, by the binary digits of k.
RECURSIVE LucasAt(_, _, _)
LucasAt(k, d, m) ==
  LET q == (1 - d) \div 4
  IN  IF k = 1 THEN [U |-> 1, V |-> 1, Qk |-> q % m]
      ELSE LET half == LucasAt(k \div 2, d, m)
               U == (half.U * half.V) % m
               V == (half.V * half.V - 2 * half.Qk) % m
               Qk == (half.Qk * half.Qk) % m
           IN  IF k % 2 = 0 THEN [U |-> U, V |-> V, Qk |-> Qk]
               ELSE [U |-> Halve(U + V, m), V |-> Halve(d * U + V, m),
                     Qk |-> (Qk * q) % m]

\* V doubled up to `times` times, looked through for a zero.
RECURSIVE DoublingsVanish(_, _, _, _)
DoublingsVanish(V, Qk, m, times) ==
  times > 0 /\ LET twice == (V * V - 2 * Qk) % m
               IN  twice = 0 \/ DoublingsVanish(twice, (Qk * Qk) % m, m, times - 1)

IsStrongLucasProbablePrime(m) ==
  /\ \A k \in 1..m : k * k # m
  /\ LET d == SelfridgeD(5, m)
         at == LucasAt(Odd(m + 1), d, m)
     IN  /\ Jacobi(d, m) # 0
         /\ \/ at.U = 0 \/ at.V = 0
            \/ DoublingsVanish(at.V, at.Qk, m, Twos(m + 1) - 1)

TrialPrimes == <<3, 5, 7, 11, 13, 17, 19, 23, 29, 31, 37>>

\* Slip: without the Lucas test.
IsPrimeBase2(x) ==
  /\ x >= 3 /\ x % 2 = 1
  /\ LET dividing == {q \in {TrialPrimes[i] : i \in DOMAIN TrialPrimes} : x % q = 0}
     IN  IF dividing # {} THEN dividing = {x} ELSE IsStrongProbablePrimeBase2(x)

\* _is_prime: the first small prime that divides decides.
IsPrime(x) ==
  /\ x >= 3 /\ x % 2 = 1
  /\ LET dividing == {i \in DOMAIN TrialPrimes : x % TrialPrimes[i] = 0}
     IN  IF dividing # {}
         THEN x = TrialPrimes[CHOOSE i \in dividing : \A j \in dividing : i <= j]
         ELSE IsStrongProbablePrimeBase2(x) /\ IsStrongLucasProbablePrime(x)

-----------------------------------------------------------------------------
(* A call                                                                  *)

VARIABLES
  pc,     \* called, searching (for z), descending, returned
  call,   \* its arguments
  reg,    \* q, s, z, c, r, t of tonelli_var
  out     \* its answer
vars == <<pc, call, reg, out>>

NoReg == [q |-> 0, s |-> 0, z |-> 0, c |-> 0, r |-> 0, t |-> 0]

Init ==
  /\ pc = "called"
  /\ call \in Calls
  /\ reg = NoReg
  /\ out = Refusal

Return(answer) == pc' = "returned" /\ out' = answer /\ UNCHANGED <<call, reg>>

Straight(op, answer) == pc = "called" /\ call.op = op /\ Return(answer)

GreatestCommonDivisor == Straight("xgcd", Answer(Xgcd(call.a, call.m)))
Symbol == Straight("legendre", Answer(<<Legendre(call.a, call.m), Jacobi(call.a, call.m)>>))
Prime == Straight("prime", Answer(IsPrime(call.m)))
Inverse == \E b \in Factors(call.m) : Straight("inv", ModInv(call.a, call.m, b))
Batch ==
  /\ pc = "called" /\ call.op = "batch"
  /\ \E bs \in [DOMAIN call.a -> Factors(call.m)] : Return(ModInvBatch(call.a, call.m, bs))

\* The closed forms of mod_sqrt_var, checked before they are answered with.
IfRoot(r, a, m) == IF (r * r) % m = a THEN Answer(r) ELSE Refusal

\* Slip: the second candidate is never tried.
ClosedRootOneCandidate(a, m) ==
  IF m % 4 = 3 THEN IfRoot(Pow(a, m \div 4 + 1, m), a, m)
  ELSE IfRoot(Pow(a, m \div 8 + 1, m), a, m)

ClosedRoot(a, m) ==
  IF m % 4 = 3 THEN IfRoot(Pow(a, m \div 4 + 1, m), a, m)
  ELSE LET r == Pow(a, m \div 8 + 1, m)
       IN  IF (r * r) % m = a THEN Answer(r)
           ELSE IfRoot((r * Pow(2, m \div 4, m)) % m, a, m)

HasClosedRoot(m) == m % 4 = 3 \/ m % 8 = 5
Sqrt == HasClosedRoot(call.m) /\ Straight("sqrt", ClosedRoot(call.a % call.m, call.m))

\* Whether the call is in tonelli_var, its own or mod_sqrt_var's.
Tonelli == call.op = "tonelli" \/ (call.op = "sqrt" /\ ~HasClosedRoot(call.m))

\* tonelli_var up to the search for z.
Begin ==
  /\ pc = "called" /\ Tonelli
  /\ LET a == call.a % call.m
         m == call.m
     IN  IF a = 0 \/ m = 2 THEN Return(Answer(a))
         ELSE IF Legendre(a, m) # 1 THEN Return(Refusal)
         ELSE IF Twos(m - 1) = 1 THEN Return(Answer(Pow(a, (m + 1) \div 4, m)))
         ELSE /\ pc' = "searching"
              /\ reg' = [NoReg EXCEPT !.q = Odd(m - 1), !.s = Twos(m - 1), !.z = 2]
              /\ UNCHANGED <<call, out>>

\* z is not a non-residue: the next one, unless that is p itself.
NextZ ==
  /\ pc = "searching" /\ Legendre(reg.z, call.m) # -1
  /\ IF reg.z + 1 = call.m THEN Return(Refusal)
     ELSE reg' = [reg EXCEPT !.z = @ + 1] /\ UNCHANGED <<pc, call, out>>

FoundZ ==
  LET a == call.a % call.m
  IN  /\ pc = "searching" /\ Legendre(reg.z, call.m) = -1
      /\ pc' = "descending"
      /\ reg' = [reg EXCEPT !.c = Pow(reg.z, reg.q, call.m),
                            !.r = Pow(a, (reg.q + 1) \div 2, call.m),
                            !.t = Pow(a, reg.q, call.m)]
      /\ UNCHANGED <<call, out>>

\* The i of a pass: the least below s with t^(2^i) = 1.
Orders(t, s, m) == {i \in 1..(s - 1) : Pow(t, 2 ^ i, m) = 1}

\* Slips: the pass leaves s as it was; c is not squared.
LoweredSKept(g, i, b, m) ==
  [g EXCEPT !.r = (g.r * b) % m, !.c = (b * b) % m, !.t = (g.t * b * b) % m]
LoweredUnsquared(g, i, b, m) ==
  [g EXCEPT !.r = (g.r * b) % m, !.c = b, !.t = (g.t * b) % m, !.s = i]

\* What a pass makes of the registers.
Lowered(g, i, b, m) ==
  [g EXCEPT !.r = (g.r * b) % m, !.c = (b * b) % m, !.t = (g.t * b * b) % m, !.s = i]

Descend ==
  /\ pc = "descending" /\ reg.t # 1
  /\ LET m == call.m
         is == Orders(reg.t, reg.s, m)
     IN  IF is = {} THEN Return(Refusal)
         ELSE LET i == CHOOSE x \in is : \A y \in is : x <= y
                  b == Pow(reg.c, 2 ^ (reg.s - i - 1), m)
              IN  reg' = Lowered(reg, i, b, m) /\ UNCHANGED <<pc, call, out>>

Finish == pc = "descending" /\ reg.t = 1 /\ Return(Answer(reg.r))

Next ==
  \/ GreatestCommonDivisor \/ Symbol \/ Prime \/ Inverse \/ Batch \/ Sqrt
  \/ Begin \/ NextZ \/ FoundZ \/ Descend \/ Finish

\* A call runs on: nothing in it waits.
Spec == Init /\ [][Next]_vars /\ WF_vars(Next)

-----------------------------------------------------------------------------
(* Properties                                                              *)

Returned(op) == pc = "returned" /\ call.op = op
TrulyPrime(m) == m > 1 /\ \A d \in 2..(m - 1) : m % d # 0
Roots(a, m) == {x \in 0..(m - 1) : (x * x) % m = a % m}

\* The registers are residues, and once c is there r^2 = a*t: the invariant of
\* Tonelli-Shanks, for every modulus.
DescentInvariant ==
  pc = "descending" =>
    /\ {reg.c, reg.r, reg.t} \subseteq 0..(call.m - 1)
    /\ reg.s >= 0 /\ reg.q % 2 = 1
    /\ (reg.r * reg.r) % call.m = (call.a * reg.t) % call.m

\* mod_sqrt_var answers with a root or not at all, whatever the modulus, and
\* for a prime refuses only what has none; tonelli_var is held to primes.
RootsAreRoots ==
  /\ Returned("sqrt") => out \subseteq Roots(call.a, call.m)
  /\ (Returned("sqrt") \/ Returned("tonelli")) /\ TrulyPrime(call.m) =>
       IF Roots(call.a, call.m) = {} THEN out = Refusal
       ELSE out # Refusal /\ out \subseteq Roots(call.a, call.m)

\* mod_inv and mod_inv_batch answer with the inverses, whichever blinding was
\* drawn, units or not; and refuse exactly where an element has none.
InversesInvert ==
  /\ Returned("inv") => out = ModInvVar(call.a, call.m)
  /\ Returned("batch") =>
       IF \E i \in DOMAIN call.a : ModInvVar(call.a[i], call.m) = Refusal
       THEN out = Refusal
       ELSE /\ out # Refusal
            /\ \A inv \in out : \A i \in DOMAIN call.a :
                 inv[i] \in 0..(call.m - 1) /\ (inv[i] * call.a[i]) % call.m = 1 % call.m

\* The two symbols agree for every odd modulus, and for a prime they are
\* Euler's: whether a has a root.
SymbolsAgree ==
  Returned("legendre") => \A pair \in out :
    /\ pair[1] = pair[2]
    /\ TrulyPrime(call.m) =>
         pair[1] = IF call.a % call.m = 0 THEN 0
                   ELSE IF Roots(call.a, call.m) # {} THEN 1 ELSE -1

\* _is_prime is right about every number it is asked, the pseudoprimes of
\* either of its tests included.
PrimesArePrime ==
  Returned("prime") => out = Answer(call.m # 2 /\ TrulyPrime(call.m))

\* xgcd_var's cofactors are Bezout's, of a divisor of both.
BezoutHolds ==
  Returned("xgcd") => \A t \in out :
    /\ call.a * t[2] + call.m * t[3] = t[1]
    /\ call.a % t[1] = 0 /\ call.m % t[1] = 0

\* Every call returns: for a composite modulus too the search for z and the
\* descent end.
CallsReturn == <>(pc = "returned")
=============================================================================
