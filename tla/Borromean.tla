----------------------------- MODULE Borromean -----------------------------
(***************************************************************************)
(* Borromean ring signatures (ecc/borromean.py): one signature that shows  *)
(* the knowledge of one key in each of several rings, and not which.  A    *)
(* call of sign_ is a walk with one step per ring position, because that   *)
(* is where it can fail, draw a scalar and read a challenge written two    *)
(* loops before.                                                           *)
(*                                                                         *)
(* Positions count from 1.  A hash of octets is the tuple of what they     *)
(* hold: e0 is the ring points it is made over, then the message.          *)
(***************************************************************************)
EXTENDS PrimeGroup, SequencesExt

CONSTANTS
  Bad,             \* a ring key that is no point of the curve
  Msg,             \* the message hashes
  RingLists,       \* the lists of public rings signed over
  MaxIndex,        \* a bound on the signing indexes a caller gives
  Hash(_, _, _, _) \* Hash(m, R, i, j): the challenge at position j of ring i

BorromeanAssumption ==
  /\ Bad \notin Int
  /\ RingLists \subseteq Seq(Seq(Finite \cup {Bad}))

\* s*G - e*Q, by double_mult_var.
RingPoint(e, Q, s) == Add(Mult(n - e, Q), Mult(s, G))

\* The octets of a signature: e0, then every s ring by ring, without framing.
Serialize(sig) == <<sig.e0>> \o FlattenSeq(sig.s)

\* Where each ring starts among the s values, and where the last one ends.
Starts(rsizes) ==
  LET start[i \in 1..(Len(rsizes) + 1)] ==
        IF i = 1 THEN 1 ELSE start[i - 1] + rsizes[i - 1]
  IN  start

\* BorromeanSig.parse: the sizes of the rings are the caller's.
Parse(octets, rsizes) ==
  LET start == Starts(rsizes)
  IN  IF Len(octets) # start[Len(rsizes) + 1]
      THEN [err |-> "length", e0 |-> << >>, s |-> << >>]
      ELSE [err |-> "ok", e0 |-> Head(octets),
            s |-> [i \in DOMAIN rsizes |->
                     SubSeq(octets, start[i] + 1, start[i] + rsizes[i])]]

-----------------------------------------------------------------------------
(***************************************************************************)
(* Verification.                                                           *)
(***************************************************************************)

\* The challenges of a ring walked from e0.
Challenges(m, ring, s_, e0_, i) ==
  LET c[j \in DOMAIN ring] ==
        IF j = 1 THEN Hash(m, e0_, i, 1)
        ELSE Hash(m, RingPoint(c[j - 1], ring[j - 1], s_[j - 1]), i, j)
  IN  c

\* BorromeanSig.assert_valid.
AssertValid(s_) ==
  IF s_ = << >> \/ << >> \in ToSet(s_) THEN "empty"
  ELSE IF \E i \in DOMAIN s_ : \E j \in DOMAIN s_[i] : s_[i][j] \notin Scalar THEN "s range"
  ELSE "ok"

\* One s per key: _assert_matches_pubk_rings.
MatchesPubkRings(pubk_rings, s_) ==
  [i \in DOMAIN s_ |-> Len(s_[i])] = [i \in DOMAIN pubk_rings |-> Len(pubk_rings[i])]
AnyBadKey(pubk_rings) == \E i \in DOMAIN pubk_rings : Bad \in ToSet(pubk_rings[i])

\* assert_as_valid: the rings are walked in order; the first challenge that is
\* zero, or point that is infinite, is the position the error names.
AssertAsValid(m, sig, pubk_rings) ==
  LET c == [i \in DOMAIN pubk_rings |-> Challenges(m, pubk_rings[i], sig.s[i], sig.e0, i)]
      R(i, j) == RingPoint(c[i][j], pubk_rings[i][j], sig.s[i][j])
      positions == UNION {{i} \X DOMAIN pubk_rings[i] : i \in DOMAIN pubk_rings}
      stops == {p \in positions : c[p[1]][p[2]] = 0 \/ R(p[1], p[2]) = INF}
      first == CHOOSE p \in stops :
                 \A q \in stops : p[1] < q[1] \/ (p[1] = q[1] /\ p[2] <= q[2])
      last == [i \in DOMAIN pubk_rings |-> R(i, Len(pubk_rings[i]))]
  IN  IF AssertValid(sig.s) # "ok" THEN [err |-> AssertValid(sig.s), at |-> <<0, 0>>]
      ELSE IF ~MatchesPubkRings(pubk_rings, sig.s) THEN [err |-> "shape", at |-> <<0, 0>>]
      ELSE IF AnyBadKey(pubk_rings) THEN [err |-> "ring key", at |-> <<0, 0>>]
      ELSE IF stops # {}
           THEN [err |-> IF c[first[1]][first[2]] = 0 THEN "zero challenge" ELSE "infinity",
                 at |-> first]
      ELSE IF <<last, m>> # sig.e0 THEN [err |-> "open", at |-> <<0, 0>>]
      ELSE [err |-> "ok", at |-> <<0, 0>>]

\* verify, of a signature given as octets.
Verify(m, octets, pubk_rings) ==
  LET sig == Parse(octets, [i \in DOMAIN pubk_rings |-> Len(pubk_rings[i])])
  IN  IF sig.err # "ok" THEN "raises"
      ELSE IF AssertAsValid(m, sig, pubk_rings).err = "ok" THEN "true" ELSE "false"

-----------------------------------------------------------------------------
(***************************************************************************)
(* One call of sign_.                                                      *)
(***************************************************************************)
VARIABLES
  call,   \* the arguments: message hash, rings, and per ring k, q and index
  e, s,   \* the challenges, zero until written, and the s values
  r,      \* the last point computed
  lasts,  \* the last points of the rings closed in step 1
  e0,     \* their hash
  pc,     \* the step, and the ring and position it is at
  result  \* how the call ended

vars == <<call, e, s, r, lasts, e0, pc, result>>

At(step, i, j) == [step |-> step, i |-> i, j |-> j]
Outcome(err, i, j) == [err |-> err, at |-> <<i, j>>]
rings == call.rings
Filled(v) == [i \in DOMAIN rings |-> [j \in DOMAIN rings[i] |-> v]]

\* What sign_ refuses before it multiplies anything, or, of no ring at all,
\* without multiplying anything.
IndexInRange(c) == \A i \in DOMAIN c.rings : c.idx[i] \in DOMAIN c.rings[i]
Refused(c) ==
  IF AnyBadKey(c.rings) THEN "ring key"
  ELSE IF {Len(c.ks), Len(c.qs), Len(c.idx)} # {Len(c.rings)} THEN "lengths"
  ELSE IF ~IndexInRange(c) THEN "index"
  ELSE IF \E i \in DOMAIN c.rings : {c.ks[i], c.qs[i]} \cap {0, n} # {} THEN "scalar"
  ELSE IF c.rings = << >> THEN "empty"
  ELSE "ok"

\* The nonces are the caller's, one per ring: here k, k + 1, ..., zero included.
Nonces(rs, k) == [i \in DOMAIN rs |-> (k + i - 1) % n]

\* The keys are those of the positions signed for; a point is named by its
\* discrete logarithm, so by its private key.
\*
\* The call draws every s at once; step 1 uses those past the signing indexes.
Init ==
  /\ \E m \in Msg, rs \in RingLists, k \in 1..(n - 1), short \in BOOLEAN :
       \E idx \in [DOMAIN rs -> 0..MaxIndex] :
         call = [m |-> m, rings |-> rs, idx |-> idx,
                 ks |-> SubSeq(Nonces(rs, k), IF short THEN 2 ELSE 1, Len(rs)),
                 qs |-> [i \in DOMAIN rs |->
                           IF idx[i] \in DOMAIN rs[i] /\ rs[i][idx[i]] # Bad
                           THEN rs[i][idx[i]] ELSE 1]]
  /\ e = Filled(0)
  /\ s \in {f \in [DOMAIN rings -> UNION {[DOMAIN ring -> Scalar] : ring \in ToSet(rings)}] :
              \A i \in DOMAIN rings : DOMAIN f[i] = DOMAIN rings[i]}
  /\ r = INF
  /\ lasts = << >>
  /\ e0 = << >>
  /\ result = Outcome("none", 0, 0)
  /\ pc = At("start", 1, 1)

Fail(err, i, j) ==
  /\ result' = Outcome(err, i, j)
  /\ pc' = At("done", i, j)
  /\ UNCHANGED <<call, e, s, r, lasts, e0>>

\* Step 1 of a ring starts past the signing index, or past the ring's end.
ForgedFrom(i) == call.idx[i] + 1

Start ==
  /\ pc.step = "start"
  /\ IF Refused(call) # "ok" THEN Fail(Refused(call), 0, 0)
     ELSE /\ pc' = At("open", 1, 1)
          /\ UNCHANGED <<call, e, s, r, lasts, e0, result>>

\* The point of the real signer's nonce.
OpenRing ==
  /\ pc.step = "open"
  /\ r' = Mult(call.ks[pc.i], G)
  /\ pc' = At("forge", pc.i, ForgedFrom(pc.i))
  /\ UNCHANGED <<call, e, s, lasts, e0, result>>

\* Step 1 at one position past the signing index.
Forge ==
  LET i == pc.i
      j == pc.j
      c == Hash(call.m, r, i, j)
      R == RingPoint(c, rings[i][j], s[i][j])
  IN  /\ pc.step = "forge" /\ j <= Len(rings[i])
      /\ IF c = 0 THEN Fail("zero challenge", i, j)
         ELSE IF R = INF THEN Fail("infinity", i, j)
         ELSE /\ e' = [e EXCEPT ![i][j] = c]
              /\ r' = R
              /\ pc' = At("forge", i, j + 1)
              /\ UNCHANGED <<call, s, lasts, e0, result>>

\* The ring's last point joins the others; after the last ring comes the hash.
CloseRing ==
  /\ pc.step = "forge" /\ pc.j > Len(rings[pc.i])
  /\ lasts' = Append(lasts, r)
  /\ IF pc.i < Len(rings)
     THEN pc' = At("open", pc.i + 1, 1) /\ e0' = e0
     ELSE pc' = At("first", 1, 1) /\ e0' = <<lasts', call.m>>
  /\ UNCHANGED <<call, e, s, r, result>>

\* Step 2 enters a ring from e0.
FirstChallenge ==
  LET c == Hash(call.m, e0, pc.i, 1)
  IN  /\ pc.step = "first"
      /\ IF c = 0 THEN Fail("zero challenge", pc.i, 1)
         ELSE /\ e' = [e EXCEPT ![pc.i][1] = c]
              /\ pc' = At("walk", pc.i, 2)
              /\ UNCHANGED <<call, s, r, lasts, e0, result>>

\* Step 2 at one position up to the signing index: a new s for the position
\* before, its point, and the challenge here.
Walk(drawn) ==
  LET i == pc.i
      j == pc.j
      R == RingPoint(e[i][j - 1], rings[i][j - 1], drawn)
      c == Hash(call.m, R, i, j)
  IN  /\ pc.step = "walk" /\ j <= call.idx[i]
      /\ IF R = INF THEN Fail("infinity", i, j - 1)
         ELSE IF c = 0 THEN Fail("zero challenge", i, j)
         ELSE /\ s' = [s EXCEPT ![i][j - 1] = drawn]
              /\ e' = [e EXCEPT ![i][j] = c]
              /\ r' = R
              /\ pc' = At("walk", i, j + 1)
              /\ UNCHANGED <<call, lasts, e0, result>>

\* Slip: the real signer's s not reduced, and so longer than the forged ones.
SignerSUnreduced(i) == call.ks[i] + call.qs[i] * e[i][call.idx[i]]

\* The s of the real signer.
SignerS(i) == (call.ks[i] + call.qs[i] * e[i][call.idx[i]]) % n

CloseSigner ==
  /\ pc.step = "walk" /\ pc.j > call.idx[pc.i]
  /\ s' = [s EXCEPT ![pc.i][call.idx[pc.i]] = SignerS(pc.i)]
  /\ IF pc.i < Len(rings)
     THEN pc' = At("first", pc.i + 1, 1) /\ UNCHANGED result
     ELSE pc' = At("done", pc.i, pc.j) /\ result' = Outcome("ok", 0, 0)
  /\ UNCHANGED <<call, e, r, lasts, e0>>

Next ==
  \/ Start
  \/ OpenRing
  \/ Forge
  \/ CloseRing
  \/ FirstChallenge
  \/ \E drawn \in Scalar : Walk(drawn)
  \/ CloseSigner

Spec == Init /\ [][Next]_vars

-----------------------------------------------------------------------------
(***************************************************************************)
(* What a call has done of its rings at each step.                         *)
(***************************************************************************)
IsTable(f) ==
  DOMAIN f = DOMAIN rings /\ \A i \in DOMAIN rings : f[i] \in [DOMAIN rings[i] -> Scalar]

TypeOK ==
  /\ rings \in RingLists /\ call.ks \in Seq(Scalar)
  /\ call.idx \in [DOMAIN rings -> 0..MaxIndex]
  /\ IsTable(e) /\ IsTable(s)
  /\ r \in Point /\ lasts \in Seq(Point)
  /\ pc.step \in {"start", "open", "forge", "first", "walk", "done"}

Returned == result.err = "ok"

\* The key of a signing index is the private key of the point there, and what
\* is past the start was not refused.
KeysAreTheirs ==
  \A i \in DOMAIN rings : call.idx[i] \in DOMAIN rings[i] /\ rings[i][call.idx[i]] # Bad
                            => call.qs[i] = rings[i][call.idx[i]]
NotRefused ==
  Returned \/ pc.step \in {"open", "forge", "first", "walk"} => Refused(call) = "ok"

\* The point at a position, and the one a challenge of step 1 is made from.
PointAt(i, j) == RingPoint(e[i][j], rings[i][j], s[i][j])
Before(i, j) ==
  IF j - 1 = call.idx[i] THEN Mult(call.ks[i], G) ELSE PointAt(i, j - 1)

\* Step 1 has been through the positions up to last, or through the whole ring.
Forged(i, j) ==
  e[i][j] = Hash(call.m, Before(i, j), i, j) /\ e[i][j] # 0 /\ PointAt(i, j) # INF
ForgedTo(i, last) == \A j \in ForgedFrom(i)..last : Forged(i, j)
Closed(i) ==
  ForgedTo(i, Len(rings[i])) /\ lasts[i] = Before(i, Len(rings[i]) + 1)
AllClosed ==
  /\ Len(lasts) = Len(rings) /\ e0 = <<lasts, call.m>>
  /\ \A i \in DOMAIN rings : Closed(i)

\* So has step 2, of which the ring's signer then gives the last answer.
Met(i, j) ==
  /\ e[i][j] # 0
  /\ IF j = 1 THEN e[i][1] = Hash(call.m, e0, i, 1)
     ELSE e[i][j] = Hash(call.m, PointAt(i, j - 1), i, j) /\ PointAt(i, j - 1) # INF
MetTo(i, last) == \A j \in 1..last : Met(i, j)
Answered(i) == MetTo(i, call.idx[i]) /\ s[i][call.idx[i]] = SignerS(i)

Inv ==
  /\ TypeOK /\ KeysAreTheirs /\ NotRefused
  /\ pc.step = "start" => lasts = << >>
  /\ pc.step \in {"open", "forge"} =>
       /\ pc.i \in DOMAIN rings /\ Len(lasts) = pc.i - 1
       /\ \A i \in 1..(pc.i - 1) : Closed(i)
  /\ pc.step = "forge" =>
       /\ pc.j \in ForgedFrom(pc.i)..(Len(rings[pc.i]) + 1)
       /\ ForgedTo(pc.i, pc.j - 1) /\ r = Before(pc.i, pc.j)
  /\ pc.step \in {"first", "walk"} =>
       /\ pc.i \in DOMAIN rings /\ AllClosed
       /\ \A i \in 1..(pc.i - 1) : Answered(i)
  /\ pc.step = "walk" =>
       pc.j \in 2..(call.idx[pc.i] + 1) /\ MetTo(pc.i, pc.j - 1)
  /\ Returned => /\ pc.step = "done" /\ AllClosed
                 /\ \A i \in DOMAIN rings : Answered(i)

-----------------------------------------------------------------------------
Sig == [e0 |-> e0, s |-> s]

\* The rings of a signature that is returned close on the e0 they start from:
\* wherever the real signer sits, the first and the last position and a ring
\* of one key included.
SignaturesClose == Returned => AssertAsValid(call.m, Sig, rings).err = "ok"

\* Every member of every ring could have made the signature: for its key and
\* the challenge at its position there is a nonce that gives the s found
\* there, so that neither the values nor their lengths tell the signer.
AnyMemberCouldSign ==
  Returned =>
    \A i \in DOMAIN rings : \A j \in DOMAIN rings[i] :
      \E k \in 1..(n - 1) :
        s[i][j] = (k + rings[i][j] * Challenges(call.m, rings[i], s[i], e0, i)[j]) % n

\* The signature is read back from its octets, cut by the rings it was made
\* over; with one octet string more, or one key more to read, they are refused.
OctetsReadBack ==
  Returned =>
    /\ Verify(call.m, Serialize(Sig), rings) = "true"
    /\ Verify(call.m, Append(Serialize(Sig), 0), rings) = "raises"
    /\ Verify(call.m, Serialize(Sig), Append(rings, rings[1])) = "raises"
=============================================================================
