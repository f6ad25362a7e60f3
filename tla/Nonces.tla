------------------------------ MODULE Nonces ------------------------------
(***************************************************************************)
(* Numbers drawn from hashes: the nonce of RFC6979                         *)
(* (ecc/rfc6979_nonce.py), that of BIP340 (ecc/bip340_nonce.py) and the    *)
(* tweak of a commitment (ecc/commit_nonce.py).  Each hashes what it was   *)
(* given and, where the number is no scalar, hashes on.                    *)
(*                                                                         *)
(* A digest is the term of what was hashed, so two are equal where their   *)
(* inputs are.  The number a candidate reads as is drawn when it is first  *)
(* looked at and is the same ever after: 0, a scalar or the order, which   *)
(* is all the code tells apart.  MaxRejected bounds how many are out of    *)
(* range.  Octets have O bits.                                             *)
(***************************************************************************)
EXTENDS Integers, Sequences, FiniteSets

CONSTANTS
  n,             \* the order
  NLen,          \* its bits
  O,             \* the bits of an octet
  ExtraBits,     \* what a stretched nonce has beyond NLen, 64 in the code
  Calls,         \* [kind, hf, ...], hf being the octets of a digest
  MaxCalls,      \* bound: calls in a row
  MaxRejected    \* bound: candidates that are no scalars

Octet(i) == <<"octet", i>>

\* The calls of the code: a key or a receipt is a scalar, a challenge is reduced,
\* and what is hashed beside them is octets.
Octets == Seq({Octet(i) : i \in 0..(2^O - 1)})
Call ==
  [kind : {"rfc6979"}, hf : Nat \ {0}, q : 1..(n - 1), c : 0..(n - 1), extra : Octets]
  \cup [kind : {"bip340"}, hf : Nat \ {0}, q : 1..(n - 1), aux : Octets, msg : Octets]
  \cup [kind : {"tweak"}, hf : Nat \ {0}, receipt : 1..(n - 1), commit : Octets]

NoncesAssumption ==
  /\ n \in Nat /\ n > 2 /\ NLen \in Nat /\ 2^(NLen - 1) <= n /\ n < 2^NLen
  /\ O \in Nat \ {0} /\ ExtraBits \in Nat
  /\ Calls \subseteq Call /\ MaxCalls \in Nat /\ MaxRejected \in Nat

CeilDiv(i, j) == (i + j - 1) \div j
NSize == CeilDiv(NLen, O)

\* int.to_bytes.
ToBytes(k, size) == [i \in 1..size |-> Octet((k \div 2^(O * (size - i))) % 2^O)]

NSizeBytes(k) == ToBytes(k, NSize)

-----------------------------------------------------------------------------
(* _HmacDrbg: K and V                                                      *)

Hmac(hf, key, m) == <<"hmac", hf, key, m>>

NextV(hf, k, v) == Hmac(hf, k, <<v>>)

Seeded(seed, hf) ==
  LET k1 == Hmac(hf, <<"zeros">>, <<<<"ones">>, Octet(0)>> \o seed)
      v1 == NextV(hf, k1, <<"ones">>)
      k2 == Hmac(hf, k1, <<v1, Octet(1)>> \o seed)
  IN  <<k2, NextV(hf, k2, v1)>>

\* generate: enough outputs for so many octets, the last of which is V.
Generate(drbg, size, hf) ==
  LET vs[i \in 1..CeilDiv(size, hf)] ==
        NextV(hf, drbg[1], IF i = 1 THEN drbg[2] ELSE vs[i - 1])
  IN  [i \in 1..CeilDiv(size, hf) |-> vs[i]]
AfterGenerate(drbg, t) == <<drbg[1], t[Len(t)]>>

Reseed(drbg, hf) ==
  LET k == Hmac(hf, drbg[1], <<drbg[2], Octet(0)>>)
  IN  <<k, NextV(hf, k, drbg[2])>>

\* The generator of a seed after i blocks, each of which it was reseeded after.
Generator(seed, hf, i) ==
  LET drbg[j \in 0..i] == IF j = 0 THEN Seeded(seed, hf)
                          ELSE Reseed(AfterGenerate(drbg[j - 1],
                                                    Generate(drbg[j - 1], NSize, hf)), hf)
  IN  drbg[i]

\* rangeproof._blocks: the i-th block, from 0, of the chain of a seed.
Blocks(seed, hf, i) == Generate(Generator(seed, hf, i), NSize, hf)

-----------------------------------------------------------------------------
(* Tagged hashes                                                           *)

Tagged(tag, hf, m) == <<"tagged", tag, hf, m>>

\* A digest shorter than the order: _bip340_nonce_ takes its other branch.
Stretched(c) == c.kind = "bip340" /\ c.hf * O < NLen

\* _stretch.
\* Slip: whole digests only, so that the last octets may be missing.
StretchFloor(tag, hf, m, size) ==
  [i \in 1..(size \div hf) |-> Tagged(tag, hf, m \o ToBytes(i - 1, 4))]
Stretch(tag, hf, m, size) ==
  [i \in 1..CeilDiv(size, hf) |-> Tagged(tag, hf, m \o ToBytes(i - 1, 4))]

\* What masks the key, and the input of the nonce's first hash.
Randomizer(c) ==
  IF Stretched(c) THEN Stretch("aux", c.hf, c.aux, NSize) ELSE <<Tagged("aux", c.hf, c.aux)>>

Masked(q, c) == <<"xor", q, Randomizer(c)>>

\* The half of the scalars whose points have an even y.
EvenY(q) == q + q < n
\* The octets of the x-coordinate of q*G, and of a point with its parity.
XOctets(q) == ToBytes(IF EvenY(q) THEN q ELSE n - q, NSize)
PointOctets(q) == <<Octet(IF EvenY(q) THEN 2 ELSE 3)>> \o XOctets(q)

Bip340Input(c) ==
  <<Masked(IF EvenY(c.q) THEN c.q ELSE n - c.q, c)>> \o XOctets(c.q) \o c.msg

Rfc6979Input(c) == NSizeBytes(c.q) \o NSizeBytes(c.c) \o c.extra
TweakInput(c)   == PointOctets(c.receipt) \o c.commit

\* What a call hashes first.
FirstInput(c) ==
  CASE c.kind = "rfc6979" -> Rfc6979Input(c)
    [] c.kind = "bip340"  -> Bip340Input(c)
    [] c.kind = "tweak"   -> TweakInput(c)

Tag(c) == c.kind

\* Octets of a stretched nonce.
StretchedSize(c) == CeilDiv(NLen + ExtraBits, c.hf * O) * c.hf

-----------------------------------------------------------------------------
VARIABLES
  call,     \* the call that runs, or none yet
  state,    \* its generator, or the octets hashed last
  tried,    \* the candidates it has looked at, each once
  number,   \* what each candidate ever looked at reads as
  past      \* the calls that returned, with the candidate each took

vars == <<call, state, tried, number, past>>

Idle == call = << >>

Init ==
  call = << >> /\ state = << >> /\ tried = << >> /\ number = << >> /\ past = << >>

Start ==
  /\ Idle /\ Len(past) < MaxCalls
  /\ \E c \in Calls :
       /\ call' = c
       /\ state' = IF c.kind = "rfc6979" THEN Seeded(FirstInput(c), c.hf) ELSE FirstInput(c)
  /\ tried' = << >> /\ UNCHANGED <<number, past>>

Candidate ==
  IF call.kind = "rfc6979" THEN Generate(state, NSize, call.hf)
  ELSE IF Stretched(call) THEN Stretch(Tag(call), call.hf, state, StretchedSize(call))
  ELSE <<Tagged(Tag(call), call.hf, state)>>

\* What the loop goes on with after a candidate that is no scalar.
\* Slip: the generator is not reseeded.
AdvancedUnseeded(t) ==
  IF call.kind = "rfc6979" THEN AfterGenerate(state, t) ELSE t
Advanced(t) ==
  IF call.kind = "rfc6979" THEN Reseed(AfterGenerate(state, t), call.hf) ELSE t

Known(t) == \E i \in DOMAIN number : number[i].of = t
Reading(t) == number[CHOOSE i \in DOMAIN number : number[i].of = t].is
IsScalar(k) == k \in 1..(n - 1)

\* A new candidate reads as anything, while there is room for one that is out
\* of range; a stretched one is reduced, whatever it reads as.
Rejected == {i \in DOMAIN number : ~IsScalar(number[i].is)}
Drawn(t) ==
  IF Known(t) THEN {Reading(t)}
  ELSE IF Cardinality(Rejected) < MaxRejected THEN {0, 1, n} ELSE {1}

Return(t) ==
  /\ past' = Append(past, [call |-> call, taken |-> t])
  /\ call' = << >> /\ state' = << >>

\* One pass of the loop.
Try ==
  /\ ~Idle
  /\ \E k \in Drawn(Candidate) :
       LET t == Candidate
       IN  /\ tried' = IF \E i \in DOMAIN tried : tried[i] = t THEN tried ELSE Append(tried, t)
           /\ number' = IF Known(t) THEN number ELSE Append(number, [of |-> t, is |-> k])
           /\ \/ (Stretched(call) \/ IsScalar(k)) /\ Return(t)
              \/ /\ ~Stretched(call) /\ ~IsScalar(k)
                 /\ state' = Advanced(t) /\ UNCHANGED <<call, past>>

Next == Start \/ Try

Spec == Init /\ [][Next]_vars /\ WF_vars(Try)

-----------------------------------------------------------------------------
\* Two calls that took one candidate were given the same: no two keys,
\* messages, entropies or commitments share a nonce or a tweak, whatever is
\* rejected on the way.  A key and its opposite are one to BIP340.
OneCandidateOneInput ==
  \A i, j \in DOMAIN past :
    past[i].taken = past[j].taken =>
      LET c1 == past[i].call  c2 == past[j].call
      IN  /\ c1.kind = c2.kind /\ c1.hf = c2.hf
          /\ c1.kind = "rfc6979" => <<c1.q, c1.c, c1.extra>> = <<c2.q, c2.c, c2.extra>>
          /\ c1.kind = "bip340" =>
               c1.q \in {c2.q, n - c2.q} /\ c1.aux = c2.aux /\ c1.msg = c2.msg
          /\ c1.kind = "tweak" =>
               c1.receipt = c2.receipt /\ c1.commit = c2.commit

\* A rejected candidate of RFC6979 is followed by the block range proofs draw
\* next from the same seed, as the docstring of rangeproof._blocks has it.
RejectionFollowsTheChain ==
  ~Idle /\ call.kind = "rfc6979" =>
    \A i \in DOMAIN tried : tried[i] = Blocks(FirstInput(call), call.hf, i - 1)

\* However short the digest, a nonce is read from as many bits as the order has,
\* and so is the mask of a BIP340 key; a stretched one has ExtraBits more.  The
\* tweak of a commitment, which is public, is read from one digest.
BitsCoverTheOrder ==
  /\ ~Idle /\ call.kind # "tweak" =>
       \A i \in DOMAIN tried : Len(tried[i]) * call.hf * O >= NLen
  /\ ~Idle /\ call.kind = "bip340" => Len(Randomizer(call)) * call.hf * O >= NLen
  /\ \A i \in DOMAIN past :
       /\ past[i].call.kind # "tweak" => Len(past[i].taken) * past[i].call.hf * O >= NLen
       /\ Stretched(past[i].call) =>
            Len(past[i].taken) * past[i].call.hf * O >= NLen + ExtraBits

\* What a call hashes after i candidates that were no scalars, which it then
\* looks at.
Rehashed(c, i) ==
  LET m[j \in 0..i] == IF j = 0 THEN FirstInput(c) ELSE <<Tagged(Tag(c), c.hf, m[j - 1])>>
  IN  m[i]
StateAt(c, i) ==
  IF c.kind = "rfc6979" THEN Generator(FirstInput(c), c.hf, i) ELSE Rehashed(c, i)
CandidateAt(c, i) ==
  IF c.kind = "rfc6979" THEN Blocks(FirstInput(c), c.hf, i)
  ELSE IF Stretched(c) THEN Stretch(Tag(c), c.hf, FirstInput(c), StretchedSize(c))
  ELSE <<Tagged(Tag(c), c.hf, Rehashed(c, i))>>

IsSequence(f) == f \in Seq({f[i] : i \in DOMAIN f})

\* A call that runs is where its rejected candidates have led it, which are the
\* first of its chain, none twice; one that returned took the next.  So many
\* candidates are ever rejected.
Inv(rejections) ==
  /\ ~Idle =>
       /\ call \in Calls /\ state = StateAt(call, Len(tried))
       /\ IsSequence(tried)
       /\ \A i \in DOMAIN tried : tried[i] = CandidateAt(call, i - 1)
       /\ Stretched(call) => tried = << >>
  /\ IsSequence(past)
  /\ \A i \in DOMAIN past :
       /\ past[i].call \in Calls
       /\ \E j \in rejections : past[i].taken = CandidateAt(past[i].call, j)

\* A call that has started returns: a candidate that was rejected does not come
\* back.
CallsReturn == ~Idle ~> Idle
===========================================================================
