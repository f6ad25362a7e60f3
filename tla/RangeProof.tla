----------------------------- MODULE RangeProof -----------------------------
(***************************************************************************)
(* Range proofs (ecc/rangeproof.py) over Pedersen commitments              *)
(* (ecc/pedersen.py): a proof is written, travels, is verified, and is     *)
(* rewound by whoever holds its nonce.                                     *)
(*                                                                         *)
(* Nobody knows the logarithm of the generator H of values to the base G,  *)
(* so a point is a pair <<g, v>> for g*G + v*H.  A 32-octet word is a      *)
(* number below 2^w, a scalar one below n; words are xored bit by bit, and *)
(* as n is not 2^w a word may be no scalar.  The hash of the points that   *)
(* close the rings is the sequence of their coordinates, which no two      *)
(* inputs share; a challenge is a word, where inputs do collide.           *)
(*                                                                         *)
(* The residuosity bit that goes with an x is left out, a point being      *)
(* carried whole.                                                          *)
(***************************************************************************)
EXTENDS RangeHeader, Bitwise, SequencesExt

CONSTANTS
  n,         \* the order of G
  w,         \* a word is a number below 2^w
  Block(_, _),        \* Block(seed, k): the k-th block of the chain of a seed
  Hash(_, _, _, _),   \* Hash(m, r, i, j): the borromean hash, as a word
  MaxRejected,        \* bound: blinding factors a chain rejects in a row
  Calls,     \* what sign is asked for
  Claims,    \* proofs nobody wrote: a header, ring commitments, a commitment
  Requests,  \* bound: what a header is made for, [value, min, exp, bits]
  Strings    \* bound: the octets parse is given

Word   == 0..(2^w - 1)
Scalar == 0..(n - 1)
IsScalar(x) == x \in 1..(n - 1)

RangeProofAssumption ==
  /\ HeaderAssumption /\ RoomAssumption
  /\ n \in Nat /\ n < 2^w /\ n > UMax
  /\ \A k \in 1..(n - 1) : \E i \in 1..(n - 1) : (k * i) % n = 1
  /\ MaxRejected \in Nat

-----------------------------------------------------------------------------
(* Points                                                                  *)

Point == Scalar \X Scalar
INF == <<0, 0>>
G   == <<1, 0>>
Add(P, Q)  == <<(P[1] + Q[1]) % n, (P[2] + Q[2]) % n>>
Mult(k, P) == <<((k % n) * P[1]) % n, ((k % n) * P[2]) % n>>
Negate(P)  == Mult(n - 1, P)
ModInv(k)  == CHOOSE i \in 1..(n - 1) : (k * i) % n = 1
SumOf(Ps)  == FoldLeft(Add, INF, Ps)

\* pedersen.commit, without its refusals: an r of zero, a generator at
\* infinity.  pedersen._commit.
Commit(r, v, gen) == Add(Mult(r, G), Mult(v, gen))

-----------------------------------------------------------------------------
(* Rings                                                                   *)

\* _pub_expand: keys step down from the ring's commitment by the weight of its
\* digit, ten to the exponent times four for every ring before it.
Weight(hd, i) == ScaleOf(hd) * 4^(i - 1)
PubExpand(heads, gen, hd) ==
  [i \in DOMAIN heads |->
     [j \in 1..Rsizes(hd.mantissa)[i] |->
        Add(heads[i], Mult(n - 1, Mult((j - 1) * Weight(hd, i), gen)))]]

\* pubk_rings: the last ring's commitment is what the others and the floor
\* leave of the proof's commitment.
\* Slip: the floor is not taken off.
LastHeadNoFloor(hd, stated, commitment, gen) ==
  Add(commitment, Negate(SumOf(stated)))
LastHead(hd, stated, commitment, gen) ==
  Add(commitment, Negate(Add(Mult(Floor(hd), gen), SumOf(stated))))

\* The octets a proof's message and its chain open with, and the message.
HashedPrefix(commitment, gen, hd) ==
  commitment \o gen \o HeaderFields(hd)
\* Slip: what the caller binds is not in it.
RingMessageUnbound(commitment, gen, hd, stated, extra) ==
  HashedPrefix(commitment, gen, hd) \o FlattenSeq(stated)
RingMessage(commitment, gen, hd, stated, extra) ==
  HashedPrefix(commitment, gen, hd) \o FlattenSeq(stated) \o extra

-----------------------------------------------------------------------------
(* The nonce chain                                                         *)

Room(sizes) == 4 * (Len(sizes) - 1)

\* The word that carries v: recognised by its upper half.
Encoding(v)    == 2^(w - 1) + v
IsEncoding(x)  == x \div 2^W = 2^(w - 1 - W)
Encoded(x)     == x % 2^W

\* _prep: the message's words at the first keys, and the value at the last
\* key of the last ring, or the one before where the digit is the last.
\* Slip: the value goes to the last key whatever the digit.
EncodingAtLast(sizes, digit) == sizes[Len(sizes)]
EncodingAt(sizes, digit) ==
  LET last == sizes[Len(sizes)] IN IF digit = last - 1 THEN last - 1 ELSE last

Prep(sizes, v, digit, message) ==
  [i \in DOMAIN sizes |-> [j \in 1..sizes[i] |->
     LET at == 4 * (i - 1) + j
     IN  IF i = Len(sizes)
         THEN IF sizes[i] > 1 /\ j = EncodingAt(sizes, digit) THEN Encoding(v) ELSE 0
         ELSE IF at <= Len(message) THEN message[at] ELSE 0]]
NoPrep(sizes) == [i \in DOMAIN sizes |-> [j \in 1..sizes[i] |-> 0]]

\* _genrand, a ring at a time: chain.k blocks are spent.  Every ring but the
\* last discards a block and takes the first scalar after it for its blinding
\* factor, the last what makes the factors sum to zero; then a block a key.
BlindingBlock(seed, k) ==
  CHOOSE l \in (k + 2)..(k + 2 + MaxRejected) :
    /\ IsScalar(Block(seed, l))
    /\ \A l2 \in (k + 2)..(l - 1) : ~IsScalar(Block(seed, l2))

GenrandRing(seed, sizes, prep, chain, i) ==
  LET last == i = Len(sizes)
      k    == IF last THEN chain.k ELSE BlindingBlock(seed, chain.k)
      bf   == IF last THEN (n - (FoldLeft(+, 0, chain.bfs) % n)) % n ELSE Block(seed, k)
  IN  [k     |-> k + sizes[i],
       bfs   |-> Append(chain.bfs, bf),
       draws |-> Append(chain.draws,
                        [j \in 1..sizes[i] |-> Block(seed, k + j) ^^ prep[i][j]])]

Genrand(seed, sizes, prep) ==
  FoldLeft(LAMBDA chain, i : GenrandRing(seed, sizes, prep, chain, i),
           [k |-> 0, bfs |-> << >>, draws |-> << >>],
           [i \in DOMAIN sizes |-> i])

\* A draw that is no scalar fails the proof.
ChainHolds(chain) ==
  \A i \in DOMAIN chain.draws : \A j \in DOMAIN chain.draws[i] : IsScalar(chain.draws[i][j])

Seed(nonce, commitment, gen, hd) == <<nonce>> \o HashedPrefix(commitment, gen, hd)

-----------------------------------------------------------------------------
(* The rings' signature                                                    *)

\* One key of a walk: the point the challenge and the scalar make, and the
\* challenge of the next key.  A walk stops at a challenge that is no scalar
\* and at a point at infinity.
Walk(m, ring, ss, i, from, to, e) ==
  FoldLeft(LAMBDA st, j :
             LET t == Add(Mult(st.e, ring[j]), Mult(ss[j], G))
             IN  [e  |-> Hash(m, t, i, j + 1), r |-> t,
                  es |-> Append(st.es, st.e),
                  holds |-> st.holds /\ IsScalar(st.e) /\ t # INF],
           [e |-> e, r |-> INF, es |-> << >>, holds |-> TRUE],
           [k \in 1..(to - from + 1) |-> from + k - 1])

\* _borromean_sign, one ring: after the key that is opened, to the ring's end;
\* then from the ring's start to that key.
RingEnd(m, ring, k, i, digit, draws) ==
  LET r0 == Mult(k, G)
      st == Walk(m, ring, draws, i, digit + 2, Len(ring), Hash(m, r0, i, digit + 2))
  IN  IF digit + 1 = Len(ring) THEN [r |-> r0, holds |-> TRUE]
      ELSE [r |-> st.r, holds |-> st.holds]

\* Slip: the scalar is not reduced.
RingScalarWhole(m, ring, e0, i, digit, draws, k, sec) ==
  LET st == Walk(m, ring, draws, i, 1, digit, Hash(m, e0, i, 1))
  IN  [s |-> k + (n - (st.e % n)) * sec, holds |-> st.holds /\ IsScalar(st.e)]
RingScalar(m, ring, e0, i, digit, draws, k, sec) ==
  LET st == Walk(m, ring, draws, i, 1, digit, Hash(m, e0, i, 1))
  IN  [s |-> (k + (n - (st.e % n)) * sec) % n, holds |-> st.holds /\ IsScalar(st.e)]

\* No signature where a challenge, a point or a scalar fails.
BorromeanSign(m, rings, ks, secs, digits, draws) ==
  LET ends == [i \in DOMAIN rings |-> RingEnd(m, rings[i], ks[i], i, digits[i], draws[i])]
      e0   == FlattenSeq([i \in DOMAIN rings |-> ends[i].r]) \o m
      own  == [i \in DOMAIN rings |->
                 RingScalar(m, rings[i], e0, i, digits[i], draws[i], ks[i], secs[i])]
  IN  IF \A i \in DOMAIN rings : ends[i].holds /\ own[i].holds /\ own[i].s # 0
      THEN {[e0 |-> e0,
             s  |-> [i \in DOMAIN rings |->
                       [draws[i] EXCEPT ![digits[i] + 1] = own[i].s]]]}
      ELSE {}

\* _borromean_verify: the challenge at every key, or none.
BorromeanVerify(m, rings, sig) ==
  LET walks == [i \in DOMAIN rings |->
                  Walk(m, rings[i], sig.s[i], i, 1, Len(rings[i]), Hash(m, sig.e0, i, 1))]
  IN  IF /\ \A i \in DOMAIN rings :
              /\ walks[i].holds
              /\ \A j \in DOMAIN rings[i] : sig.s[i][j] # 0 /\ rings[i][j] # INF
         /\ FlattenSeq([i \in DOMAIN rings |-> walks[i].r]) \o m = sig.e0
      THEN {[i \in DOMAIN rings |-> walks[i].es]}
      ELSE {}

-----------------------------------------------------------------------------
(* sign, verify and rewind                                                 *)

\* sign, for arguments it accepts and parameters that fit.
SignWith(c, params) ==
  LET hd     == HeaderFor(params)
      sizes  == Rsizes(params.mantissa)
      digits == SignKeyIdx(params.v, params.mantissa)
      C      == Commit(c.blind, c.value, c.gen)
      chain  == Genrand(Seed(c.nonce, C, c.gen, hd), sizes,
                        Prep(sizes, params.v, digits[Len(sizes)], c.message))
      secs   == [chain.bfs EXCEPT ![Len(sizes)] = (@ + c.blind) % n]
      heads  == [i \in DOMAIN sizes |-> Commit(secs[i], digits[i] * Weight(hd, i), c.gen)]
      stated == SubSeq(heads, 1, Len(heads) - 1)
      sigs   == BorromeanSign(RingMessage(C, c.gen, hd, stated, c.extra),
                              PubExpand(heads, c.gen, hd),
                              [i \in DOMAIN sizes |-> chain.draws[i][digits[i] + 1]],
                              secs, digits, chain.draws)
  IN  IF /\ ChainHolds(chain)
         /\ secs[Len(sizes)] # 0
         /\ \A i \in DOMAIN heads : heads[i] # INF
      THEN {[hd |-> hd, stated |-> stated, sig |-> sig] : sig \in sigs}
      ELSE {}

AcceptsCall(c) ==
  /\ IsScalar(c.blind) /\ c.gen # INF
  /\ c.value \in 0..UMax /\ c.min \in 0..c.value
  /\ c.exp \in -1..MaxExp /\ c.bits \in 0..W

SignProof(c) ==
  IF ~AcceptsCall(c) THEN {}
  ELSE UNION {SignWith(c, params) :
                params \in {par \in ProveParams(c.value, c.min, c.exp, c.bits) :
                              Len(c.message) <= Room(Rsizes(par.mantissa))}}

\* pubk_rings: none where the last commitment is at infinity.
PubkRings(proof, commitment, gen) ==
  LET last == LastHead(proof.hd, proof.stated, commitment, gen)
  IN  IF last = INF THEN {}
      ELSE {PubExpand(Append(proof.stated, last), gen, proof.hd)}

\* _verify_rings, under the assert_valid that is ahead of it.
VerifyRings(proof, commitment, gen, extra) ==
  IF ~ValidHeader(proof.hd) THEN {}
  ELSE UNION {BorromeanVerify(RingMessage(commitment, gen, proof.hd, proof.stated, extra),
                              rings, proof.sig)
              : rings \in PubkRings(proof, commitment, gen)}

\* _value_encoding: the key of the last ring, of the last two, that reads as a
\* value.
Reads(written, drawn, j) == IsEncoding(written[j] ^^ drawn[j])
FoundAt(written, drawn) ==
  LET last == Len(written)
  IN  IF Reads(written, drawn, last) THEN {last}
      ELSE IF Reads(written, drawn, last - 1) THEN {last - 1} ELSE {}

RecoverX(k, e, s) == ((k + (n - s)) * ModInv(e)) % n
RecoverK(x, e, s) == (s + x * e) % n

\* What the keys carry, the value's and the digit's of the last ring excepted.
Carried(chain, ev, s, v, skipped) ==
  LET word(i, j) ==
        (IF Digit(v, i) = j - 1 THEN RecoverK(chain.bfs[i], ev[i][j], s[i][j])
                                ELSE s[i][j]) ^^ chain.draws[i][j]
      keys(i) == SelectSeq([j \in DOMAIN s[i] |-> j],
                           LAMBDA j : i < Len(s) \/ j \notin skipped)
  IN  FlattenSeq([i \in DOMAIN s |->
                    [k \in DOMAIN keys(i) |-> word(i, keys(i)[k])]])

RewindBlinded(proof, chain, ev) ==
  LET s     == proof.sig.s
      last  == Len(s)
  IN  UNION {LET v     == Encoded(s[last][at] ^^ chain.draws[last][at])
                 digit == Digit(v, last)
                 x     == RecoverX(chain.draws[last][digit + 1], ev[last][digit + 1],
                                   s[last][digit + 1])
             IN  IF at = digit + 1 \/ digit >= Len(s[last]) THEN {}
                 ELSE {[blind   |-> (x + (n - chain.bfs[last])) % n,
                        value   |-> v * 10^(proof.hd.exp) + Floor(proof.hd),
                        message |-> Carried(chain, ev, s, v, {at, digit + 1})]}
             : at \in FoundAt(s[last], chain.draws[last])}

RewindStated(proof, chain, ev) ==
  {[blind   |-> RecoverX(chain.draws[1][1], ev[1][1], proof.sig.s[1][1]),
    value   |-> Floor(proof.hd), message |-> << >>]}

\* rewind: what opens the commitment, or nothing.
Rewind(proof, commitment, nonce, gen, extra) ==
  UNION {LET sizes == Rsizes(proof.hd.mantissa)
             chain == Genrand(Seed(nonce, commitment, gen, proof.hd), sizes, NoPrep(sizes))
         IN  IF ~ChainHolds(chain) THEN {}
             ELSE {found \in IF sizes = <<1>> THEN RewindStated(proof, chain, ev)
                                              ELSE RewindBlinded(proof, chain, ev) :
                     Commit(found.blind, found.value, gen) = commitment}
         : ev \in VerifyRings(proof, commitment, gen, extra)}

-----------------------------------------------------------------------------
(* A proof, from its writer to a reader; a claim, to a reader; or a header *)
(* on its own, made for a request or read from octets                      *)

VARIABLES
  call,     \* the arguments of sign, a claim, a request or octets
  proof,    \* the proof written, as an option
  reader,   \* what the reader was handed with it, once it has read
  result    \* what the reader got, as an option

vars == <<call, proof, reader, result>>

Asks(kind) == kind \in DOMAIN call
IsClaim == Asks("claim")
IsCall  == Asks("blind")
Unread  == reader = << >>

Init ==
  /\ \/ call \in Calls /\ proof = {}
     \/ \E cl \in Claims : call = [claim |-> cl] /\ proof = {cl.proof}
     \/ \E r \in Requests : call = [request |-> r] /\ proof = {}
     \/ \E o \in Strings : call = [octets |-> o] /\ proof = {}
  /\ reader = << >> /\ result = {}

Commitment == Commit(call.blind, call.value, call.gen)

Sign ==
  /\ IsCall /\ Unread /\ proof = {}
  /\ proof' = SignProof(call) /\ proof' # {}
  /\ UNCHANGED <<call, reader, result>>

RefuseToSign ==
  /\ IsCall /\ Unread /\ proof = {}
  /\ SignProof(call) = {}
  /\ reader' = [refused |-> TRUE]
  /\ UNCHANGED <<call, proof, result>>

\* The reader has the caller's octets and commitment, or others.
Verify ==
  /\ IsCall /\ Unread
  /\ \E p \in proof, extra \in {call.extra, <<1>>, << >>},
        C \in {Commitment, Add(Commitment, G), Add(Commitment, call.gen)} :
       /\ reader' = [verify |-> TRUE, extra |-> extra, commitment |-> C]
       /\ result' = VerifyRings(p, C, call.gen, extra)
  /\ UNCHANGED <<call, proof>>

RewindIt ==
  /\ IsCall /\ Unread
  /\ \E p \in proof, nonce \in {call.nonce, call.nonce + 1} :
       /\ reader' = [rewind |-> nonce]
       /\ result' = Rewind(p, Commitment, nonce, call.gen, call.extra)
  /\ UNCHANGED <<call, proof>>

ReadClaim ==
  /\ IsClaim /\ Unread
  /\ reader' = [rings |-> TRUE]
  /\ result' = PubkRings(call.claim.proof, call.claim.commitment, call.claim.gen)
  /\ UNCHANGED <<call, proof>>

\* The part of sign that is about the header, and RangeProof's check of it.
MakeHeader ==
  /\ Asks("request") /\ Unread
  /\ LET r == call.request
         asked == /\ r.value \in 0..UMax /\ r.min \in 0..r.value
                  /\ r.exp \in -1..MaxExp /\ r.bits \in 0..W
     IN  result' = {[hd |-> HeaderFor(params), v |-> params.v,
                     valid |-> ValidHeader(HeaderFor(params))] :
                    params \in IF asked THEN ProveParams(r.value, r.min, r.exp, r.bits)
                              ELSE {}}
  /\ reader' = [made |-> TRUE]
  /\ UNCHANGED <<call, proof>>

Parse ==
  /\ Asks("octets") /\ Unread
  /\ result' = IF Parses(call.octets)
               THEN {[hd |-> HeaderOf(call.octets), signs |-> SignsOf(call.octets)]}
               ELSE {}
  /\ reader' = [parsed |-> TRUE]
  /\ UNCHANGED <<call, proof>>

Next == Sign \/ RefuseToSign \/ Verify \/ RewindIt \/ ReadClaim \/ MakeHeader \/ Parse

Spec == Init /\ [][Next]_vars

-----------------------------------------------------------------------------
(* Properties                                                              *)

ReadBy(kind) == kind \in DOMAIN reader

TheProof == CHOOSE p \in proof : TRUE

\* Scalars and challenges are the format's: no s of zero is written, and no
\* walk of a proof that verifies meets a challenge that is no scalar.
TypeOK ==
  /\ \A p \in proof : IsCall =>
       \A i \in DOMAIN p.sig.s : \A j \in DOMAIN p.sig.s[i] : IsScalar(p.sig.s[i][j])
  /\ ReadBy("verify") =>
       \A ev \in result : \A i \in DOMAIN ev : \A j \in DOMAIN ev[i] : IsScalar(ev[i][j])

\* A proof that was written verifies against the commitment and the octets it
\* was written for, and against no others.
VerifiesWhatItWasWrittenFor ==
  ReadBy("verify") =>
    (result # {} <=> reader.commitment = Commitment /\ reader.extra = call.extra)

\* The words at the key the last ring opens and at the last key, xored with
\* their draws: a word of the first kind that reads as a value hides the value.
Mistaken ==
  LET p     == TheProof
      sizes == Rsizes(p.hd.mantissa)
      chain == Genrand(Seed(call.nonce, Commitment, call.gen, p.hd), sizes, NoPrep(sizes))
      last  == Len(sizes)
      digit == Digit(MantissaValue(p.hd, call.value), last)
  IN  /\ digit = sizes[last] - 1
      /\ Reads(p.sig.s[last], chain.draws[last], sizes[last])

\* Whether the draws behind a proof are scalars without what they carry.
BareChainHolds ==
  LET sizes == Rsizes(TheProof.hd.mantissa)
  IN  ChainHolds(Genrand(Seed(call.nonce, Commitment, call.gen, TheProof.hd), sizes,
                         NoPrep(sizes)))

\* Whoever holds the nonce reads back the blinding factor, the value and the
\* message, followed by zeros; two accidents of the draws apart.
RewindReadsBack ==
  ReadBy("rewind") /\ reader.rewind = call.nonce /\ BareChainHolds =>
    \/ TheProof.hd.mantissa > 0 /\ Mistaken
    \/ \E found \in result :
         /\ found.blind = call.blind /\ found.value = call.value
         /\ IsPrefix(call.message, found.message)
         /\ \A k \in (Len(call.message) + 1)..Len(found.message) : found.message[k] = 0

\* Of each ring of a proof that was written one key, the digit's, is a multiple
\* of G alone: that is the key its writer can open.
OneKeyOpens ==
  ReadBy("verify") /\ reader.commitment = Commitment /\ TheProof.hd.mantissa > 0 =>
    \A rings \in PubkRings(TheProof, Commitment, call.gen) :
      \A i \in DOMAIN rings :
        {j \in DOMAIN rings[i] : rings[i][j][2] = 0}
          = {1 + Digit(MantissaValue(TheProof.hd, call.value), i)}

\* Whatever commitments a proof states, if a key of every ring is a multiple of
\* G alone then the value committed to is in the range the header states.
RangeIsProven ==
  ReadBy("rings") =>
    \A rings \in result :
      (\A i \in DOMAIN rings : \E j \in DOMAIN rings[i] : rings[i][j][2] = 0)
        => \E value \in Floor(call.claim.proof.hd)..MaxValue(call.claim.proof.hd) :
             Mult(value, call.claim.gen)[2] = call.claim.commitment[2]

Written   == ReadBy("made") /\ result # {}
Read      == ReadBy("parsed") /\ result # {}
TheHeader == CHOOSE answer \in result : TRUE

\* Whatever is asked for, the header that is written is one a reader accepts:
\* no rounding of the exponent, of the precision or of the floor makes the
\* proven maximum overflow.
WrittenHeadersAreValid == Written => TheHeader.valid

\* The range written holds the value and starts no lower than the floor asked
\* for, and less than one step of the exponent above it.
RangeHoldsTheValue ==
  Written =>
    LET r  == call.request
        hd == TheHeader.hd
    IN  IF hd.mantissa = 0 THEN Floor(hd) = r.value
        ELSE /\ r.value \in Floor(hd)..MaxValue(hd)
             /\ Floor(hd) >= r.min /\ Floor(hd) - r.min < ScaleOf(hd)
             /\ hd.exp <= r.exp
             /\ hd.mantissa >= Least(r.bits, W - BitLength(r.min))

\* From the header and the value alone a reader finds the digits the writer
\* used, each names a key its ring has, and together they make the value.
DigitsAreReadBack ==
  Written =>
    LET r     == call.request
        hd    == TheHeader.hd
        sizes == Rsizes(hd.mantissa)
        idx   == SignKeyIdx(TheHeader.v, hd.mantissa)
    IN  /\ HasDigits(hd, r.value)
        /\ MantissaValue(hd, r.value) = TheHeader.v
        /\ \A i \in DOMAIN sizes : idx[i] < sizes[i]
        /\ TheHeader.v = MapThenFoldSet(+, 0, LAMBDA i : idx[i] * 4^(i - 1),
                                     LAMBDA I : CHOOSE i \in I : TRUE, DOMAIN sizes)

\* What is written is parsed to what was written, for whatever signs.
WrittenIsParsed ==
  Written =>
    \A signs \in {[i \in 1..(Rings(TheHeader.hd) - 1) |-> b] : b \in BOOLEAN}
                 \cup {[i \in 1..(Rings(TheHeader.hd) - 1) |-> i = 1]} :
      LET octets == Serialize(TheHeader.hd, signs)
      IN  /\ Parses(octets)
          /\ HeaderOf(octets) = TheHeader.hd
          /\ SignsOf(octets) = signs

\* Octets go back out as they came, but for the exponent's bits of a proof
\* that states its value.
ParsedIsWrittenBack ==
  Read => LET out == Serialize(TheHeader.hd, TheHeader.signs)
          IN  \/ out = call.octets
              \/ ~HasRange(call.octets[1])
                 /\ out = [call.octets EXCEPT ![1] = @ - (@ % 32)]
=============================================================================
