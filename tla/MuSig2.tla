------------------------------- MODULE MuSig2 -------------------------------
(***************************************************************************)
(* BIP327 multi-signatures (ecc/musig2.py).  The state is what the callers *)
(* of the module hold between two calls: the secret nonces nonce_gen hands *)
(* out as mutable buffers and sign consumes, the public nonces, the        *)
(* session contexts, and the partial signatures the calls returned.  Every *)
(* call is one step: the module has neither threads nor callbacks.         *)
(*                                                                         *)
(* A failed call returns nothing, so each function that may raise is an    *)
(* operator returning a record whose field err is "ok" or the name of the  *)
(* error, with the index the error blames in who.                          *)
(***************************************************************************)
EXTENDS SchnorrGroup, FiniteSets

CONSTANTS
  Bad,             \* octets of the right size that encode no point
  NoAdaptor,       \* adaptor=None
  Plans,           \* the sessions one may open, but for the aggregate nonce
  KeyCoeffHash,    \* KeyCoeffHash[pks, pk]: hash of the key list and one key
  NonceCoeffHash,  \* NonceCoeffHash[R_1, R_2, x_Q, msg]: the coefficient b
  NoncePairs,      \* what the two scalars of a secret nonce may be
  PrvKeys,         \* the signers' private keys
  Slot,            \* the nonces of the system, one name each
  ForeignPubNonce, \* public nonces that did not come out of nonce_gen
  ForeignNonce,    \* aggregate nonces that did not come out of nonce_agg
  MaxSessions,     \* a bound on the sessions opened
  MaxDetSigs       \* a bound on the calls of deterministic_sign

Encoding  == Finite \cup {Bad}
ExtEncoding == Point \cup {Bad}
Tweak     == [t : 0..n, is_xonly : BOOLEAN]   \* t = n: not less than n
KeyLists  == {p.pks : p \in Plans}

ASSUME MuSig2Assumption ==
  /\ Bad \notin Int
  /\ NoAdaptor \notin Int /\ NoAdaptor # Bad
  /\ \A p \in Plans : /\ p.pks \in Seq(Encoding) /\ p.pks # << >>
                      /\ p.tweaks \in Seq(Tweak)
                      /\ p.msg \in Msg
                      /\ p.adaptor \in Encoding \cup {NoAdaptor}
                      /\ DOMAIN p = {"pks", "tweaks", "msg", "adaptor"}
  /\ KeyCoeffHash \in [KeyLists \X Finite -> Scalar]
  /\ NonceCoeffHash \in [Point \X Point \X Finite \X Msg -> Scalar]
  /\ NoncePairs \subseteq Finite \X Finite
  /\ PrvKeys \subseteq Finite
  /\ ForeignPubNonce \subseteq Encoding \X Encoding
  /\ ForeignNonce \subseteq ExtEncoding \X ExtEncoding
  /\ MaxSessions \in Nat /\ MaxDetSigs \in Nat

-----------------------------------------------------------------------------
(***************************************************************************)
(* Key aggregation.                                                        *)
(***************************************************************************)

\* Slip: the index the parsing loop ended with is blamed.
FirstBadLoopEnd(s) == Len(s)

\* The first index at which the sequence holds octets that do not parse.
FirstBad(s) == CHOOSE i \in DOMAIN s : s[i] = Bad /\ \A j \in 1..(i - 1) : s[j] # Bad
AllParse(s) == \A i \in DOMAIN s : s[i] # Bad

\* The first key that differs from the first one; INF, which no key is, when
\* there is none.
SecondPubKey(pks) ==
  LET different == {i \in DOMAIN pks : pks[i] # pks[1]}
  IN  IF different = {} THEN INF
      ELSE pks[CHOOSE i \in different : \A j \in different : i <= j]

KeyAggCoeff(pks, pk) == IF pk = SecondPubKey(pks) THEN 1 ELSE KeyCoeffHash[pks, pk]

KeyAggError(err, who) == [err |-> err, who |-> who, Q |-> INF, gacc |-> 1, tacc |-> 0]

KeyAgg(pks) ==
  LET Q == SumAll([i \in DOMAIN pks |-> Mult(KeyAggCoeff(pks, pks[i]), pks[i])])
  IN  IF ~AllParse(pks) THEN KeyAggError("pubkey", FirstBad(pks))
      ELSE IF Q = INF THEN KeyAggError("infinite key", 0)
      ELSE [err |-> "ok", who |-> 0, Q |-> Q, gacc |-> 1, tacc |-> 0]

\* One tweak: an x-only one of a key with an odd y negates the key first, and
\* gacc and tacc remember by which sign and by which scalar Q left the keys.
ApplyTweak(ctx, tweak) ==
  LET flip == tweak.is_xonly /\ HasOddY(ctx.Q)
      g == IF flip THEN n - 1 ELSE 1
      Q == Add(IF flip THEN Negate(ctx.Q) ELSE ctx.Q, Mult(tweak.t, G))
  IN  IF tweak.t >= n THEN KeyAggError("tweak range", 0)
      ELSE IF Q = INF THEN KeyAggError("infinite key", 0)
      ELSE [err |-> "ok", who |-> 0, Q |-> Q,
            gacc |-> (g * ctx.gacc) % n, tacc |-> (tweak.t + g * ctx.tacc) % n]

\* The key before the first tweak, after the first, and so on; the first error
\* ends the loop.
TweakedKeys(pks, tweaks) ==
  LET after[i \in 0..Len(tweaks)] ==
        IF i = 0 THEN KeyAgg(pks)
        ELSE IF after[i - 1].err # "ok" THEN after[i - 1]
        ELSE ApplyTweak(after[i - 1], tweaks[i])
  IN  after
KeyAggAndTweak(pks, tweaks) == TweakedKeys(pks, tweaks)[Len(tweaks)]

-----------------------------------------------------------------------------
(***************************************************************************)
(* Nonce aggregation and the values of a session.                          *)
(***************************************************************************)

\* All the first halves are parsed before any second half.
NonceAgg(pubNonces) ==
  LET half(j) == [i \in DOMAIN pubNonces |-> pubNonces[i][j]]
      error(who) == [err |-> "pubnonce", who |-> who, R |-> <<INF, INF>>]
  IN  IF ~AllParse(half(1)) THEN error(FirstBad(half(1)))
      ELSE IF ~AllParse(half(2)) THEN error(FirstBad(half(2)))
      ELSE [err |-> "ok", who |-> 0, R |-> <<SumAll(half(1)), SumAll(half(2))>>]

SessionError(err, who) ==
  [err |-> err, who |-> who, Q |-> INF, gacc |-> 1, tacc |-> 0,
   b |-> 0, R |-> INF, e |-> 0, placeholder |-> FALSE]

\* placeholder records that the aggregate nonce is the point at infinity, for
\* which session_values takes G.
SessionOf(ctx, key) ==
  LET x_Q == XOnly(key.Q)
      R_1 == IF ctx.adaptor = NoAdaptor THEN ctx.aggNonce[1]
             ELSE Add(ctx.aggNonce[1], ctx.adaptor)
      R_2 == ctx.aggNonce[2]
      b   == NonceCoeffHash[R_1, R_2, x_Q, ctx.msg]
      R0  == Add(R_1, Mult(b, R_2))
      R   == IF R0 = INF THEN G ELSE R0
      e   == Challenge[XOnly(R), x_Q, ctx.msg]
  IN  IF key.err # "ok" THEN SessionError(key.err, key.who)
      ELSE IF Bad \in {ctx.aggNonce[1], ctx.aggNonce[2]} THEN SessionError("aggnonce", 0)
      ELSE IF ctx.adaptor = Bad THEN SessionError("adaptor", 0)
      ELSE IF e = 0 THEN SessionError("zero challenge", 0)
      ELSE [err |-> "ok", who |-> 0, Q |-> key.Q, gacc |-> key.gacc, tacc |-> key.tacc,
            b |-> b, R |-> R, e |-> e, placeholder |-> R0 = INF]
SessionValues(ctx) == SessionOf(ctx, KeyAggAndTweak(ctx.pks, ctx.tweaks))

IsSigner(ctx, pk) == \E i \in DOMAIN ctx.pks : ctx.pks[i] = pk

\* The sign by which the private keys enter the signature.
SignOf(v) == IF HasOddY(v.Q) THEN n - 1 ELSE 1

\* Slips: the last reduction forgotten; the nonces of an odd R not negated.
PartialSigUnreduced(v, coeff, k_1, k_2, d_) ==
  k_1 + v.b * k_2 + v.e * coeff * ((SignOf(v) * v.gacc * d_) % n)
PartialSigUnflipped(v, coeff, k_1, k_2, d_) ==
  PartialSigUnreduced(v, coeff, k_1, k_2, d_) % n

\* What sign computes once nothing is left to refuse.
PartialSig(v, coeff, k_1, k_2, d_) ==
  LET flip(k) == IF HasOddY(v.R) THEN n - k ELSE k
      d == (SignOf(v) * v.gacc * d_) % n
  IN  (flip(k_1) + v.b * flip(k_2) + v.e * coeff * d) % n

\* Slip: the others' nonce taken for the aggregate of all.
DeterministicSessionOfOthers(pks, tweaks, msg, other, pubNonce) ==
  [err |-> IF Bad \in {other[1], other[2]} THEN "aggothernonce" ELSE "ok",
   ctx |-> [pks |-> pks, tweaks |-> tweaks, msg |-> msg,
            adaptor |-> NoAdaptor, aggNonce |-> other]]

\* deterministic_sign aggregates the others' nonce as if it were one more
\* public nonce, whose halves may not be infinite.
DeterministicSession(pks, tweaks, msg, other, pubNonce) ==
  LET parsed == <<IF other[1] = INF THEN Bad ELSE other[1],
                  IF other[2] = INF THEN Bad ELSE other[2]>>
      agg == NonceAgg(<<pubNonce, parsed>>)
  IN  [err |-> IF agg.err = "ok" THEN "ok" ELSE "aggothernonce",
       ctx |-> [pks |-> pks, tweaks |-> tweaks, msg |-> msg,
                adaptor |-> NoAdaptor, aggNonce |-> agg.R]]

-----------------------------------------------------------------------------
(***************************************************************************)
(* Verification, aggregation, adaptor completion: functions of their       *)
(* arguments, which leave every buffer and session as it was.              *)
(***************************************************************************)

\* "raises" stands for the errors, TRUE and FALSE for the answers.
VerifyShare(v, s, pubNonce, pk, ctx) ==
  LET R_s == Add(pubNonce[1], Mult(v.b, pubNonce[2]))
      g == (SignOf(v) * v.gacc) % n
      rhs == Add(FlipIfOdd(v.R, R_s), Mult((v.e * KeyAggCoeff(ctx.pks, pk) * g) % n, pk))
  IN  IF v.err # "ok" THEN "raises"
      ELSE IF s >= n THEN "false"
      ELSE IF Bad \in {pubNonce[1], pubNonce[2], pk} \/ ~IsSigner(ctx, pk) THEN "raises"
      ELSE IF Mult(s, G) = rhs THEN "true" ELSE "false"
PartialSigVerify_(s, pubNonce, pk, ctx) ==
  VerifyShare(SessionValues(ctx), s, pubNonce, pk, ctx)

\* Slip: the key of another signer than the nonce.
PartialSigVerifyFirstKey(s, pubNonces, pks, tweaks, msg, i) ==
  LET agg == NonceAgg(pubNonces)
      ctx == [pks |-> pks, tweaks |-> tweaks, msg |-> msg,
              adaptor |-> NoAdaptor, aggNonce |-> agg.R]
  IN  IF agg.err # "ok" THEN "raises" ELSE PartialSigVerify_(s, pubNonces[i], pks[1], ctx)

\* The variant that aggregates the nonces itself, for signer i.
PartialSigVerify(s, pubNonces, pks, tweaks, msg, i) ==
  LET agg == NonceAgg(pubNonces)
      ctx == [pks |-> pks, tweaks |-> tweaks, msg |-> msg,
              adaptor |-> NoAdaptor, aggNonce |-> agg.R]
  IN  IF Len(pubNonces) # Len(pks) \/ i \notin DOMAIN pks \/ agg.err # "ok" THEN "raises"
      ELSE PartialSigVerify_(s, pubNonces[i], pks[i], ctx)

\* Slip: the tweaks' share added whatever the parity of the tweaked key.
AggregateUnsigned(psigs, v) ==
  [err |-> v.err, who |-> v.who, r |-> XOnly(v.R), s |-> (SumAll(psigs) + v.e * v.tacc) % n]

\* The sum of the partial signatures, with the tweaks' share added once.
Aggregate(psigs, v) ==
  LET tooBig == {i \in DOMAIN psigs : psigs[i] >= n}
      error(err, who) == [err |-> err, who |-> who, r |-> INF, s |-> 0]
  IN  IF v.err # "ok" THEN error(v.err, v.who)
      ELSE IF tooBig # {} THEN error("psig", CHOOSE i \in tooBig : \A j \in tooBig : i <= j)
      ELSE [err |-> "ok", who |-> 0, r |-> XOnly(v.R),
            s |-> (SumAll(psigs) + v.e * SignOf(v) * v.tacc) % n]
AggS(psigs, ctx) == Aggregate(psigs, SessionValues(ctx))

\* partial_sig_agg and partial_sig_agg_adaptor: the same sum, each refusing
\* the sessions of the other.
PartialSigAgg(psigs, ctx) ==
  IF ctx.adaptor # NoAdaptor THEN [err |-> "adaptor session", who |-> 0, r |-> INF, s |-> 0]
  ELSE AggS(psigs, ctx)
PartialSigAggAdaptor(psigs, ctx) ==
  IF ctx.adaptor = NoAdaptor THEN [err |-> "no adaptor", who |-> 0, r |-> INF, s |-> 0]
  ELSE AggS(psigs, ctx)

\* Slip: the adaptor's secret added whatever the parity of R.
AdaptUnflipped(preSig, t, ctx) == [r |-> preSig.r, s |-> (preSig.s + t) % n]

\* adapt completes a pre-signature with the adaptor's secret; extract_adaptor
\* reads the secret off the completed signature.
Adapt(preSig, t, ctx) ==
  [r |-> preSig.r, s |-> (preSig.s + FlipIfOdd(SessionValues(ctx).R, t)) % n]
ExtractAdaptor(sig, preSig, ctx) ==
  FlipIfOdd(SessionValues(ctx).R, (sig.s - preSig.s) % n)

-----------------------------------------------------------------------------
(***************************************************************************)
(* The state and the calls that change it.                                 *)
(***************************************************************************)
VARIABLES
  secNonce,  \* the buffers: two scalars, zero once consumed, and a public key
  pubNonce,  \* the public nonces
  sessions,  \* the session contexts, each with the slots of its nonces if known
  psigs,     \* the partial signatures sign returned
  detSigs,   \* the results of deterministic_sign
  outcome    \* how the last call ended

vars == <<secNonce, pubNonce, sessions, psigs, detSigs, outcome>>

NoBuffer   == [k_1 |-> 0, k_2 |-> 0, pk |-> INF]
NoPubNonce == <<INF, INF>>

HasBuffer(slot) == secNonce[slot].pk # INF
IsFresh(slot)   == secNonce[slot].k_1 # 0 /\ secNonce[slot].k_2 # 0
Published(slot) == pubNonce[slot] # NoPubNonce

Init ==
  /\ secNonce = [slot \in Slot |-> NoBuffer]
  /\ pubNonce = [slot \in Slot |-> NoPubNonce]
  /\ sessions = << >>
  /\ psigs = {}
  /\ detSigs = {}
  /\ outcome = "ok"

\* Slip: the two public halves swapped.
NonceGenSwapped(slot, pair, pk) ==
  /\ ~Published(slot)
  /\ secNonce' = [secNonce EXCEPT ![slot] = [k_1 |-> pair[1], k_2 |-> pair[2], pk |-> pk]]
  /\ pubNonce' = [pubNonce EXCEPT ![slot] = <<Mult(pair[2], G), Mult(pair[1], G)>>]
  /\ outcome' = "ok"
  /\ UNCHANGED <<sessions, psigs, detSigs>>

\* nonce_gen: the scalars are fresh randomness, the public key is whichever
\* the caller passed.
NonceGen(slot, pair, pk) ==
  /\ ~Published(slot)
  /\ secNonce' = [secNonce EXCEPT ![slot] = [k_1 |-> pair[1], k_2 |-> pair[2], pk |-> pk]]
  /\ pubNonce' = [pubNonce EXCEPT ![slot] = <<Mult(pair[1], G), Mult(pair[2], G)>>]
  /\ outcome' = "ok"
  /\ UNCHANGED <<sessions, psigs, detSigs>>

\* A cosigner elsewhere publishes octets of its own making.
ReceivePubNonce(slot, nonce) ==
  /\ ~Published(slot)
  /\ pubNonce' = [pubNonce EXCEPT ![slot] = nonce]
  /\ outcome' = "ok"
  /\ UNCHANGED <<secNonce, sessions, psigs, detSigs>>

Session(plan, aggNonce, slots) ==
  [pks |-> plan.pks, tweaks |-> plan.tweaks, msg |-> plan.msg,
   adaptor |-> plan.adaptor, aggNonce |-> aggNonce, slots |-> slots]

\* nonce_agg, then SessionContext on what it returned.
OpenSession(plan, slots) ==
  LET agg == NonceAgg([i \in DOMAIN slots |-> pubNonce[slots[i]]])
  IN  /\ Len(sessions) < MaxSessions
      /\ \A i \in DOMAIN slots : Published(slots[i])
      /\ sessions' = IF agg.err = "ok" THEN Append(sessions, Session(plan, agg.R, slots))
                     ELSE sessions
      /\ outcome' = agg.err
      /\ UNCHANGED <<secNonce, pubNonce, psigs, detSigs>>

\* SessionContext on an aggregate nonce received from the coordinator.
OpenForeignSession(plan, nonce) ==
  /\ Len(sessions) < MaxSessions
  /\ sessions' = Append(sessions, Session(plan, nonce, << >>))
  /\ outcome' = "ok"
  /\ UNCHANGED <<secNonce, pubNonce, psigs, detSigs>>

\* Slips: the buffer zeroed only when the call fails; the buffer zeroed before
\* the session is known to come together.
SignKeepsNonce(slot, d_, i) ==
  LET v == SessionValues(sessions[i])
      nonce == secNonce[slot]
  IN  /\ HasBuffer(slot) /\ v.err = "ok" /\ IsFresh(slot)
      /\ d_ = nonce.pk /\ IsSigner(sessions[i], d_)
      /\ psigs' = psigs \cup
           {[slot |-> slot, session |-> i,
             s |-> PartialSig(v, KeyAggCoeff(sessions[i].pks, d_), nonce.k_1, nonce.k_2, d_)]}
      /\ outcome' = "ok"
      /\ UNCHANGED <<secNonce, pubNonce, sessions, detSigs>>
SignZeroesFirst(slot, d_, i) ==
  /\ HasBuffer(slot)
  /\ secNonce' = [secNonce EXCEPT ![slot].k_1 = 0, ![slot].k_2 = 0]
  /\ outcome' = SessionValues(sessions[i]).err
  /\ UNCHANGED <<pubNonce, sessions, psigs, detSigs>>

\* sign computes the values of the session first, so that a session that does
\* not come together raises with the nonce still in the buffer; then it reads
\* the two scalars and zeroes them, before anything else can fail.
Sign(slot, d_, i) ==
  LET v == SessionValues(sessions[i])
      nonce == secNonce[slot]
  IN  /\ HasBuffer(slot)
      /\ IF v.err # "ok"
         THEN /\ outcome' = v.err
              /\ UNCHANGED <<secNonce, psigs>>
         ELSE /\ secNonce' = [secNonce EXCEPT ![slot].k_1 = 0, ![slot].k_2 = 0]
              /\ outcome' = IF ~IsFresh(slot) THEN "nonce range"
                            ELSE IF d_ \notin 1..(n - 1) THEN "private key"
                            ELSE IF d_ # nonce.pk THEN "other key"
                            ELSE IF ~IsSigner(sessions[i], nonce.pk) THEN "not a signer"
                            ELSE "ok"
              /\ psigs' = IF outcome' # "ok" THEN psigs
                          ELSE psigs \cup
                            {[slot |-> slot, session |-> i,
                              s |-> PartialSig(v, KeyAggCoeff(sessions[i].pks, d_),
                                               nonce.k_1, nonce.k_2, d_)]}
      /\ UNCHANGED <<pubNonce, sessions, detSigs>>

\* deterministic_sign: the two scalars are hashes (of the key, the others'
\* nonce, the aggregate key and the message), the buffer is its own.
DeterministicSign(d_, pair, plan, other) ==
  LET key == KeyAggAndTweak(plan.pks, plan.tweaks)
      mine == <<Mult(pair[1], G), Mult(pair[2], G)>>
      det == DeterministicSession(plan.pks, plan.tweaks, plan.msg, other, mine)
      v == SessionValues(det.ctx)
  IN  /\ Cardinality(detSigs) < MaxDetSigs
      /\ outcome' = IF key.err # "ok" THEN key.err
                    ELSE IF det.err # "ok" THEN det.err
                    ELSE IF v.err # "ok" THEN v.err
                    ELSE IF ~IsSigner(plan, d_) THEN "not a signer"
                    ELSE "ok"
      /\ detSigs' = IF outcome' # "ok" THEN detSigs
                    ELSE detSigs \cup
                      {[pk |-> d_, pubNonce |-> mine, other |-> other, ctx |-> det.ctx,
                        s |-> PartialSig(v, KeyAggCoeff(plan.pks, d_), pair[1], pair[2], d_)]}
      /\ UNCHANGED <<secNonce, pubNonce, sessions, psigs>>

Next ==
  \/ \E slot \in Slot, pair \in NoncePairs, pk \in PrvKeys : NonceGen(slot, pair, pk)
  \/ \E slot \in Slot, nonce \in ForeignPubNonce : ReceivePubNonce(slot, nonce)
  \/ \E plan \in Plans : \E slots \in [DOMAIN plan.pks -> Slot] : OpenSession(plan, slots)
  \/ \E plan \in Plans, nonce \in ForeignNonce : OpenForeignSession(plan, nonce)
  \/ \E slot \in Slot, d_ \in PrvKeys \cup {0}, i \in DOMAIN sessions : Sign(slot, d_, i)
  \/ \E d_ \in PrvKeys, pair \in NoncePairs, plan \in Plans, other \in ForeignNonce :
       DeterministicSign(d_, pair, plan, other)

Spec == Init /\ [][Next]_vars

-----------------------------------------------------------------------------
(***************************************************************************)
(* Properties.                                                             *)
(***************************************************************************)
Outcomes == {"ok", "pubkey", "infinite key", "tweak range", "pubnonce", "aggnonce",
             "adaptor", "zero challenge", "nonce range", "private key", "other key",
             "not a signer", "aggothernonce"}

\* Every variable has its type.  A buffer holds two scalars below n, both zero
\* or neither, and the public nonce of a slot with a buffer parses.
TypeOK ==
  /\ secNonce \in [Slot -> [k_1 : Scalar, k_2 : Scalar, pk : Point]]
  /\ pubNonce \in [Slot -> ExtEncoding \X ExtEncoding]
  /\ sessions \in Seq([pks : KeyLists, tweaks : Seq(Tweak), msg : Msg,
                       adaptor : Encoding \cup {NoAdaptor},
                       aggNonce : ExtEncoding \X ExtEncoding, slots : Seq(Slot)])
  /\ psigs \subseteq [slot : Slot, session : Nat, s : Scalar]
  /\ \A p \in psigs : p.session \in DOMAIN sessions
  /\ \A d \in detSigs : d.s \in Scalar /\ d.pk \in Finite
  /\ outcome \in Outcomes

\* A secret nonce answers for one session only: two partial signatures made
\* with one nonce would reveal the private key.  sign zeroes the buffer before
\* it can return or fail, whichever sessions its caller tries it on.
NonceSignsOnce ==
  \A p, q \in psigs : p.slot = q.slot => p = q

\* While its scalars are in the buffer a nonce is the one published under its
\* slot, and once a partial signature was made with it the buffer is empty: what
\* keeps NonceSignsOnce and PartialSigsVerify true from call to call.
BuffersMatch ==
  /\ \A slot \in Slot :
       /\ HasBuffer(slot) => pubNonce[slot] \in Finite \X Finite
       /\ IsFresh(slot) => /\ HasBuffer(slot)
                          /\ pubNonce[slot] = <<secNonce[slot].k_1, secNonce[slot].k_2>>
  /\ \A p \in psigs : HasBuffer(p.slot) /\ ~IsFresh(p.slot)

\* The partial signature sign returns is one partial_sig_verify_ accepts in the
\* same session: the negations of nonce, key and tweak that sign applies are
\* those the verifier expects, for every parity of R, Q and the tweaked keys.
PartialSigsVerify ==
  \A p \in psigs :
    LET ctx == sessions[p.session] IN
    PartialSigVerify_(p.s, pubNonce[p.slot], secNonce[p.slot].pk, ctx) = "true"

\* partial_sig_verify, which aggregates the nonces and opens a session of its
\* own, gives the answer of partial_sig_verify_ in the session the coordinator
\* opened with the same nonces.
WrapperAgrees ==
  \A i \in DOMAIN sessions :
    LET ctx == sessions[i]
        nonces == [j \in DOMAIN ctx.slots |-> pubNonce[ctx.slots[j]]]
    IN  ctx.adaptor = NoAdaptor =>
          \A j \in DOMAIN ctx.slots, s \in 0..n :
            PartialSigVerify(s, nonces, ctx.pks, ctx.tweaks, ctx.msg, j)
              = PartialSigVerify_(s, nonces[j], ctx.pks[j], ctx)

\* deterministic_sign, whose nonce buffer and session no caller sees, returns a
\* public nonce and a partial signature that fit the session the others open
\* with that nonce added to theirs.
DetSigsVerify ==
  \A d \in detSigs :
    LET all == <<Add(d.pubNonce[1], d.other[1]), Add(d.pubNonce[2], d.other[2])>>
    IN  PartialSigVerify_(d.s, d.pubNonce, d.pk, [d.ctx EXCEPT !.aggNonce = all]) = "true"

\* Every partial signature of a session of aggregated nonces has been accepted.
AllAccepted(s, ctx) ==
  \A j \in DOMAIN ctx.pks :
    PartialSigVerify_(s[j], pubNonce[ctx.slots[j]], ctx.pks[j], ctx) = "true"

\* The sessions whose aggregate nonce came out of nonce_agg and is not the
\* point at infinity, for which session_values takes a placeholder.
Regular(ctx) ==
  /\ ctx.slots # << >>
  /\ SessionValues(ctx).err = "ok"
  /\ ~SessionValues(ctx).placeholder

SignatureVerifies(sig, ctx) ==
  SchnorrVerifies(XOnly(SessionValues(ctx).Q), ctx.msg, sig.r, sig.s)
IsValid(agg, ctx) == agg.err = "ok" /\ SignatureVerifies(agg, ctx)

\* If the signature partial_sig_agg returns is invalid, partial_sig_verify_
\* rejects one of the partial signatures: whoever spoiled the session can be
\* named.  Stated the other way round, for any partial signatures at all: those
\* that are all accepted aggregate to a valid BIP340 signature.
IdentifiableAbort ==
  \A i \in DOMAIN sessions :
    LET ctx == sessions[i] IN
    (Regular(ctx) /\ ctx.adaptor = NoAdaptor) =>
      \A s \in [DOMAIN ctx.pks -> Scalar] :
        AllAccepted(s, ctx) => IsValid(PartialSigAgg(s, ctx), ctx)

\* A pre-signature becomes a signature with the adaptor's secret only.
CompletesWith(pre, t, ctx) ==
  /\ SignatureVerifies(Adapt(pre, t, ctx), ctx) <=> Mult(t, G) = ctx.adaptor
  /\ ExtractAdaptor(Adapt(pre, t, ctx), pre, ctx) = t

\* With an adaptor the aggregate is a pre-signature: adapt makes a valid
\* signature of it with the adaptor's secret and with no other scalar, and
\* extract_adaptor reads that secret off the signature.
AdaptorCompletes ==
  \A i \in DOMAIN sessions :
    LET ctx == sessions[i] IN
    (Regular(ctx) /\ ctx.adaptor # NoAdaptor) =>
      \A s \in [DOMAIN ctx.pks -> Scalar] :
        AllAccepted(s, ctx) =>
          \A t \in Finite : CompletesWith(PartialSigAggAdaptor(s, ctx), t, ctx)

\* The error that names a culprit never names a signer who did as told: neither
\* nonce_agg its nonce, nor the aggregation its partial signature.
HonestNeverBlamed ==
  /\ \A slots \in [1..2 -> Slot] :
       LET agg == NonceAgg([i \in DOMAIN slots |-> pubNonce[slots[i]]])
       IN  agg.err = "pubnonce" => ~HasBuffer(slots[agg.who])
  /\ \A p \in psigs, s \in 0..n :
       LET agg == AggS(<<s, p.s>>, sessions[p.session])
       IN  agg.err = "psig" => agg.who = 1

\* The slots as OneTimeNonce sees them, and the errors of a call that read one.
NonceState ==
  [slot \in Slot |-> IF ~HasBuffer(slot) THEN "none"
                     ELSE IF IsFresh(slot) THEN "fresh" ELSE "spent"]
Answered == [slot \in Slot |-> {p.session : p \in {q \in psigs : q.slot = slot}}]

\* The promise of OneTimeNonce: signing, misuse and refusal do to the buffers
\* exactly what it allows.
Promise == INSTANCE OneTimeNonce
  WITH SessionId <- 1..MaxSessions, state <- NonceState, answered <- Answered,
       Misuse <- {"private key", "other key", "not a signer"}
OneTimeNonces == Promise!Spec
=============================================================================
