------------------------------- MODULE Frost -------------------------------
(***************************************************************************)
(* BIP445 threshold signatures (ecc/frost.py): any t of the participants   *)
(* sign for the group.  The state is what the callers of the module hold   *)
(* between two calls, as in MuSig2; each call is one step.  Unlike         *)
(* MuSig2's, a secret nonce carries no public key it could be refused by,  *)
(* and the signers of a session are a subset the caller picks.             *)
(***************************************************************************)
EXTENDS SchnorrGroup, Shares

CONSTANTS
  Plans,           \* the sessions one may open, but for the aggregate nonce
  DealtShare,      \* DealtShare[i]: the secret share of participant i
  NonceCoeffHash,  \* NonceCoeffHash[ids, R_1, R_2, x_Q, msg]: coefficient b
  NoncePairs,      \* what the two scalars of a secret nonce may be
  Slot,            \* the nonces of the system, one name each
  ForeignPubNonce, \* public nonces that did not come out of nonce_gen
  ForeignNonce,    \* aggregate nonces that did not come out of nonce_agg
  NoOther,         \* agg_other_nonce=None
  MaxSessions,     \* a bound on the sessions opened
  MaxDetSigs       \* a bound on the calls of deterministic_sign

ExtEncoding == Point \cup {Bad}
Tweak == [t : 0..n, is_xonly : BOOLEAN]   \* t = n: not less than n
Participants == DOMAIN DealtShare
SignerSets == {ToSet(p.ids) : p \in Plans}

\* The order of secp256k1 is a prime: every scalar but zero has an inverse.
FrostAssumption ==
  /\ \A x \in Finite : \E y \in Finite : Mult(x, y) = 1
  /\ MaxParticipants \in Nat /\ MaxParticipants < n
  /\ \A octets \in {Bad, Unknown, NoOther} : octets \notin Int
  /\ Bad # Unknown
  /\ \A p \in Plans : /\ p.ids \in Seq(Int) /\ p.tweaks \in Seq(Tweak)
                      /\ p.pub_shares = Unknown \/ p.pub_shares \in Seq(Encoding)
                      /\ p.thresh_pk \in Encoding /\ p.msg \in Msg
                      /\ p.total \in Int /\ p.t \in Int
  /\ \A ids \in SignerSets, R_1, R_2 \in Point, x_Q \in Finite, msg \in Msg :
       NonceCoeffHash[ids, R_1, R_2, x_Q, msg] \in Scalar
  /\ \A i \in Participants : i \in 0..(n - 2) /\ DealtShare[i] \in Finite
  /\ NoncePairs \subseteq Finite \X Finite
  /\ ForeignPubNonce \subseteq Encoding \X Encoding
  /\ ForeignNonce \subseteq ExtEncoding \X ExtEncoding
  /\ MaxSessions \in Nat /\ MaxDetSigs \in Nat

-----------------------------------------------------------------------------
(***************************************************************************)
(* The tweaked key, the aggregate nonce and the values of a session.       *)
(***************************************************************************)
KeyError(err) == [err |-> err, Q |-> INF, gacc |-> 1, tacc |-> 0]

TweakCtxInit(thresh_pk) ==
  IF thresh_pk = Bad THEN KeyError("threshold key")
  ELSE [err |-> "ok", Q |-> thresh_pk, gacc |-> 1, tacc |-> 0]

ApplyTweak(ctx, tweak) ==
  LET flip == tweak.is_xonly /\ HasOddY(ctx.Q)
      g == IF flip THEN n - 1 ELSE 1
      Q == Add(Mult(g, ctx.Q), Mult(tweak.t, G))
  IN  IF ctx.err # "ok" THEN ctx
      ELSE IF tweak.t >= n THEN KeyError("tweak range")
      ELSE IF Q = INF THEN KeyError("infinite key")
      ELSE [err |-> "ok", Q |-> Q,
            gacc |-> (g * ctx.gacc) % n, tacc |-> (tweak.t + g * ctx.tacc) % n]

\* The key before the first tweak, after the first, and so on.
TweakedKeys(thresh_pk, tweaks) ==
  LET after[i \in 0..Len(tweaks)] ==
        IF i = 0 THEN TweakCtxInit(thresh_pk) ELSE ApplyTweak(after[i - 1], tweaks[i])
  IN  after
ThreshPubkeyAndTweak(thresh_pk, tweaks) == TweakedKeys(thresh_pk, tweaks)[Len(tweaks)]

\* Slip: the index the parsing loop ended with is blamed.
NonceAggLastBad(pubNonces) ==
  [err |-> IF \E i \in DOMAIN pubNonces : Bad \in {pubNonces[i][1], pubNonces[i][2]}
           THEN "pubnonce" ELSE "ok",
   who |-> Len(pubNonces), R |-> <<INF, INF>>]

\* All the first halves are parsed before any second half.
NonceAgg(pubNonces) ==
  LET half(j) == [i \in DOMAIN pubNonces |-> pubNonces[i][j]]
      bad(j) == {i \in DOMAIN pubNonces : pubNonces[i][j] = Bad}
      first(S) == CHOOSE i \in S : \A k \in S : i <= k
  IN  IF bad(1) \cup bad(2) = {}
      THEN [err |-> "ok", who |-> 0, R |-> <<SumAll(half(1)), SumAll(half(2))>>]
      ELSE [err |-> "pubnonce", R |-> <<INF, INF>>,
            who |-> first(IF bad(1) # {} THEN bad(1) ELSE bad(2))]

\* Slip: the signers bound in the order the caller lists them in.
NonceCoeffOrdered(ids, R_1, R_2, x_Q, msg) == NonceCoeffHash[{ids[1]}, R_1, R_2, x_Q, msg]

\* The identifiers are hashed sorted, so in whichever order they are listed.
NonceCoeff(ids, R_1, R_2, x_Q, msg) == NonceCoeffHash[ToSet(ids), R_1, R_2, x_Q, msg]

SessionError(err) ==
  [err |-> err, Q |-> INF, gacc |-> 1, tacc |-> 0,
   b |-> 0, R |-> INF, e |-> 0, placeholder |-> FALSE]

SessionOf(ctx, key) ==
  LET params == ValidateSessionParams(ctx.total, ctx.t, ctx.ids, ctx.pub_shares, ctx.thresh_pk)
      x_Q == XOnly(key.Q)
      R_1 == ctx.aggNonce[1]
      R_2 == ctx.aggNonce[2]
      b   == NonceCoeff(ctx.ids, R_1, R_2, x_Q, ctx.msg)
      R0  == Add(R_1, Mult(b, R_2))
      R   == IF R0 = INF THEN G ELSE R0
      e   == Challenge[XOnly(R), x_Q, ctx.msg]
  IN  IF params # "ok" THEN SessionError(params)
      ELSE IF key.err # "ok" THEN SessionError(key.err)
      ELSE IF Bad \in {R_1, R_2} THEN SessionError("aggnonce")
      ELSE IF e = 0 THEN SessionError("zero challenge")
      ELSE [err |-> "ok", Q |-> key.Q, gacc |-> key.gacc, tacc |-> key.tacc,
            b |-> b, R |-> R, e |-> e, placeholder |-> R0 = INF]
SessionValues(ctx) == SessionOf(ctx, ThreshPubkeyAndTweak(ctx.thresh_pk, ctx.tweaks))

-----------------------------------------------------------------------------
(***************************************************************************)
(* A partial signature, its verification and the aggregation.              *)
(***************************************************************************)
SignOf(v) == IF HasOddY(v.Q) THEN n - 1 ELSE 1

\* What the check of the signer finds once the nonce is gone: sign's errors in
\* the order it raises them.
SignerError(ctx, d_, my_id) ==
  IF d_ \notin 1..(n - 1) THEN "secret share"
  ELSE IF my_id \notin ToSet(ctx.ids) THEN "not a signer"
  ELSE IF ctx.pub_shares # Unknown /\ \E j \in DOMAIN ctx.ids :
            ctx.ids[j] = my_id /\ ctx.pub_shares[j] # Mult(d_, G) THEN "other share"
  ELSE "ok"

\* Slips: the last reduction forgotten; the share entered without its
\* interpolating value.
PartialSigUnreduced(v, ids, my_id, k_1, k_2, d_) ==
  FlipIfOdd(v.R, k_1) + v.b * FlipIfOdd(v.R, k_2) + v.e * ((SignOf(v) * v.gacc * d_) % n)
PartialSigPlain(v, ids, my_id, k_1, k_2, d_) ==
  (FlipIfOdd(v.R, k_1) + v.b * FlipIfOdd(v.R, k_2) + v.e * ((SignOf(v) * v.gacc * d_) % n)) % n

PartialSig(v, ids, my_id, k_1, k_2, d_) ==
  LET d == (SignOf(v) * v.gacc * d_) % n
  IN  (FlipIfOdd(v.R, k_1) + v.b * FlipIfOdd(v.R, k_2)
         + v.e * DeriveInterpolatingValue(ids, my_id) * d) % n

\* "raises" stands for the errors, TRUE and FALSE for the answers.
VerifyShare(v, s, my_id, pubNonce, P, ctx) ==
  LET R_s == Add(pubNonce[1], Mult(v.b, pubNonce[2]))
      g == (SignOf(v) * v.gacc) % n
      a == DeriveInterpolatingValue(ctx.ids, my_id)
  IN  IF v.err # "ok" \/ my_id \notin ToSet(ctx.ids) THEN "raises"
      ELSE IF s >= n \/ Bad \in {pubNonce[1], pubNonce[2], P} THEN "false"
      ELSE IF ctx.pub_shares # Unknown /\ \E j \in DOMAIN ctx.ids :
                ctx.ids[j] = my_id /\ ctx.pub_shares[j] # P THEN "false"
      ELSE IF Mult(s, G) = Add(FlipIfOdd(v.R, R_s), Mult((v.e * a * g) % n, P)) THEN "true"
      ELSE "false"
PartialSigVerify_(s, my_id, pubNonce, P, ctx) ==
  VerifyShare(SessionValues(ctx), s, my_id, pubNonce, P, ctx)

\* Slip: the index taken for the identifier.
PartialSigVerifyByIndex(s, pubNonces, plan, i) ==
  PartialSigVerify_(s, i - 1, pubNonces[i], plan.pub_shares[i],
                    [f \in DOMAIN plan \cup {"aggNonce"} |->
                       IF f = "aggNonce" THEN NonceAgg(pubNonces).R ELSE plan[f]])

\* The variant that aggregates the nonces itself, for the i-th of the signers.
PartialSigVerify(s, pubNonces, plan, i) ==
  LET agg == NonceAgg(pubNonces)
      ctx == [f \in DOMAIN plan \cup {"aggNonce"} |->
                IF f = "aggNonce" THEN agg.R ELSE plan[f]]
  IN  IF Len(pubNonces) # Len(plan.ids) \/ Len(plan.pub_shares) # Len(plan.ids) THEN "raises"
      ELSE IF i \notin DOMAIN plan.ids \/ agg.err # "ok" THEN "raises"
      ELSE PartialSigVerify_(s, plan.ids[i], pubNonces[i], plan.pub_shares[i], ctx)

Aggregate(psigs, v) ==
  LET tooBig == {i \in DOMAIN psigs : psigs[i] >= n}
      error(err, who) == [err |-> err, who |-> who, r |-> INF, s |-> 0]
  IN  IF v.err # "ok" THEN error(v.err, 0)
      ELSE IF tooBig # {} THEN error("psig", CHOOSE i \in tooBig : \A j \in tooBig : i <= j)
      ELSE [err |-> "ok", who |-> 0, r |-> XOnly(v.R),
            s |-> (SumAll(psigs) + v.e * SignOf(v) * v.tacc) % n]

\* Slip: the tweaks' share left out.
PartialSigAggUntweaked(psigs, ctx) ==
  [err |-> SessionValues(ctx).err, who |-> 0,
   r |-> XOnly(SessionValues(ctx).R), s |-> SumAll(psigs)]

PartialSigAgg(psigs, ctx) ==
  IF SessionValues(ctx).err = "ok" /\ Len(psigs) # Len(ctx.ids)
  THEN [err |-> "lengths", who |-> 0, r |-> INF, s |-> 0]
  ELSE Aggregate(psigs, SessionValues(ctx))

-----------------------------------------------------------------------------
(***************************************************************************)
(* The state and the calls that change it.                                 *)
(***************************************************************************)
VARIABLES
  secNonce,  \* the buffers: two scalars, zero once consumed
  pubNonce,  \* the public nonces
  sessions,  \* the session contexts, each with the slots of its nonces if known
  psigs,     \* the partial signatures sign returned
  detSigs,   \* the results of deterministic_sign
  outcome    \* how the last call ended

vars == <<secNonce, pubNonce, sessions, psigs, detSigs, outcome>>

NoBuffer   == << >>
NoPubNonce == <<INF, INF>>

HasBuffer(slot) == secNonce[slot] # NoBuffer
IsFresh(slot)   == HasBuffer(slot) /\ secNonce[slot] # <<0, 0>>
Published(slot) == pubNonce[slot] # NoPubNonce

Init ==
  /\ secNonce = [slot \in Slot |-> NoBuffer]
  /\ pubNonce = [slot \in Slot |-> NoPubNonce]
  /\ sessions = << >>
  /\ psigs = {}
  /\ detSigs = {}
  /\ outcome = "ok"

\* nonce_gen: the scalars are fresh randomness.
NonceGen(slot, pair) ==
  /\ ~Published(slot)
  /\ secNonce' = [secNonce EXCEPT ![slot] = pair]
  /\ pubNonce' = [pubNonce EXCEPT ![slot] = <<Mult(pair[1], G), Mult(pair[2], G)>>]
  /\ outcome' = "ok"
  /\ UNCHANGED <<sessions, psigs, detSigs>>

\* A cosigner elsewhere publishes octets of its own making.
ReceivePubNonce(slot, nonce) ==
  /\ ~Published(slot)
  /\ pubNonce' = [pubNonce EXCEPT ![slot] = nonce]
  /\ outcome' = "ok"
  /\ UNCHANGED <<secNonce, sessions, psigs, detSigs>>

Session(plan, aggNonce, slots) ==
  [total |-> plan.total, t |-> plan.t, ids |-> plan.ids, pub_shares |-> plan.pub_shares,
   thresh_pk |-> plan.thresh_pk, tweaks |-> plan.tweaks, msg |-> plan.msg,
   aggNonce |-> aggNonce, slots |-> slots]

\* nonce_agg, then SessionContext on what it returned.
OpenSession(plan, slots) ==
  LET agg == NonceAgg([i \in DOMAIN slots |-> pubNonce[slots[i]]])
  IN  /\ Len(sessions) < MaxSessions
      /\ \A i \in DOMAIN slots : Published(slots[i])
      /\ sessions' = IF agg.err = "ok" THEN Append(sessions, Session(plan, agg.R, slots))
                     ELSE sessions
      /\ outcome' = agg.err
      /\ UNCHANGED <<secNonce, pubNonce, psigs, detSigs>>

\* SessionContext on an aggregate nonce received from the coordinator.
OpenForeignSession(plan, nonce) ==
  /\ Len(sessions) < MaxSessions
  /\ sessions' = Append(sessions, Session(plan, nonce, << >>))
  /\ outcome' = "ok"
  /\ UNCHANGED <<secNonce, pubNonce, psigs, detSigs>>

Signed(slot, i, my_id, d_, v) ==
  [slot |-> slot, session |-> i, my_id |-> my_id, d_ |-> d_,
   s |-> PartialSig(v, sessions[i].ids, my_id, secNonce[slot][1], secNonce[slot][2], d_)]

\* Slips: the nonce zeroed once the signature is made, so not when the call is
\* refused; the nonce zeroed before the session is known to come together.
SignZeroesLast(slot, d_, my_id, i) ==
  LET v == SessionValues(sessions[i])
  IN  /\ IsFresh(slot) /\ v.err = "ok"
      /\ outcome' = SignerError(sessions[i], d_, my_id)
      /\ psigs' = IF outcome' # "ok" THEN psigs
                  ELSE psigs \cup {Signed(slot, i, my_id, d_, v)}
      /\ UNCHANGED <<secNonce, pubNonce, sessions, detSigs>>
SignZeroesFirst(slot, d_, my_id, i) ==
  /\ HasBuffer(slot)
  /\ secNonce' = [secNonce EXCEPT ![slot] = <<0, 0>>]
  /\ outcome' = SessionValues(sessions[i]).err
  /\ UNCHANGED <<pubNonce, sessions, psigs, detSigs>>

\* sign: a session that does not come together raises with the nonce still in
\* the buffer; past that the two scalars are read and zeroed, whatever follows.
Sign(slot, d_, my_id, i) ==
  LET v == SessionValues(sessions[i])
  IN  /\ HasBuffer(slot)
      /\ IF v.err # "ok"
         THEN /\ outcome' = v.err
              /\ UNCHANGED <<secNonce, psigs>>
         ELSE /\ secNonce' = [secNonce EXCEPT ![slot] = <<0, 0>>]
              /\ outcome' = IF ~IsFresh(slot) THEN "nonce range"
                            ELSE SignerError(sessions[i], d_, my_id)
              /\ psigs' = IF outcome' # "ok" THEN psigs
                          ELSE psigs \cup {Signed(slot, i, my_id, d_, v)}
      /\ UNCHANGED <<pubNonce, sessions, detSigs>>

\* Slip: the signers left out of the hash.
DetInputNoSigners(d_, my_id, ids, other, x_Q, msg) == <<d_, my_id, other, x_Q, msg>>

\* What the deterministic nonce is a hash of; the signers are hashed sorted.
DetInput(d_, my_id, ids, other, x_Q, msg) == <<d_, my_id, ToSet(ids), other, x_Q, msg>>

\* Slip: the others' nonce taken for the aggregate of all.
DeterministicAggOthers(pubNonce_, other) ==
  [err |-> "ok", who |-> 0, R |-> IF other = NoOther \/ Bad \in {other[1], other[2]} THEN pubNonce_ ELSE other]

\* deterministic_sign aggregates the others' nonce, if there is any, as if it
\* were one more public nonce, whose halves may not be infinite.
DeterministicAgg(pubNonce_, other) ==
  IF other = NoOther THEN [err |-> "ok", who |-> 0, R |-> pubNonce_]
  ELSE NonceAgg(<<pubNonce_, [j \in 1..2 |-> IF other[j] = INF THEN Bad ELSE other[j]]>>)

\* The pair is what the hash answers: any for an input not seen before, the
\* same one for the same input.
DeterministicSign(d_, my_id, pair, plan, other) ==
  LET params == ValidateSessionParams(plan.total, plan.t, plan.ids, plan.pub_shares, plan.thresh_pk)
      key == ThreshPubkeyAndTweak(plan.thresh_pk, plan.tweaks)
      input == DetInput(d_, my_id, plan.ids, other, XOnly(key.Q), plan.msg)
      mine == <<Mult(pair[1], G), Mult(pair[2], G)>>
      agg == DeterministicAgg(mine, other)
      ctx == Session(plan, agg.R, << >>)
      v == SessionValues(ctx)
  IN  /\ Cardinality(detSigs) < MaxDetSigs
      /\ \A d \in detSigs : d.input = input => d.pair = pair
      /\ outcome' = IF params # "ok" THEN params
                    ELSE IF key.err # "ok" THEN key.err
                    ELSE IF agg.err # "ok" THEN "aggothernonce"
                    ELSE IF v.err # "ok" THEN v.err
                    ELSE SignerError(ctx, d_, my_id)
      /\ detSigs' = IF outcome' # "ok" THEN detSigs
                    ELSE detSigs \cup
                      {[input |-> input, pair |-> pair, my_id |-> my_id, d_ |-> d_,
                        other |-> other, plan |-> plan, ctx |-> ctx,
                        s |-> PartialSig(v, plan.ids, my_id, pair[1], pair[2], d_)]}
      /\ UNCHANGED <<secNonce, pubNonce, sessions, psigs>>

SecShares == {DealtShare[i] : i \in Participants}

Next ==
  \/ \E slot \in Slot, pair \in NoncePairs : NonceGen(slot, pair)
  \/ \E slot \in Slot, nonce \in ForeignPubNonce : ReceivePubNonce(slot, nonce)
  \/ \E plan \in Plans : \E slots \in [DOMAIN plan.ids -> Slot] : OpenSession(plan, slots)
  \/ \E plan \in Plans, nonce \in ForeignNonce : OpenForeignSession(plan, nonce)
  \/ \E slot \in Slot, d_ \in SecShares \cup {0}, my_id \in Participants, i \in DOMAIN sessions :
       Sign(slot, d_, my_id, i)
  \/ \E my_id \in Participants, pair \in NoncePairs, plan \in Plans,
        other \in ForeignNonce \cup {NoOther} :
       DeterministicSign(DealtShare[my_id], my_id, pair, plan, other)

Spec == Init /\ [][Next]_vars

-----------------------------------------------------------------------------
(***************************************************************************)
(* Properties.                                                             *)
(***************************************************************************)

\* Every variable has its type; a buffer holds two scalars that are not zero,
\* or two zeros once it was read.
TypeOK ==
  /\ secNonce \in [Slot -> {NoBuffer, <<0, 0>>} \cup (Finite \X Finite)]
  /\ pubNonce \in [Slot -> ExtEncoding \X ExtEncoding]
  /\ \A i \in DOMAIN sessions : sessions[i].aggNonce \in ExtEncoding \X ExtEncoding
  /\ \A p \in psigs : p.s \in Scalar /\ p.session \in DOMAIN sessions
  /\ \A d \in detSigs : d.s \in Scalar

\* A secret nonce answers for one session, one identifier and one share: two
\* partial signatures made with it would reveal a share of the group's key.
\* No public key beside the scalars helps sign to tell, zeroing them does it.
NonceSignsOnce == \A p, q \in psigs : p.slot = q.slot => p = q

\* The slots as OneTimeNonce sees them.
NonceState ==
  [slot \in Slot |-> IF ~HasBuffer(slot) THEN "none"
                     ELSE IF IsFresh(slot) THEN "fresh" ELSE "spent"]
Answered == [slot \in Slot |-> {p.session : p \in {q \in psigs : q.slot = slot}}]

\* FROST's buffers keep the promise MuSig2's do: signing, misuse and refusal
\* do to them exactly what OneTimeNonce allows.
Promise == INSTANCE OneTimeNonce
  WITH SessionId <- 1..MaxSessions, state <- NonceState, answered <- Answered,
       Misuse <- {"secret share", "not a signer", "other share"}
OneTimeNonces == Promise!Spec

\* The partial signature sign returns is one partial_sig_verify_ accepts with
\* the signer's nonce and the public share of its secret share, for whatever
\* subset signs and whatever the parities of R, of the key and of its tweaks.
PartialSigsVerify ==
  \A p \in psigs :
    PartialSigVerify_(p.s, p.my_id, pubNonce[p.slot], Mult(p.d_, G), sessions[p.session]) = "true"

\* partial_sig_verify, which aggregates the nonces and opens a session of its
\* own, answers as partial_sig_verify_ does in the session the coordinator
\* opened with the same nonces.
WrapperAgrees ==
  \A i \in DOMAIN sessions :
    LET ctx == sessions[i]
        nonces == [j \in DOMAIN ctx.slots |-> pubNonce[ctx.slots[j]]]
        plan == [f \in DOMAIN ctx \ {"aggNonce", "slots"} |-> ctx[f]]
    IN  (ctx.pub_shares # Unknown /\ Len(ctx.pub_shares) = Len(ctx.ids)) =>
          \A j \in DOMAIN ctx.slots, s \in 0..n :
            PartialSigVerify(s, nonces, plan, j)
              = PartialSigVerify_(s, ctx.ids[j], nonces[j], ctx.pub_shares[j], ctx)

\* The sessions whose aggregate nonce came out of nonce_agg and is not the
\* point at infinity, for which session_values takes a placeholder.
Regular(ctx) ==
  /\ ctx.slots # << >>
  /\ SessionValues(ctx).err = "ok"
  /\ ~SessionValues(ctx).placeholder

\* The public shares a verifier has: the session's, or else the dealt ones.
ShareOf(ctx, j) ==
  IF ctx.pub_shares # Unknown THEN ctx.pub_shares[j] ELSE Mult(DealtShare[ctx.ids[j]], G)

\* The key the dealt shares are shares of.
DealtKey == DeriveThreshPubkey(SetToSeq(Participants),
              [i \in 1..Cardinality(Participants) |->
                 Mult(DealtShare[SetToSeq(Participants)[i]], G)])

\* The dealer's polynomial has a degree below t: whichever t or more of the dealt
\* shares are taken, they are shares of the dealt key.
DealtSharesAgree ==
  \A p \in Plans :
    (/\ p.pub_shares = Unknown /\ p.thresh_pk = DealtKey
     /\ ValidateSessionParams(p.total, p.t, p.ids, Unknown, p.thresh_pk) = "ok") =>
      /\ ToSet(p.ids) \subseteq Participants
      /\ DeriveThreshPubkey(p.ids, [j \in DOMAIN p.ids |-> Mult(DealtShare[p.ids[j]], G)])
           = DealtKey

\* Partial signatures that are all accepted aggregate to a valid BIP340
\* signature of the tweaked threshold key, whichever t or more participants
\* sign: who spoiled a session can be named, and every subset signs for the
\* same key.  A session without public shares is one of the dealt key.
IdentifiableAbort ==
  \A i \in DOMAIN sessions :
    LET ctx == sessions[i]
        v == SessionValues(ctx)
    IN  (Regular(ctx) /\ (ctx.pub_shares # Unknown \/ ctx.thresh_pk = DealtKey)) =>
          \A s \in [DOMAIN ctx.ids -> Scalar] :
            (\A j \in DOMAIN ctx.ids :
               PartialSigVerify_(s[j], ctx.ids[j], pubNonce[ctx.slots[j]], ShareOf(ctx, j), ctx)
                 = "true")
            => LET agg == PartialSigAgg(s, ctx) IN
               agg.err = "ok" /\ SchnorrVerifies(XOnly(v.Q), ctx.msg, agg.r, agg.s)

\* The signers of a session in another order, the first one last, are the same
\* session: nonce coefficient, challenge and each signer's partial signature do
\* not change.
OrderFree ==
  \A i \in DOMAIN sessions :
    LET ctx == sessions[i]
        turned == [ctx EXCEPT
          !.ids = Tail(@) \o <<Head(@)>>,
          !.pub_shares = IF @ = Unknown THEN Unknown ELSE Tail(@) \o <<Head(@)>>]
    IN  SessionValues(ctx).err = "ok" =>
          /\ SessionValues(turned) = SessionValues(ctx)
          /\ \A id \in ToSet(ctx.ids) :
               DeriveInterpolatingValue(turned.ids, id) = DeriveInterpolatingValue(ctx.ids, id)

\* A deterministic nonce is made twice only for one and the same partial
\* signature: the group's key and tweaks being the same, its hash binds all
\* that the signature depends on, the set of signers included, which a
\* coordinator could otherwise vary.
DetNonceBindsSession ==
  \A d, e \in detSigs :
    (d.input = e.input /\ d.plan.thresh_pk = e.plan.thresh_pk /\ d.plan.tweaks = e.plan.tweaks)
      => d.s = e.s

\* deterministic_sign returns a public nonce and a partial signature that fit
\* the session the others open with that nonce added to theirs.
DetSigsVerify ==
  \A d \in detSigs :
    LET mine == <<Mult(d.pair[1], G), Mult(d.pair[2], G)>>
        all == IF d.other = NoOther THEN mine
               ELSE <<Add(mine[1], d.other[1]), Add(mine[2], d.other[2])>>
    IN  PartialSigVerify_(d.s, d.my_id, mine, Mult(d.d_, G), [d.ctx EXCEPT !.aggNonce = all])
          = "true"

\* The error that names a culprit never names a signer who did as told: neither
\* nonce_agg its nonce, nor the aggregation its partial signature.
HonestNeverBlamed ==
  /\ \A slots \in [1..2 -> Slot] :
       LET agg == NonceAgg([i \in DOMAIN slots |-> pubNonce[slots[i]]])
       IN  agg.err = "pubnonce" => ~HasBuffer(slots[agg.who])
  /\ \A p \in psigs, s \in 0..n :
       LET agg == PartialSigAgg(<<s, p.s>>, sessions[p.session])
       IN  agg.err = "psig" => agg.who = 1
=============================================================================
