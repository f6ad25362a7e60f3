------------------------------- MODULE Ecdsa -------------------------------
(***************************************************************************)
(* ECDSA (ecc/dsa.py): signing with low s and low r, the check a signer    *)
(* makes of its own signature, verification, and the recovery of the       *)
(* public key from a signature.                                            *)
(*                                                                         *)
(* The functions that only compute are operators.  A signing call is a     *)
(* machine: it is refused, or makes attempts until one has a low r, checks *)
(* the last one and returns.  Calls share no state, so a behaviour is one  *)
(* call.  Between its steps the computation may go wrong, which is what    *)
(* the check is there for: the key may be corrupted before it is used, and *)
(* r or s before they are checked.                                         *)
(*                                                                         *)
(* This is the Python arm.  Options are sets of at most one element, the   *)
(* empty one for None.                                                     *)
(***************************************************************************)
EXTENDS CofactorGroup, Sequences

CONSTANTS
  Commit,       \* values a signature may commit to
  MaxCounter,   \* bound: the grinding counters the hash is told apart for
  LowRBound,    \* 2^(8*n_size - 1): an r below it needs no pad in DER
  Nonce,        \* Nonce[c, q, entropy]: the RFC6979 nonce
  Tweak,        \* Tweak[receipt, commit]: the tagged hash of a commitment
  Requests,     \* the calls that are made
  Faults        \* whether computations may go wrong

\* Extra entropy of the nonce: none, a grinding counter or a commitment.
NoEntropy == << >>
Entropy   == {NoEntropy} \cup {<<i>> : i \in 1..MaxCounter}
                         \cup {<<"s2c", m>> : m \in Commit}

AtMostOne(S) == {{}} \cup {{x} : x \in S}

\* The arguments of a call.  A nonce or a key out of range is refused; INF as
\* a public key stands for octets that are no point.
Request ==
  [c : Scalar, key : 0..n, nonce : AtMostOne(0..n), lowerS : BOOLEAN,
   grind : BOOLEAN, verify : BOOLEAN, given : AtMostOne(Point),
   commit : AtMostOne(Commit)]

ASSUME EcdsaAssumption ==
  /\ MaxCounter \in Nat
  /\ LowRBound \in Nat
  /\ Nonce \in [Scalar \X (1..(n - 1)) \X Entropy -> 1..(n - 1)]
  /\ Tweak \in [Finite \X Commit -> 1..(n - 1)]
  /\ Requests \subseteq Request
  /\ Faults \in BOOLEAN

\* r of some nonce point is low whatever is signed: the search for one ends.
ASSUME GrindAssumption ==
  \A c \in Scalar, q \in 1..(n - 1) :
    \E i \in 0..MaxCounter :
      XOf[Mult(Nonce[c, q, IF i = 0 THEN NoEntropy ELSE <<i>>], G)] % n < LowRBound

\* SEC 1's cofactor, which bounds the key_ids: n comes off an x-coordinate at
\* most h times, and multiples of n are different field elements.  The second is
\* so because p and n are different primes (curve.py:367-377).  By Hasse's bound
\* h + 1 is below p, and the first is so on every curve whose n is above
\* 2*sqrt(p), and so wherever Curve.__init__ says the bound settles the cofactor
\* (n above twice that); it accepts curves with a smaller n too.
ASSUME RecoveryAssumption ==
  /\ p <= n * (h + 1)
  /\ h > 1 => h + 1 < p /\ \A d \in 1..(p - 1) : (d * n) % p # 0

-----------------------------------------------------------------------------
(* Signatures                                                              *)

\* Slip: only r itself is tried as the x-coordinate.
IsSigUnreduced(r, s) == r \in 1..(n - 1) /\ IsXCoordinate(r) /\ s \in 1..(n - 1)

\* Sig.assert_valid: both scalars are in 1..n-1, and some x congruent to r
\* modulo n is the x-coordinate of a point.
IsSig(r, s) ==
  /\ r \in 1..(n - 1)
  /\ \E x \in {r + j * n : j \in 0..(p \div n)} : x < p /\ IsXCoordinate(x)
  /\ s \in 1..(n - 1)

IsLowS(s) == s <= n \div 2
IsLowR(r) == r < LowRBound

\* _sign_recoverable_: a nonce whose r or s is zero cannot sign, nor can a
\* commitment whose tweaked nonce is zero.
RawR(k)       == XOf[Mult(k, G)] % n
RawS(c, q, k) == (ModInv(k) * (c + RawR(k) * q)) % n
Signable(c, q, k) == k # 0 /\ RawR(k) # 0 /\ RawS(c, q, k) # 0

\* Slips: the overflow of r as a flag, which is what it is where the cofactor is
\* 1; the parity kept when s is negated.
KeyIdFlag(K) == 2 * (IF XOf[K] >= n THEN 1 ELSE 0) + Parity(K)
FlipParityForgotten(keyId) == keyId

\* The key_id names what r lost of the nonce point: how many times n came off
\* its x-coordinate, and the parity of its y.
KeyId(K) == 2 * (XOf[K] \div n) + Parity(K)
FlipParity(keyId) == IF keyId % 2 = 0 THEN keyId + 1 ELSE keyId - 1

SignRecoverable_(c, q, k, lowerS) ==
  LET s == RawS(c, q, k)
  IN  IF lowerS /\ ~IsLowS(s)
      THEN [r |-> RawR(k), s |-> n - s, keyId |-> FlipParity(KeyId(Mult(k, G)))]
      ELSE [r |-> RawR(k), s |-> s,     keyId |-> KeyId(Mult(k, G))]

-----------------------------------------------------------------------------
(* Verification                                                            *)

\* Slip: the signer's check asks for a low s, which the caller may have declined.
AssertAsValidLowS(c, Q, r, s) ==
  LET w == ModInv(s)
      K == Add(Mult(r * w, Q), Mult(c * w, G))
  IN  IsLowS(s) /\ K # INF /\ XOf[K] % n = r

\* _assert_as_valid_ without its low-s question, which nobody asks.
NoncePoint(c, Q, r, s) ==
  LET w == ModInv(s)
  IN  Add(Mult(r * w, Q), Mult(c * w, G))
AssertAsValid_(c, Q, r, s) ==
  LET K == NoncePoint(c, Q, r, s)
  IN  K # INF /\ XOf[K] % n = r

\* verify_: the signature is a valid Sig and verifies.
Verify_(c, Q, r, s) == IsSig(r, s) /\ AssertAsValid_(c, Q, r, s)

-----------------------------------------------------------------------------
(* Recovery                                                                *)

\* _recover_pub_key_, step by step: the x-coordinate a key_id asks for, the
\* point it lifts to, the key that point yields.  INF answers a key_id that
\* recovers nothing.
CandidateX(keyId, r) ==
  LET x == r + (keyId \div 2) * n
  IN  IF h = 1 THEN x ELSE x % p

CandidateKey(c, r, s, K) ==
  LET r_1 == ModInv(r)
  IN  Add(Mult(r_1 * s, K), Mult(-(r_1 * c), G))

\* Slip: step 1.4 left out, as before the subgroup was asked about.
RecoverAnyLift(keyId, c, r, s) ==
  LET x == CandidateX(keyId, r)
      Q == CandidateKey(c, r, s, Lift(x, keyId % 2))
  IN  IF /\ x \in 0..(p - 1) /\ IsXCoordinate(x)
         /\ Q # INF
         /\ h = 1 \/ AssertAsValid_(c, Q, r, s)
      THEN Q ELSE INF

RecoverPubKey(keyId, c, r, s) ==
  LET x == CandidateX(keyId, r)
      K == Lift(x, keyId % 2)
      Q == CandidateKey(c, r, s, K)
  IN  IF /\ x \in 0..(p - 1)
         /\ IsXCoordinate(x)
         /\ h = 1 \/ InSubgroup(K)
         /\ Q # INF
         /\ h = 1 \/ AssertAsValid_(c, Q, r, s)
      THEN Q ELSE INF

\* _recover_pub_keys_: every candidate, in the order of the key_ids, those
\* that recover nothing left out.
RecoverPubKeys(c, r, s) ==
  LET upTo[i \in 0..(2 * (h + 1))] ==
        IF i = 0 THEN << >>
        ELSE LET Q == RecoverPubKey(i - 1, c, r, s)
             IN  IF Q = INF THEN upTo[i - 1] ELSE Append(upTo[i - 1], Q)
  IN  upTo[2 * (h + 1)]

-----------------------------------------------------------------------------
(* Commitments (commit_nonce.py)                                           *)

\* commit_nonce_: the nonce tweaked by the commitment, which opens with the
\* point of the nonce before.
CommitNonce(k, m) == (k + Tweak[Mult(k, G), m]) % n

\* commit_point_: the point the nonce became.
CommitPoint(receipt, m) == Add(receipt, Mult(Tweak[receipt, m], G))

\* Slip: r compared with an x-coordinate that is not reduced, as in ssa.
AssertCommitmentUnreduced(m, receipt, r) == r = XOf[CommitPoint(receipt, m)]

\* _assert_commitment_: infinity is (5, 0), so its x-coordinate is 5.
AssertCommitment(m, receipt, r) ==
  LET W == CommitPoint(receipt, m)
  IN  r = (IF W = INF THEN 5 ELSE XOf[W]) % n

-----------------------------------------------------------------------------
(* The signing call                                                        *)

VARIABLES
  phase,     \* idle, signing, checking or done
  call,      \* the arguments of the call
  held,      \* the private key as it is when it is used
  counter,   \* of the grinding loop
  sig,       \* the signature of the last attempt, with its key_id
  receipt,   \* what opens its commitment; INF without one
  faulted,   \* history: whether anything went wrong in this call
  outcome    \* how the call ended
vars == <<phase, call, held, counter, sig, receipt, faulted, outcome>>

NoSig == [r |-> 0, s |-> 0, keyId |-> 0]
Outcomes ==
  {"none", "signed",
   "refused",         \* BTClibEccValueError: an argument, or two that clash
   "failed",          \* BTClibEccRuntimeError: r, s or the tweaked nonce is 0
   "notThisKeys",     \* BTClibEccValueError: the public key given is another's
   "doesNotVerify"}   \* BTClibEccRuntimeError: the computation went wrong

\* The refusals of sign_ before anything is signed.
Refused(req) ==
  \/ req.given # {} /\ ~req.verify
  \/ req.key \notin 1..(n - 1)
  \/ req.commit # {} /\ req.nonce # {}
  \/ req.grind /\ (req.nonce # {} \/ req.commit # {})
  \/ ~(req.given \subseteq PubKey)
  \/ ~(req.nonce \subseteq 1..(n - 1))

\* The key in memory: the caller's, unless it is corrupted.
MayHold(req) == IF Faults /\ ~Refused(req) THEN 1..(n - 1) ELSE {req.key}

\* sign_ and sign_recoverable_: the latter is a call without check, grinding
\* or commitment whose key_id is not dropped.
Call(k) ==
  /\ phase = "idle"
  /\ held' = k
  /\ faulted' = (k # call.key)
  /\ phase'   = IF Refused(call) THEN "done"    ELSE "signing"
  /\ outcome' = IF Refused(call) THEN "refused" ELSE "none"
  /\ UNCHANGED <<call, counter, sig, receipt>>

\* Slips: a counter from the first attempt on; a counter that never reaches the
\* nonce.
GrindEntropyFromOne(i) == <<IF i = 0 THEN 1 ELSE i>>
GrindEntropyLost(i) == NoEntropy

\* _grind_entropy: the first attempt is the plain RFC6979 signature.
GrindEntropy(i) == IF i = 0 THEN NoEntropy ELSE <<i>>

\* The nonce of an attempt before its commitment enters it a second time.
DerivedNonce(req, q, i) ==
  IF req.nonce # {} THEN CHOOSE k \in req.nonce : TRUE
  ELSE Nonce[req.c, q, IF req.commit = {} THEN GrindEntropy(i)
                       ELSE <<"s2c", CHOOSE m \in req.commit : TRUE>>]

FinalNonce(req, k) ==
  IF req.commit = {} THEN k ELSE CommitNonce(k, CHOOSE m \in req.commit : TRUE)

\* A computation that goes wrong gets r or s wrong.
MayCompute(right) ==
  {right} \cup (IF Faults THEN {[right EXCEPT !.r = x] : x \in 1..(n - 1)}
                           \cup {[right EXCEPT !.s = x] : x \in 1..(n - 1)}
                ELSE {})

\* One pass of _grind_low_r, or the one attempt there is.
Attempt ==
  LET k0 == DerivedNonce(call, held, counter)
      k  == FinalNonce(call, k0)
  IN  /\ phase = "signing"
      /\ receipt' = IF call.commit = {} THEN INF ELSE Mult(k0, G)
      /\ UNCHANGED <<call, held>>
      /\ \/ /\ ~Signable(call.c, held, k)
            /\ phase' = "done"
            /\ outcome' = "failed"
            /\ UNCHANGED <<counter, sig, faulted>>
         \/ /\ Signable(call.c, held, k)
            /\ \E made \in MayCompute(SignRecoverable_(call.c, held, k, call.lowerS)) :
                 /\ sig' = made
                 /\ faulted' = (faulted \/ made # SignRecoverable_(call.c, held, k, call.lowerS))
                 /\ IF call.grind /\ ~IsLowR(made.r)
                    THEN /\ counter' = IF counter < MaxCounter THEN counter + 1 ELSE counter
                         /\ UNCHANGED <<phase, outcome>>
                    ELSE /\ phase'   = IF call.verify THEN "checking" ELSE "done"
                         /\ outcome' = IF call.verify THEN "none"     ELSE "signed"
                         /\ UNCHANGED counter

\* _abort_unless_checked: the key given is taken on trust, and the signer's
\* own is derived, from the key in memory, only where that one fails.
CheckedUnder(given, q) == IF given # {} THEN given ELSE {Mult(q, G)}

\* Slip: the trust in a given key taken for a reason not to check.
CheckOutcomeTrusting(given, q, c, r, s) ==
  IF given # {} \/ AssertAsValid_(c, Mult(q, G), r, s) THEN "signed" ELSE "doesNotVerify"

CheckOutcome(given, q, c, r, s) ==
  LET verified(Q) == AssertAsValid_(c, Q, r, s)
  IN  IF \A Q \in CheckedUnder(given, q) : verified(Q)  THEN "signed"
      ELSE IF given # {} /\ verified(Mult(q, G))         THEN "notThisKeys"
      ELSE "doesNotVerify"

Check ==
  /\ phase = "checking"
  /\ phase' = "done"
  /\ outcome' = CheckOutcome(call.given, held, call.c, sig.r, sig.s)
  /\ UNCHANGED <<call, held, counter, sig, receipt, faulted>>

Init ==
  /\ phase = "idle"
  /\ call \in Requests
  /\ held = call.key
  /\ counter = 0
  /\ sig = NoSig
  /\ receipt = INF
  /\ faulted = FALSE
  /\ outcome = "none"

Next ==
  \/ \E k \in MayHold(call) : Call(k)
  \/ Attempt
  \/ Check

\* A call runs on: nothing in it waits.
Fairness == WF_vars(Next)

Spec == Init /\ [][Next]_vars /\ Fairness

-----------------------------------------------------------------------------
(* Properties                                                              *)

Sigs == [r : 0..(n - 1), s : 0..(n - 1), keyId : Int]

\* Every variable has its type, and what is to be checked is in range.
TypeOK ==
  /\ phase \in {"idle", "signing", "checking", "done"}
  /\ call \in Requests
  /\ held \in 0..n
  /\ counter \in 0..MaxCounter
  /\ sig \in Sigs
  /\ receipt \in Point
  /\ faulted \in BOOLEAN
  /\ outcome \in Outcomes
  /\ phase \in {"signing", "checking"} =>
       /\ ~Refused(call)
       /\ held \in 1..(n - 1)
       /\ ~faulted => held = call.key
  /\ phase = "checking" => sig.r \in 1..(n - 1) /\ sig.s \in 1..(n - 1)

OwnKey == Mult(call.key, G)
Signed == phase = "done" /\ outcome = "signed"

\* What sign_ returns needs none of the validation it skips
\* (check_validity=False): r and s are in range and r comes from an
\* x-coordinate, also where n and p differ; the signature verifies under the
\* signer's key, with s and with n - s alike, and s is low where that was
\* asked for.
SignatureVerifies ==
  Signed /\ ~faulted =>
    /\ Verify_(call.c, OwnKey, sig.r, sig.s)
    /\ Verify_(call.c, OwnKey, sig.r, n - sig.s)
    /\ call.lowerS => IsLowS(sig.s)

\* The key_id sign_recoverable_ returns is one of those recover_pub_keys_ tries
\* and recovers the signer's key, through the reduction of x modulo n and the
\* negation of s.  From 2*p below those to 2*p above them no other key_id does,
\* where the curve is of prime order; where it has a cofactor, x is reduced
\* modulo p, and the ones that do are those a multiple of 2*p away
\* (dsa.py:601, 2245-2276).
KeyIdNamesSigner ==
  Signed /\ ~faulted =>
    /\ sig.keyId \in 0..(2 * h + 1)
    /\ \A i \in (-2 * p)..(2 * p + 2 * h + 1) :
         RecoverPubKey(i, call.c, sig.r, sig.s) = OwnKey
           <=> IF h = 1 THEN i = sig.keyId ELSE (i - sig.keyId) % (2 * p) = 0

\* Whatever r and s are, computed or spoiled: recover_pub_keys_ lists exactly
\* the public keys verify_ accepts the signature under, each of them once.
RecoveryListsVerifiers ==
  phase = "done" /\ IsSig(sig.r, sig.s) =>
    LET keys == RecoverPubKeys(call.c, sig.r, sig.s)
    IN  /\ {keys[i] : i \in DOMAIN keys}
             = {Q \in PubKey : Verify_(call.c, Q, sig.r, sig.s)}
        /\ \A i, j \in DOMAIN keys : keys[i] = keys[j] => i = j

\* A caller hears that the computation went wrong only if it did, and that the
\* public key given is not the private key's only if it is not, or the private
\* key was corrupted after the caller named it.
BlamesTheCause ==
  phase = "done" /\ ~faulted =>
    /\ outcome # "doesNotVerify"
    /\ outcome = "notThisKeys" => call.given # {OwnKey}

\* A checked signature that is returned verifies under a key fixed before it
\* existed, however its computation went: the one given, or the one of the
\* private key in memory.  So it has a key to recover.
NothingSpoiledIsReturned ==
  Signed /\ call.verify =>
    \A Q \in CheckedUnder(call.given, held) :
      /\ Verify_(call.c, Q, sig.r, sig.s)
      /\ \E i \in 0..(2 * h + 1) : RecoverPubKey(i, call.c, sig.r, sig.s) = Q

\* A ground signature is the one of the first counter whose r is low, the
\* plain signature where that one is low already: Core's sequence.
CoreNonce(c, q, i) == Nonce[c, q, IF i = 0 THEN NoEntropy ELSE <<i>>]
FirstLowNonce(c, q) ==
  CoreNonce(c, q, CHOOSE i \in 0..MaxCounter :
                    /\ RawR(CoreNonce(c, q, i)) < LowRBound
                    /\ \A j \in 0..(i - 1) : RawR(CoreNonce(c, q, j)) >= LowRBound)
GroundToFirstLow ==
  Signed /\ call.grind /\ ~faulted =>
    sig = SignRecoverable_(call.c, call.key, FirstLowNonce(call.c, call.key), call.lowerS)

\* The receipt returned with a signature that commits opens the commitment,
\* the negation of s notwithstanding.
CommitmentOpens ==
  Signed /\ ~faulted =>
    \A m \in call.commit : receipt # INF /\ AssertCommitment(m, receipt, sig.r)

\* Every call returns: grinding finds its low r.
CallsReturn == <>(phase = "done")
=============================================================================
