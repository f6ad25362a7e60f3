----------------------------- MODULE AntiExfil -----------------------------
(***************************************************************************)
(* Sign-to-contract and the anti-exfil exchange, of ecc/dsa.py and         *)
(* ecc/ssa.py alike (constant Scheme), over ecc/commit_nonce.py.           *)
(*                                                                         *)
(* The library gives the five steps as functions; who calls them, in which *)
(* order and over which wire is described by the docstring of              *)
(* anti_exfil_host_commit.  Here a host runs one exchange, with restarts,  *)
(* over a network that loses, repeats and reorders: a set of messages that *)
(* only grows.  The device keeps no state: it answers whatever it is       *)
(* asked, by this host or by others, in any order and any number of times. *)
(* Or it is a cheating one, which sends any point and any signature of its *)
(* key.                                                                    *)
(*                                                                         *)
(* The private key is fixed, and left out of what the hashes depend on.    *)
(***************************************************************************)
EXTENDS CofactorGroup, Sequences

CONSTANTS
  Scheme,      \* "dsa" or "ssa"
  Msg,         \* the messages, reduced as the scheme wants them
  Rho,         \* what a signature may commit to; a host draws one of them
  Aux,         \* the auxiliary randomness callers of sign_ bring
  prvKey,      \* the device's private key
  NonceHash,   \* NonceHash[msg, input]: the nonce derived from an input
  TweakDraws,  \* TweakDraws[R, rho]: the successive tagged hashes of _tweak
  Challenge,   \* Challenge[msg, x_K]: dsa's does not depend on x_K
  MaxRestarts, \* bound: restarts of the exchange
  MaxCalls     \* bound: calls the device answers, or messages it makes up

\* The entropy of a nonce: a hash of what was committed to, what a caller
\* brought, or nothing.
CommitEntropy(x) == <<"committed", x>>
Input == {CommitEntropy(<<rho>>) : rho \in Rho}
         \cup {CommitEntropy(<<aux, rho>>) : aux \in Aux, rho \in Rho}
         \cup {<<"aux", aux>> : aux \in Aux} \cup {<< >>}

AntiExfilAssumption ==
  /\ h = 1
  /\ Scheme \in {"dsa", "ssa"}
  /\ prvKey \in 1..(n - 1)
  /\ NonceHash \in [Msg \X Input -> 1..(n - 1)]
  /\ TweakDraws \in [Finite \X Rho -> Seq(Nat)]
  /\ \A t \in Finite \X Rho : \E i \in DOMAIN TweakDraws[t] :
       TweakDraws[t][i] \in 1..(n - 1)
  /\ Challenge \in [Msg \X (0..(p - 1)) -> Scalar]
  /\ MaxRestarts \in Nat /\ MaxCalls \in Nat

-----------------------------------------------------------------------------
(* Commitments (commit_nonce.py)                                           *)

\* _tweak: draws until one is a scalar, and not zero.
Tweak(R, rho) ==
  LET draws == TweakDraws[R, rho]
      fits(i) == draws[i] \in 1..(n - 1)
  IN  draws[CHOOSE i \in DOMAIN draws : fits(i) /\ \A j \in 1..(i - 1) : ~fits(j)]

\* Slip: the tweak is of the committed value alone.
CommitNonceNoReceipt(k, rho) == (k + Tweak(G, rho)) % n

\* commit_nonce_ and commit_point_: the nonce that commits, 0 if it cannot sign,
\* and its point, from the receipt.
CommitNonce(k, rho) == (k + Tweak(Mult(k, G), rho)) % n
CommitPoint(R, rho) == Add(R, Mult(Tweak(R, rho), G))

\* The coordinate of the nonce point a signature carries; INF is (5, 0).
RawR(K) == LET x == IF K = INF THEN 5 ELSE XOf[K]
           IN  IF Scheme = "dsa" THEN x % n ELSE x

\* Slip: in dsa too the x-coordinate as it comes.
AssertCommitmentUnreduced(rho, R, r) ==
  LET W == CommitPoint(R, rho) IN r = (IF W = INF THEN 5 ELSE XOf[W])

\* _assert_commitment_.
AssertCommitment(rho, R, r) == r = RawR(CommitPoint(R, rho))

-----------------------------------------------------------------------------
(* Signatures                                                              *)

EvenKey(k) == IF Mult(k, G) \in OddY THEN n - k ELSE k

\* What the signature is verified under: in ssa the key of even y, which is
\* also the one signed with.
Key == IF Scheme = "dsa" THEN prvKey ELSE EvenKey(prvKey)

\* _assert_as_valid_ of either scheme, over what Sig.assert_valid asks.
Verifies(msg, r, s) ==
  IF Scheme = "dsa"
  THEN /\ r \in 1..(n - 1) /\ s \in 1..(n - 1)
       /\ LET K == Add(Mult(r * ModInv(s), Mult(Key, G)),
                       Mult(Challenge[msg, r] * ModInv(s), G))
          IN  K # INF /\ RawR(K) = r
  ELSE /\ IsXCoordinate(r) /\ s \in Scalar
       /\ LET c == Challenge[msg, r]
              K == Add(Mult(s, G), Mult(n - c, Mult(Key, G)))
          IN  c # 0 /\ K # INF /\ K \notin OddY /\ XOf[K] = r

Failed == <<"failed">>            \* BTClibEccRuntimeError: a zero on the way
Spoiled == <<"does not verify">>  \* BTClibEccRuntimeError: the check failed

\* _checked_sign_: what was made is verified before it is answered with.
Checked(msg, r, s) == IF Verifies(msg, r, s) THEN <<r, s>> ELSE Spoiled

\* Slip: the negation is off by one.
LowerSOffByOne(s) == IF s > n \div 2 THEN n - 1 - s ELSE s

LowerS(s) == IF s > n \div 2 THEN n - s ELSE s
DsaSign(msg, k) ==
  LET r == RawR(Mult(k, G))
      s == (ModInv(k) * (Challenge[msg, r] + r * Key)) % n
  IN  IF r = 0 \/ s = 0 THEN Failed ELSE Checked(msg, r, LowerS(s))

\* BIP340 signs with the nonce whose point is even.
SsaSign(msg, k) ==
  LET r == RawR(Mult(k, G))
      c == Challenge[msg, r]
  IN  IF c = 0 THEN Failed ELSE Checked(msg, r, (k + c * Key) % n)

\* Slip: the tweaked nonce is signed with as it comes.
FinalNonceUnnegated(k) == k

\* The nonce of a derivation: ssa's (bip340_nonce_) comes back normalised, its
\* receipt being an even point; and the tweaked one is normalised again.
NonceOf(msg, input) ==
  IF Scheme = "dsa" THEN NonceHash[msg, input] ELSE EvenKey(NonceHash[msg, input])
FinalNonce(k) == IF Scheme = "dsa" THEN k ELSE EvenKey(k)

SignWith(msg, k) == IF Scheme = "dsa" THEN DsaSign(msg, k) ELSE SsaSign(msg, k)

\* _sign_commit_, and the commitment path of dsa.sign_.
SignCommit(msg, input, rho) ==
  LET k == CommitNonce(NonceOf(msg, input), rho)
  IN  IF k = 0 THEN Failed ELSE SignWith(msg, FinalNonce(k))

-----------------------------------------------------------------------------
(* The functions of the exchange                                           *)

HostCommit(rho) == CommitEntropy(<<rho>>)

\* anti_exfil_signer_commit: ssa answers with the even point of that x.
SignerCommit(msg, commitment) == Mult(NonceOf(msg, commitment), G)

\* anti_exfil_sign.
AntiExfilSign(msg, rho) == SignCommit(msg, HostCommit(rho), rho)

\* Slip: the signature alone is verified.
HostVerifySignature(msg, sig, rho, R) == Verifies(msg, sig[1], sig[2])

\* anti_exfil_host_verify: verify_ with the commitment and what opens it.
HostVerify(msg, sig, rho, R) ==
  AssertCommitment(rho, R, sig[1]) /\ Verifies(msg, sig[1], sig[2])

\* Slip: the commitment only tweaks the nonce, and does not reach its derivation.
OrdinaryInputUncommitted(aux, commit) ==
  IF Scheme = "dsa" THEN << >> ELSE <<"aux", aux>>

\* sign_: what reaches the nonce of a signature that may commit.
OrdinaryInput(aux, commit) ==
  IF commit = {} THEN (IF Scheme = "dsa" THEN << >> ELSE <<"aux", aux>>)
  ELSE LET rho == CHOOSE x \in commit : TRUE
       IN  CommitEntropy(IF Scheme = "dsa" THEN <<rho>> ELSE <<aux, rho>>)

-----------------------------------------------------------------------------
VARIABLES
  exch,    \* what the exchange is about: the message, the rho drawn
  host,    \* the host: its phase, the point it was promised, the restarts made
  honest,  \* whether the device is what the library makes it
  points,  \* on the wire: answers to step 2
  sigs,    \* on the wire: answers to step 4
  early,   \* history: the points on the wire before rho was first revealed
  made,    \* history: the device's signatures, with what made their nonce
  calls    \* the calls the device has answered
vars == <<exch, host, honest, points, sigs, early, made, calls>>

Init ==
  /\ exch \in [msg : Msg, rho : Rho]
  /\ host = [phase |-> "idle", R |-> INF, restarts |-> 0, sig |-> << >>]
  /\ honest \in BOOLEAN
  /\ points = {} /\ sigs = {} /\ early = {} /\ made = {}
  /\ calls = 0

\* Step 1.
Commit ==
  /\ host.phase = "idle"
  /\ host' = [host EXCEPT !.phase = "committed"]
  /\ UNCHANGED <<exch, honest, points, sigs, early, made, calls>>

Revealed == host.R # INF

\* Step 3: the answer to step 2 is taken, and rho revealed.  After a restart it
\* must be the answer it was.
Reveal(R) ==
  /\ host.phase = "committed"
  /\ IF Revealed /\ R # host.R
     THEN host' = [host EXCEPT !.phase = "aborted"]
     ELSE host' = [host EXCEPT !.phase = "revealed", !.R = R]
  /\ early' = IF Revealed THEN early ELSE points
  /\ UNCHANGED <<exch, honest, points, sigs, made, calls>>

\* Step 5.
Verify(sig) ==
  /\ host.phase = "revealed"
  /\ host' = IF HostVerify(exch.msg, sig, exch.rho, host.R)
             THEN [host EXCEPT !.phase = "accepted", !.sig = sig]
             ELSE [host EXCEPT !.phase = "rejected"]
  /\ UNCHANGED <<exch, honest, points, sigs, early, made, calls>>

\* No answer in time, or a wrong one: the same rho again.
Restart ==
  /\ host.phase \in {"revealed", "rejected"}
  /\ host.restarts < MaxRestarts
  /\ host' = [host EXCEPT !.phase = "committed", !.restarts = @ + 1]
  /\ UNCHANGED <<exch, honest, points, sigs, early, made, calls>>

\* The device answers the host, or others; nobody else has the host's rho.
Answers == calls < MaxCalls /\ calls' = calls + 1
MayAskWith(rho) == rho = exch.rho => Revealed

\* Step 2, at the device.
DeviceCommits(msg, rho) ==
  /\ honest /\ Answers
  /\ rho = exch.rho => host.phase # "idle"
  /\ points' = points \cup {SignerCommit(msg, HostCommit(rho))}
  /\ UNCHANGED <<exch, host, honest, sigs, early, made>>

Record(msg, input, commit, result) ==
  made' = made \cup {[msg |-> msg, input |-> input, commit |-> commit, result |-> result]}

Sent(result) == IF result \in {Failed, Spoiled} THEN {} ELSE {result}

\* Step 4, at the device: the rho it is given need not be the one committed to.
DeviceSigns(msg, rho) ==
  /\ honest /\ Answers /\ MayAskWith(rho)
  /\ Record(msg, HostCommit(rho), {rho}, AntiExfilSign(msg, rho))
  /\ sigs' = sigs \cup Sent(AntiExfilSign(msg, rho))
  /\ UNCHANGED <<exch, host, honest, points, early>>

\* The key also signs outside the exchange.
OrdinarySign(msg, aux, commit) ==
  LET input  == OrdinaryInput(aux, commit)
      result == IF commit = {} THEN SignWith(msg, NonceOf(msg, input))
                ELSE SignCommit(msg, input, CHOOSE rho \in commit : TRUE)
  IN  /\ honest /\ Answers
      /\ \A rho \in commit : MayAskWith(rho)
      /\ Record(msg, input, commit, result)
      /\ UNCHANGED <<exch, host, honest, points, sigs, early>>

\* A device that does as it likes.
Cheat ==
  /\ ~honest /\ Answers
  /\ \/ /\ \E R \in Finite : points' = points \cup {R}
        /\ UNCHANGED sigs
     \/ /\ \E k \in 1..(n - 1) : sigs' = sigs \cup Sent(SignWith(exch.msg, FinalNonce(k)))
        /\ UNCHANGED points
  /\ UNCHANGED <<exch, host, honest, early, made>>

AtMostOne(S) == {{}} \cup {{x} : x \in S}

Next ==
  \/ Commit
  \/ \E R \in points : Reveal(R)
  \/ \E sig \in sigs : Verify(sig)
  \/ Restart
  \/ \E msg \in Msg, rho \in Rho : DeviceCommits(msg, rho) \/ DeviceSigns(msg, rho)
  \/ \E msg \in Msg, aux \in Aux, commit \in AtMostOne(Rho) : OrdinarySign(msg, aux, commit)
  \/ Cheat

Spec == Init /\ [][Next]_vars

-----------------------------------------------------------------------------
(* Properties                                                              *)

\* The host's state, the wire and the histories have their types; a point is
\* promised exactly once rho is out.
TypeOK ==
  /\ host.phase \in {"idle", "committed", "revealed", "accepted", "rejected", "aborted"}
  /\ host.R \in Point /\ host.restarts \in 0..MaxRestarts
  /\ points \subseteq Finite /\ early \subseteq points
  /\ \A sig \in sigs : sig[1] \in 0..(p - 1) /\ sig[2] \in Scalar
  /\ \A sn \in made : sn.input \in Input
  /\ calls \in 0..MaxCalls
  /\ host.phase \in {"revealed", "accepted", "rejected"} => Revealed

\* What the protocol is for: whatever the device sends and in whichever order,
\* and however often the exchange is restarted, the nonce of an accepted
\* signature is, up to its sign, a point that was on the wire while rho was
\* secret, moved by the tweak of rho.
OnlyPromisedNonce ==
  host.phase = "accepted" =>
    \E R \in early :
      /\ host.R = R
      /\ Verifies(exch.msg, host.sig[1], host.sig[2])
      /\ host.sig[1] = RawR(Add(R, Mult(Tweak(R, exch.rho), G)))

\* The two halves of an honest device meet without state between them: the
\* signature it makes for the host's message and rho is accepted against the
\* point it answers the host's commitment with, whatever else it was asked.
HonestAccepted ==
  \A sn \in made :
    sn.input = HostCommit(exch.rho) /\ sn.msg = exch.msg /\ sn.commit = {exch.rho} =>
      \A sig \in Sent(sn.result) :
        HostVerify(exch.msg, sig, exch.rho, SignerCommit(exch.msg, HostCommit(exch.rho)))

\* A signing call fails for a zero on the way and for no other reason: the
\* parities of the key, of the nonce and of the tweaked nonce are settled.
SigningVerifies == \A sn \in made : sn.result # Spoiled

\* A derivation answers for one signature: whatever the device is asked, the
\* same message and entropy never meet two commitments, nor a commitment and
\* none, so no two signatures share a nonce before its tweak.
NonceSignsOnce ==
  \A s1, s2 \in made :
    s1.msg = s2.msg /\ s1.input = s2.input => s1 = s2

\* A signature that commits opens with the point of its nonce before the tweak.
ReceiptOpens ==
  \A sn \in made : \A rho \in sn.commit, sig \in Sent(sn.result) :
    AssertCommitment(rho, Mult(NonceOf(sn.msg, sn.input), G), sig[1])
=============================================================================
