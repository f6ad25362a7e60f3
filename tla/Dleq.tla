------------------------------- MODULE Dleq -------------------------------
(***************************************************************************)
(* Discrete logarithm equality proofs (BIP374, ecc/dleq.py): a prover      *)
(* makes proofs of its key, one call after another, and a verifier is      *)
(* handed a claim.                                                         *)
(*                                                                         *)
(* A tagged hash is a word, a number below 2^w, which is not reduced       *)
(* modulo n where it is a challenge; any function stands for it.  An       *)
(* absent message is a message of its own, 32 octets being never none.     *)
(***************************************************************************)
EXTENDS PrimeGroup, FiniteSets, Bitwise

CONSTANTS
  w,                    \* the bits of a word
  Msg,                  \* messages, the absent one included
  Aux,                  \* auxiliary random data
  AuxHash(_),           \* the tagged hashes
  NonceHash(_, _, _, _),
  ChallengeHash(_, _, _, _, _, _, _),
  MaxProofs             \* bound: proofs one prover makes

Word == 0..(2^w - 1)

DleqAssumption ==
  /\ w \in Nat /\ n <= 2^w /\ MaxProofs \in Nat
  /\ \A k \in 1..(n - 1) : \E i \in 1..(n - 1) : (k * i) % n = 1

\* A statement: A is to gen what C is to B, and a message said with it.
Statement == [A : Finite, B : Finite, C : Finite, gen : Finite, msg : Msg]

\* The statement that holds for a key.
StatementOf(a, B, gen, msg) ==
  [A |-> Mult(a, gen), B |-> B, C |-> Mult(a, B), gen |-> gen, msg |-> msg]

Holds(st) == \E a \in 1..(n - 1) : st.A = Mult(a, st.gen) /\ st.C = Mult(a, st.B)

-----------------------------------------------------------------------------
\* _challenge.
Challenge(st, R1, R2) == ChallengeHash(st.A, st.B, st.C, st.gen, R1, R2, st.msg)

\* What the nonce hashes: the key masked by the hash of aux, and the statement.
\* Slip: the message is only in the challenge.
NonceInputMute(a, aux, st) == <<a ^^ AuxHash(aux), st.A, st.C, CHOOSE m \in Msg : TRUE>>
NonceInput(a, aux, st)     == <<a ^^ AuxHash(aux), st.A, st.C, st.msg>>

Nonce(input) == NonceHash(input[1], input[2], input[3], input[4]) % n

\* The points a proof is computed back to.
\* Slip: the base is the same for both.
CommitmentsOneBase(st, e, s) ==
  <<Add(Mult(s, st.gen), Negate(Mult(e, st.A))),
    Add(Mult(s, st.gen), Negate(Mult(e, st.C)))>>
Commitments(st, e, s) ==
  <<Add(Mult(s, st.gen), Negate(Mult(e, st.A))),
    Add(Mult(s, st.B), Negate(Mult(e, st.C)))>>

\* verify_proof.
\* Slip: the challenge is compared modulo n.
AcceptsReduced(st, e, s) ==
  LET R == Commitments(st, e, s)
  IN  s < n /\ INF \notin {R[1], R[2]} /\ e % n = Challenge(st, R[1], R[2]) % n
Accepts(st, e, s) ==
  LET R == Commitments(st, e, s)
  IN  s < n /\ INF \notin {R[1], R[2]} /\ e = Challenge(st, R[1], R[2])

\* The answer of generate_proof to a nonce, ahead of its own check.
\* Slip: s is the nonce less the challenge's share.
ProofSigned(a, st, k) ==
  LET e == Challenge(st, Mult(k, st.gen), Mult(k, st.B))
  IN  [e |-> e, s |-> (k + (n - 1) * ((e * a) % n)) % n]
Proof(a, st, k) ==
  LET e == Challenge(st, Mult(k, st.gen), Mult(k, st.B))
  IN  [e |-> e, s |-> (k + e * a) % n]

-----------------------------------------------------------------------------
VARIABLES
  key,      \* the prover's
  made,     \* the proofs it has made: the statement, the nonce's input, the proof
  failure,  \* the error that ended its last call
  claim     \* what the verifier was handed, with its answer

vars == <<key, made, failure, claim>>

Init ==
  /\ key \in 1..(n - 1)
  /\ made = {} /\ failure = "none" /\ claim = << >>

GenerateProof ==
  /\ Cardinality(made) < MaxProofs /\ claim = << >> /\ failure = "none"
  /\ \E B, gen \in Finite, msg \in Msg, aux \in Aux :
       LET st    == StatementOf(key, B, gen, msg)
           input == NonceInput(key, aux, st)
           k     == Nonce(input)
           proof == Proof(key, st, k)
       IN  IF k = 0
           THEN failure' = "invalid zero nonce" /\ UNCHANGED made
           ELSE IF ~Accepts(st, proof.e, proof.s)
           THEN failure' = "implausible proof failure" /\ UNCHANGED made
           ELSE /\ made' = made \cup {[st |-> st, input |-> input, proof |-> proof]}
                /\ UNCHANGED failure
  /\ UNCHANGED <<key, claim>>

\* A statement and a proof, whoever they come from.
VerifyProof ==
  /\ made = {} /\ claim = << >>
  /\ \E st \in Statement, e, s \in Word :
       claim' = [st |-> st, e |-> e, s |-> s, accepted |-> Accepts(st, e, s)]
  /\ UNCHANGED <<key, made, failure>>

Next == GenerateProof \/ VerifyProof

Spec == Init /\ [][Next]_vars

-----------------------------------------------------------------------------
\* The check generate_proof ends with never fails.
NeverImplausible == failure # "implausible proof failure"

\* Two proofs of one key that drew their nonce from the same hash input are one
\* proof of one statement: a second challenge under the nonce would reveal the
\* key.
NonceProvesOnce ==
  \A m1, m2 \in made : m1.input = m2.input => m1.st = m2.st /\ m1.proof = m2.proof

\* Of a statement that does not hold, the points an accepted proof leads to
\* leave one challenge modulo n that could have been answered: whoever chose
\* them had to be lucky.  Of one that holds any challenge could be.
FalseStatementsHaveOneChallenge ==
  claim # << >> /\ claim.accepted =>
    LET R          == Commitments(claim.st, claim.e, claim.s)
        answerable == {e \in Scalar : \E s \in Scalar : Commitments(claim.st, e, s) = R}
    IN  answerable = IF Holds(claim.st) THEN Scalar ELSE {claim.e % n}

\* An accepted proof has one spelling: neither number of it may be moved by n,
\* though the challenge itself may be n or above.
OneSpelling ==
  claim # << >> /\ claim.accepted =>
    \A e, s \in Word : e % n = claim.e % n /\ s % n = claim.s % n
                        /\ Accepts(claim.st, e, s) => <<e, s>> = <<claim.e, claim.s>>
===========================================================================
