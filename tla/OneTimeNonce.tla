---------------------------- MODULE OneTimeNonce ----------------------------
(***************************************************************************)
(* What the secret nonces of a multi-signature module promise, whatever    *)
(* they sign: a nonce is spent by the first call that reads it, that call  *)
(* answers for at most one session, and a call refused because its session *)
(* does not come together leaves every nonce as it was.                    *)
(***************************************************************************)
CONSTANTS Slot,       \* the nonces
          SessionId,  \* the names of the sessions
          Misuse      \* the errors of a call that had read the nonce

VARIABLES state,    \* "none", "fresh" or "spent"
          answered, \* the sessions each nonce has answered for
          outcome   \* how the last call ended

vars == <<state, answered, outcome>>

Init ==
  /\ state = [slot \in Slot |-> "none"]
  /\ answered = [slot \in Slot |-> {}]
  /\ outcome = "ok"

Generate(slot) ==
  /\ state[slot] = "none"
  /\ state' = [state EXCEPT ![slot] = "fresh"]
  /\ outcome' = "ok"
  /\ UNCHANGED answered

Answer(slot, session) ==
  /\ state[slot] = "fresh"
  /\ state' = [state EXCEPT ![slot] = "spent"]
  /\ answered' = [answered EXCEPT ![slot] = {session}]
  /\ outcome' = "ok"

\* A call with the wrong key, or of no signer of the session: the nonce is
\* gone and nothing was signed.
Burn(slot) ==
  /\ state[slot] = "fresh"
  /\ state' = [state EXCEPT ![slot] = "spent"]
  /\ outcome' \in Misuse
  /\ UNCHANGED answered

\* Any other call, failed or not, touches no nonce.
Other == UNCHANGED <<state, answered>>

Next ==
  \/ \E slot \in Slot : Generate(slot) \/ Burn(slot)
  \/ \E slot \in Slot, session \in SessionId : Answer(slot, session)
  \/ Other

Spec == Init /\ [][Next]_vars
=============================================================================
