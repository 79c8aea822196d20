--------------------------- MODULE Authenticators ---------------------------
(***************************************************************************)
(* The authenticators that answer the challenges of the login slices, and  *)
(* the clients that send their answers.  A client pairs any assertion that *)
(* has been made with any session it knows.                                *)
(***************************************************************************)
EXTENDS SessionsFinish

VARIABLES
    counter,   \* the signature counter inside each authenticator
    signed     \* the assertions that authenticators have made

authenticatorVars == <<counter, signed>>

(* An authenticator advances its counter with every assertion.             *)
Sign(r, k) ==
    /\ Challenged(r)
    /\ counter[k] + 1 \in SignCounts
    /\ counter' = [counter EXCEPT ![k] = @ + 1]
    /\ signed' = signed \cup {[challenge |-> r, credential_id |-> k,
                               sign_count |-> counter[k] + 1]}

(* Sending the same pair again is a retry.                                 *)
AssertArrives(q) ==
    \/ RejectAssertion(q)
    \/ \E id \in LoginStarts \cup {None}, a \in signed :
          AcceptAssertion(q, [id |-> id, signed |-> a])

AuthenticatorInit ==
    /\ counter = [k \in CredIDs |-> 0]
    /\ signed = {}

AuthenticatorTypeOK ==
    /\ counter \in [CredIDs -> Nat]
    /\ signed \in SUBSET Assertion
=============================================================================
