----------------------------- MODULE MCSessions -----------------------------
(***************************************************************************)
(* Sessions for TLC: requests, accounts, handles and credentials that no   *)
(* property tells apart may be permuted.                                   *)
(***************************************************************************)
EXTENDS Sessions, TLC

Symmetry == Permutations(LoginStarts) \cup Permutations(LoginFinishes)
              \cup Permutations(RegFinishes) \cup Permutations(Logouts)
              \cup Permutations(Handles) \cup Permutations(CredIDs)

(* A bound on the instance: a login has one authenticator and one logout   *)
(* beside it.                                                              *)
BesideALogin ==
    \/ /\ \A r \in LoginStarts : loginPc[r] = "idle"
       /\ \A q \in LoginFinishes : assertPc[q] = "idle"
    \/ /\ \A a, c \in signed \cup db.credentials :
             a.credential_id = c.credential_id
       /\ \A l, m \in Logouts :
             logoutPc[l] # "idle" /\ logoutPc[m] # "idle" => l = m
=============================================================================
