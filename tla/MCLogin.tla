------------------------------ MODULE MCLogin ------------------------------
(***************************************************************************)
(* Login for TLC: requests, accounts, handles and credentials that no      *)
(* property tells apart may be permuted.                                   *)
(***************************************************************************)
EXTENDS Login, TLC

Symmetry == Permutations(LoginStarts) \cup Permutations(LoginFinishes)
              \cup Permutations(RegFinishes)
              \cup Permutations(Handles) \cup Permutations(CredIDs)

(* A bound on the instance: the process restarts when it cuts off a        *)
(* finishing login, or the clock moves when every login was challenged or  *)
(* refused and one at most is being finished, but not both.                *)
RestartOrClock ==
    \/ boots = 0 /\ now = 0
    \/ now = 0 /\ \E q \in LoginFinishes : assertPc[q] = "killed"
    \/ /\ boots = 0
       /\ \A r \in LoginStarts : LoginAtRest(r)
       /\ \A p, q \in LoginFinishes :
             assertPc[p] # "idle" /\ assertPc[q] # "idle" => p = q
=============================================================================
