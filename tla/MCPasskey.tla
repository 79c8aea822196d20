------------------------------ MODULE MCPasskey ------------------------------
(***************************************************************************)
(* Passkey for TLC: requests, handles and credentials that no property     *)
(* tells apart may be permuted.                                            *)
(***************************************************************************)
EXTENDS Passkey, TLC

Symmetry == Permutations(RegStarts) \cup Permutations(RegFinishes)
              \cup Permutations(LoginStarts) \cup Permutations(LoginFinishes)
              \cup Permutations(Logouts)
              \cup Permutations(Handles) \cup Permutations(CredIDs)

(* A bound on the instance: the clock moves once the registrations are     *)
(* over; their expiry is checked by MCRegistration.                        *)
ClockAfterRegistrations == now = 0 \/ \A p \in RegFinishes : FinishAtRest(p)
=============================================================================
