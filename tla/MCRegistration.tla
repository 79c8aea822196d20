--------------------------- MODULE MCRegistration ---------------------------
(***************************************************************************)
(* Registration for TLC: requests, handles and credentials that no         *)
(* property tells apart may be permuted.                                   *)
(***************************************************************************)
EXTENDS Registration, TLC

Symmetry == Permutations(RegStarts) \cup Permutations(RegFinishes)
              \cup Permutations(Handles) \cup Permutations(CredIDs)
=============================================================================
