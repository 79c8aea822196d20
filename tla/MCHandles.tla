------------------------------ MODULE MCHandles ------------------------------
(***************************************************************************)
(* Handles for TLC: clients and logins may be permuted.                    *)
(***************************************************************************)
EXTENDS Handles

Symmetry == Permutations(Clients) \cup Permutations(Logins)
=============================================================================
