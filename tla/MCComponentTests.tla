-------------------------- MODULE MCComponentTests --------------------------
(***************************************************************************)
(* ComponentTests for TLC: one request of each kind and one key pair for   *)
(* every round.                                                            *)
(***************************************************************************)
EXTENDS ComponentTests
=============================================================================
