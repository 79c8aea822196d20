----------------------------- MODULE MCStartup -----------------------------
(***************************************************************************)
(* Startup for TLC, with durations on both sides of zero.                  *)
(***************************************************************************)
EXTENDS Startup

MCDurations == {-1, 7}
=============================================================================
