------------------------------- MODULE MCConnLife -------------------------------
(* ConnLife for TLC: its instances only give values to the constants. *)
EXTENDS ConnLife
=============================================================================
