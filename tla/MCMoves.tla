------------------------------- MODULE MCMoves -------------------------------
(* Two people with a connection each, or one of them alone. *)
EXTENDS Moves

MCUserOf == [c \in Conns |-> IF c = "c1" THEN "u1" ELSE "u2"]
=============================================================================
