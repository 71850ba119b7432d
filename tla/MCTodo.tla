------------------------------- MODULE MCTodo -------------------------------
(* Todo on a small instance: two requests, each about a block of its own.  *)
EXTENDS Todo, TLC

CONSTANTS r1, r2, b1, b2

MCBlockOf == (r1 :> b1) @@ (r2 :> b2)
=============================================================================
