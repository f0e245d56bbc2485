------------------------ MODULE MCMultiprocExecutor ------------------------
(* The executor with two workers. *)
EXTENDS MultiprocExecutor
=============================================================================
