----------------------------- MODULE MCDPWaves -----------------------------
(* Two data-parallel engines. *)
EXTENDS DPWaves
=============================================================================
