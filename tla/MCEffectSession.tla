-------------------------- MODULE MCEffectSession ---------------------------
(* A small instance of EffectSession for TLC. *)
EXTENDS EffectSession, TLC
=============================================================================
