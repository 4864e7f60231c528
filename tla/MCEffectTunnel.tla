--------------------------- MODULE MCEffectTunnel ---------------------------
(* A small instance of EffectTunnel for TLC. *)
EXTENDS EffectTunnel, TLC
=============================================================================
