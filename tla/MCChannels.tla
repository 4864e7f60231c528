----------------------------- MODULE MCChannels -----------------------------
(* Small instances of Channels for TLC. *)
EXTENDS Channels, TLC

\* Connections are only told apart (in runs with no liveness property).
Symmetry == Permutations(Conns)
=============================================================================
