-------------------------- MODULE MCTunnelObject --------------------------
(* Small instances of TunnelObject for TLC. *)
EXTENDS TunnelObject, TLC

\* Bridges, routes, CSRs and ids are only told apart.
Symmetry == Permutations(Bridges) \cup Permutations(Routes) \cup Permutations(CSRs)
                \cup Permutations(CertIDs) \cup Permutations(Handlers)
===========================================================================
