--------------------------- MODULE MCProvisioning ---------------------------
EXTENDS Provisioning, TLC

\* Tunnels and keys are interchangeable.
Symmetry == Permutations(Tunnels) \cup Permutations(Keys)
=============================================================================
