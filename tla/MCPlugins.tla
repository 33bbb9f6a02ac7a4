----------------------------- MODULE MCPlugins -----------------------------
(* Instances of Plugins for TLC. *)
EXTENDS Plugins, TLC

CONSTANTS g1, g2, m1, m2

Symmetry == Permutations({g1, g2}) \cup Permutations({m1, m2})
=============================================================================
