-------------------------- MODULE MCKubeCapability --------------------------
(***************************************************************************)
(* Two attempts and two grants of one proposal, which may be of any kind.  *)
(***************************************************************************)
EXTENDS KubeCapability, TLC

CONSTANTS a1, a2, g1, g2

Same == Permutations({a1, a2}) \cup Permutations({g1, g2})
=============================================================================
