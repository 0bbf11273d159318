---------------------------- MODULE MCWriteScope ----------------------------
(***************************************************************************)
(* Instances of WriteScope for TLC: every proposal asks for the path "in"  *)
(* of one target at the commit "base"; "out" lies outside its scope.       *)
(***************************************************************************)
EXTENDS WriteScope, TLC

CONSTANTS p1, p2, a1, a2, r1, b1, b2

MCProcs == {p1, p2}
MCProposals == {r1}
MCTargets == {"repo"}
MCShas == {"base", "moved"}
MCPaths == {"in", "out"}
MCTargetOf == [r \in MCProposals |-> "repo"]
MCBaseSha == [r \in MCProposals |-> "base"]
MCScopeOf == [r \in MCProposals |-> {"in"} \cap Paths]
MCProposalOf == [a \in Approvals |-> r1]

MCSymmetry == Permutations(Procs) \cup Permutations(Bindings)
              \cup Permutations(Approvals)
=============================================================================
