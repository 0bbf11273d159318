SPECIFICATION Spec
CONSTANTS
    p1 = p1
    p2 = p2
    a1 = a1
    a2 = a2
    r1 = r1
    b1 = b1
    b2 = b2
    NoApproval = NoApproval
    NoBinding = NoBinding
    Procs <- MCProcs
    Proposals <- MCProposals
    Approvals = {a1}
    Bindings = {b1, b2}
    Targets <- MCTargets
    Shas = {"base"}
    Paths = {"in"}
    ProposalOf <- MCProposalOf
    TargetOf <- MCTargetOf
    BaseSha <- MCBaseSha
    ScopeOf <- MCScopeOf
    Exclusive = FALSE
    Faults = FALSE
SYMMETRY MCSymmetry
INVARIANTS
    SingleUse
