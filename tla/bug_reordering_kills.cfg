CONSTANTS
    a1 = a1
    a2 = a2
    a3 = a3
    Leaders <- OneLeader
    Acceptors <- ThreeAcceptors
    Values = {1}
    Addressed = {54322}
    Unstable = {}
    Faulty = {}
    Adversarial = TRUE
    Lossy = FALSE
    MaxInstance = 1
    MaxProposals = 2
SPECIFICATION Spec
SYMMETRY AcceptorSymmetry
INVARIANT MajoritySurvives
CHECK_DEADLOCK FALSE
