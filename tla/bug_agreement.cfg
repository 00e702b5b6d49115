CONSTANTS
    a1 = a1
    a2 = a2
    a3 = a3
    Leaders <- DemoLeaders
    Acceptors <- ThreeAcceptors
    Values = {1, 2}
    Addressed = {54321, 54322}
    Unstable = {}
    Faulty = {}
    Adversarial = FALSE
    Lossy = FALSE
    MaxInstance = 0
    MaxProposals = 1
SPECIFICATION Spec
SYMMETRY AcceptorSymmetry
INVARIANT Agreement
CHECK_DEADLOCK FALSE
