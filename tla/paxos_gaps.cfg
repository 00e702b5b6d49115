CONSTANTS
    a1 = a1
    a2 = a2
    a3 = a3
    Leaders <- SmallPort
    Acceptors <- OneAcceptor
    Values = {1}
    Addressed = {2}
    Unstable = {}
    Faulty = {}
    Adversarial = FALSE
    Lossy = TRUE
    MaxInstance = 3
    MaxProposals = 6
SPECIFICATION Spec
INVARIANT OneInstancePerProposal
CHECK_DEADLOCK FALSE
