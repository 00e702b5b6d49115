CONSTANTS
    a1 = a1
    a2 = a2
    a3 = a3
    Leaders <- OneLeader
    Acceptors <- ThreeAcceptors
    Values = {1}
    Addressed = {54322}
    Unstable = {}
    Faulty = {a1}
    Adversarial = FALSE
    Lossy = FALSE
    MaxInstance = 0
    MaxProposals = 1
SPECIFICATION FairSpec
PROPERTY ProposalIsDecided
CHECK_DEADLOCK FALSE
