CONSTANTS
    a1 = a1
    a2 = a2
    a3 = a3
    Leaders <- DemoLeaders
    Acceptors <- TwoAcceptors
    Values = {1, 2}
    Addressed = {54321, 54322}
    Unstable = {54321, 54322}
    Faulty = {}
    Adversarial = TRUE
    Lossy = FALSE
    MaxInstance = 0
    MaxProposals = 1
SPECIFICATION Spec
SYMMETRY AcceptorSymmetry
INVARIANTS TypeOK LearnedIsChosen OneValuePerProposal VoteNeedsPromises SafetyInv
PROPERTIES LearnedIsNotProposed ImplementsLedger
CHECK_DEADLOCK FALSE
