CONSTANTS
    Leaders <- TwoPorts
    Stoppable = {}
    Crashing = {2}
    SendPeriod = 2
    ListenTimeout = 4
    MaxDelay = 1
SPECIFICATION FairSpec
PROPERTY WorkingPrimary
