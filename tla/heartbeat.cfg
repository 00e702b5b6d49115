CONSTANTS
    Leaders <- ThreePorts
    Stoppable = {3}
    Crashing = {3}
    SendPeriod = 3
    ListenTimeout = 6
    MaxDelay = 1
SPECIFICATION FairSpec
INVARIANTS TakeOverIsPrompt ContentionIsShort
PROPERTY SettlesOnOne
