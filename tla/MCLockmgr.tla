----------------------------- MODULE MCLockmgr -----------------------------
EXTENDS Lockmgr

CONSTANTS p1, p2, p3, p4

TwoProcs == {p1, p2}
ThreeProcs == {p1, p2, p3}
FourProcs == {p1, p2, p3, p4}

AllRequests == {"SHARED", "EXCLUSIVE", "UPGRADE", "EXCLUPGRADE", "DOWNGRADE", "DRAIN"}
NoUpgrades == {"SHARED", "EXCLUSIVE", "DOWNGRADE", "DRAIN"}
Upgrades == {"SHARED", "UPGRADE", "EXCLUPGRADE", "DOWNGRADE"}

Plain == {{}}
Polling == {{}, {"NOWAIT"}}
AllOptions == {{}, {"NOWAIT"}, {"SLEEPFAIL"}}

=============================================================================
