----------------------------- MODULE MCToyPaxos -----------------------------
EXTENDS ToyPaxos, TLC

CONSTANTS a1, a2, a3

\* The leaders of the demonstration at the end of toy_paxos.py.
DemoLeaders == {54321, 54322}

OneLeader == {54322}

\* A leader whose port is small enough for a proposal count to reach it.
SmallPort == {2}

OneAcceptor == {a1}

TwoAcceptors == {a1, a2}

ThreeAcceptors == {a1, a2, a3}

AcceptorSymmetry == Permutations(Acceptors)

=============================================================================
