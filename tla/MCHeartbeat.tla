----------------------------- MODULE MCHeartbeat -----------------------------
EXTENDS Heartbeat

TwoPorts == {1, 2}

ThreePorts == {1, 2, 3}

=============================================================================
