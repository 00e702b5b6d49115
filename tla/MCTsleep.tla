------------------------------ MODULE MCTsleep ------------------------------
EXTENDS Tsleep

CONSTANTS p1, p2, chan

MCProcs == {p1, p2}
MCSleeps ==
  [proc : {p1}, chan : {chan}, catch : BOOLEAN, timo : {0, 2}]
    \cup [proc : {p2}, chan : {chan}, catch : {FALSE}, timo : {1, 3}]
MCCatchers == {p1}
MCSignals == {p1} \X {"INT", "KILL", "STOP", "CONT"}
=============================================================================
