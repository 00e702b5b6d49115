----------------------------- MODULE Deadlines -----------------------------
(***************************************************************************)
(* What timeout, untimeout, hardclock and softclock of kern_clock.c        *)
(* promise together, without the queue of differences: every pending call  *)
(* has a number of ticks left, every tick takes one off all of them, and   *)
(* the calls that are due are made in the order of their deadlines.        *)
(***************************************************************************)
EXTENDS Integers

VARIABLE left    \* the pending calls, each with the ticks left, negative if late

Init == left = {}

(* timeout: a call is not made before the next tick. *)
Set == \E new \in left' : new.ticks > 0 /\ left' = left \cup {new}

(* untimeout *)
Cancel == \E c \in left : left' = left \ {c}

(* hardclock *)
Tick == left' = {[c EXCEPT !.ticks = @ - 1] : c \in left}

(* softclock *)
Call ==
  \E c \in left :
    /\ c.ticks <= 0
    /\ \A d \in left : c.ticks <= d.ticks
    /\ left' = left \ {c}

Next == Tick \/ Set \/ Cancel \/ Call

Spec == Init /\ [][Next]_left
=============================================================================
