------------------------------ MODULE Callout ------------------------------
(***************************************************************************)
(* The timeout queue of 4.4BSD-Lite2/sys/kern/kern_clock.c.  calltodo is   *)
(* a linked list of entries whose c_time is a difference from the entry    *)
(* before; the entries at its front with c_time <= 0 are due, and a        *)
(* negative c_time is the number of ticks the call is overdue.  The list   *)
(* is a sequence here; every routine manipulates it at splhigh, so each is *)
(* one step.  callfree, the list of unused entries, is left out: its size  *)
(* is bounded by TimeoutsEndWithTheSleep of Tsleep.                        *)
(***************************************************************************)
EXTENDS Integers, Sequences

CONSTANT Procs    \* the processes: what the calls have as their argument

(* struct callout *)
Entries == [c_arg : Procs, c_time : Int]

(* Where the walk of a list stops that looks for one of the places. *)
First(places) == CHOOSE n \in places : \A m \in places : n <= m

(* The ticks the walk of timeout takes off for the first n entries. *)
Lead(q, n) ==
  LET sum[i \in 0 .. n] ==
        IF i = 0 THEN 0
        ELSE sum[i - 1] + IF q[i].c_time > 0 THEN q[i].c_time ELSE 0
  IN  sum[n]

(* timeout: the new entry goes before the first one that is not due before *)
(* it, and that one's difference is corrected.                             *)
Timeout(q, arg, ticks) ==
  LET t == IF ticks <= 0 THEN 1 ELSE ticks
      p == First({n \in 0 .. Len(q) : n = Len(q) \/ t - Lead(q, n) <= q[n + 1].c_time})
      new == [c_arg |-> arg, c_time |-> t - Lead(q, p)]
      rest == SubSeq(q, p + 1, Len(q))
  IN  SubSeq(q, 1, p) \o <<new>> \o
        IF rest = <<>> THEN rest ELSE [rest EXCEPT ![1].c_time = @ - new.c_time]

\* Mutant: the next entry does not inherit the wait.
UntimeoutForgetful(q, arg) == SelectSeq(q, LAMBDA c : c.c_arg # arg)

(* untimeout: the first entry of arg goes, and the next entry inherits its *)
(* share of the wait.                                                      *)
Untimeout(q, arg) ==
  IF \A i \in DOMAIN q : q[i].c_arg # arg THEN q
  ELSE LET i == First({n \in DOMAIN q : q[n].c_arg = arg})
           inherits == i < Len(q) /\ q[i].c_time > 0
           w == IF inherits THEN [q EXCEPT ![i + 1].c_time = @ + q[i].c_time] ELSE q
       IN  SubSeq(w, 1, i - 1) \o SubSeq(w, i + 1, Len(w))

(* The loop of hardclock: one tick off every overdue entry and off the     *)
(* first one that is not.                                                  *)
Ticked(q) ==
  LET n == IF \E i \in DOMAIN q : q[i].c_time > 0
           THEN First({i \in DOMAIN q : q[i].c_time > 0}) ELSE Len(q)
  IN  [i \in DOMAIN q |-> IF i <= n THEN [q[i] EXCEPT !.c_time = @ - 1] ELSE q[i]]

(* softclock runs the first entry for as long as it is due. *)
Due(q) == q # <<>> /\ q[1].c_time <= 0

(* What an entry means: the ticks left until its call, negative when it is *)
(* overdue.                                                                *)
Remaining(q, i) ==
  IF \E j \in 1 .. i : q[j].c_time > 0 THEN Lead(q, i) ELSE q[i].c_time
=============================================================================
