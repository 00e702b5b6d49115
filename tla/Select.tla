------------------------------- MODULE Select -------------------------------
(***************************************************************************)
(* select(2) of 4.4BSD-Lite2/sys/kern/sys_generic.c.  Every selectable     *)
(* object has a selinfo with room for ONE process: si_pid is the process   *)
(* to wake, SI_COLL says that others wait as well and that everybody who   *)
(* sleeps on selwait must be woken.  An event that comes while a process   *)
(* is still scanning its descriptors reaches it through its P_SELECT flag  *)
(* or through the collision counter nselcoll.                              *)
(*                                                                         *)
(* The kernel is not preemptive: from the label retry to its tsleep a      *)
(* process keeps the processor (it is kern.proc), and only interrupts,     *)
(* which call selwakeup, come between the descriptors it looks at.  The    *)
(* module that extends this one says what makes an object ready.  nselcoll *)
(* is only compared with its value at retry, so collided stands for        *)
(* nselcoll # ncoll in the process that scans.                             *)
(***************************************************************************)
CONSTANTS Procs,      \* the processes
          Objs,       \* the objects they select, for reading
          NoProc, NoChan

ASSUME SelectAssumption == NoProc \notin Procs /\ NoChan \notin {"selwait", "so_timeo"}

VARIABLES p_select,   \* the processes with P_SELECT set
          p_wchan,    \* what each process sleeps on
          si_pid,     \* the recorded process of each object
          si_coll,    \* the objects with SI_COLL set
          collided,   \* nselcoll # ncoll for the scanning process
          kern,       \* the process in selscan, with the objects it has yet to
                      \* look at and those it found ready
          want        \* the objects each process has selected, {} outside select

selvars == <<p_select, p_wchan, si_pid, si_coll, collided, kern, want>>

NoScan == [proc |-> NoProc, todo |-> {}, found |-> {}]

SelectTypeOK ==
  /\ p_select \subseteq Procs
  /\ p_wchan \in [Procs -> {NoChan, "selwait", "so_timeo"}]
  /\ si_pid \in [Objs -> Procs \cup {NoProc}]
  /\ si_coll \subseteq Objs
  /\ collided \in BOOLEAN
  /\ kern \in [proc : Procs \cup {NoProc}, todo : SUBSET Objs, found : SUBSET Objs]
  /\ want \in [Procs -> SUBSET Objs]

SelectInit ==
  /\ p_select = {}
  /\ p_wchan = [p \in Procs |-> NoChan]
  /\ si_pid = [o \in Objs |-> NoProc]
  /\ si_coll = {}
  /\ collided = FALSE
  /\ kern = NoScan
  /\ want = [p \in Procs |-> {}]

-----------------------------------------------------------------------------
(* The label retry: note the collisions, set P_SELECT, start the scan. *)
Retry(p, objs) ==
  /\ collided' = FALSE
  /\ p_select' = p_select \cup {p}
  /\ kern' = [proc |-> p, todo |-> objs, found |-> {}]

SelectCall(p, objs) ==
  /\ kern.proc = NoProc /\ want[p] = {} /\ p_wchan[p] = NoChan
  /\ want' = [want EXCEPT ![p] = objs]
  /\ Retry(p, objs)
  /\ UNCHANGED <<p_wchan, si_pid, si_coll>>

\* Mutant: a second process takes the place of one that sleeps.
SelrecordOver(p, o) == si_pid' = [si_pid EXCEPT ![o] = p] /\ UNCHANGED si_coll

(* selrecord *)
Selrecord(p, o) ==
  CASE si_pid[o] = p -> UNCHANGED <<si_pid, si_coll>>
    [] si_pid[o] \in Procs \ {p} /\ p_wchan[si_pid[o]] = "selwait"
                     -> si_coll' = si_coll \cup {o} /\ UNCHANGED si_pid
    [] OTHER         -> si_pid' = [si_pid EXCEPT ![o] = p] /\ UNCHANGED si_coll

(* One descriptor of selscan, with the fo_select of the object. *)
SelscanOne(o, ready) ==
  LET p == kern.proc IN
  /\ o \in kern.todo
  /\ kern' = [kern EXCEPT !.todo = @ \ {o}, !.found = IF ready THEN @ \cup {o} ELSE @]
  /\ IF ready THEN UNCHANGED <<si_pid, si_coll>> ELSE Selrecord(p, o)
  /\ UNCHANGED <<p_select, p_wchan, collided, want>>

Done(p) ==
  /\ p_select' = p_select \ {p}
  /\ want' = [want EXCEPT ![p] = {}]

(* The scan is over: something is ready or the time is up, an event came   *)
(* during the scan, or the process goes to sleep.                          *)
SelectReturns(p) ==
  /\ kern.proc = p /\ kern.todo = {}
  /\ Done(p)
  /\ kern' = NoScan
  /\ UNCHANGED <<p_wchan, si_pid, si_coll, collided>>

SelectAgain(p) ==
  /\ kern.proc = p /\ kern.todo = {} /\ kern.found = {}
  /\ p \notin p_select \/ collided
  /\ Retry(p, want[p])
  /\ UNCHANGED <<p_wchan, si_pid, si_coll, want>>

SelectSleeps(p) ==
  /\ kern.proc = p /\ kern.todo = {} /\ kern.found = {}
  /\ p \in p_select /\ ~collided
  /\ p_select' = p_select \ {p}
  /\ p_wchan' = [p_wchan EXCEPT ![p] = "selwait"]
  /\ kern' = NoScan
  /\ UNCHANGED <<si_pid, si_coll, collided, want>>

(* tsleep returns 0: back to retry. *)
SelectWakes(p) ==
  /\ kern.proc = NoProc /\ want[p] # {} /\ p_wchan[p] = NoChan
  /\ Retry(p, want[p])
  /\ UNCHANGED <<p_wchan, si_pid, si_coll, want>>

(* tsleep returns an error, by a signal or by the timeout: the system call *)
(* ends, and whatever selinfo it left behind stays recorded.               *)
SelectInterrupted(p) ==
  /\ kern.proc = NoProc /\ want[p] # {}
  /\ p_wchan' = [p_wchan EXCEPT ![p] = NoChan]
  /\ Done(p)
  /\ UNCHANGED <<si_pid, si_coll, collided, kern>>

(* selwakeup of the object o, called at interrupt level or by another      *)
(* process: with a collision everybody runs, and the recorded process does *)
(* in any case, or has its P_SELECT cleared when it is not asleep.  The    *)
(* caller wakes the processes of also, on other channels, in the same step.*)
Selwakeup(o, also) ==
  LET p == si_pid[o]
      recorded == p # NoProc
      coll == recorded /\ o \in si_coll
      woken == {r \in Procs : p_wchan[r] = "selwait" /\ (coll \/ r = p)}
  IN  /\ collided' = (collided \/ coll)
      /\ si_coll' = IF recorded THEN si_coll \ {o} ELSE si_coll
      /\ si_pid' = [si_pid EXCEPT ![o] = NoProc]
      /\ p_wchan' = [r \in Procs |-> IF r \in woken \cup also THEN NoChan ELSE p_wchan[r]]
      /\ p_select' = p_select \ {p}
      /\ UNCHANGED <<kern, want>>

(* No event is missed: a process never sleeps in select while something it *)
(* selected is ready, whoever else selects it and whenever the event came. *)
NothingMissed(Ready(_)) ==
  \A p \in Procs : p_wchan[p] = "selwait" => \A o \in want[p] : ~Ready(o)
=============================================================================
