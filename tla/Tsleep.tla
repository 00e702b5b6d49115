------------------------------- MODULE Tsleep -------------------------------
(***************************************************************************)
(* How a 4.4BSD process sleeps in the kernel: tsleep, sleep, wakeup,       *)
(* unsleep, endtsleep and setrunnable of 4.4BSD-Lite2/sys/kern/            *)
(* kern_synch.c, the signals that interrupt, stop and continue a sleeper   *)
(* (psignal, issignal and stop of kern_sig.c), and the timeout queue of    *)
(* kern_clock.c (module Callout) that ends a sleep.                        *)
(*                                                                         *)
(* The machine has one processor.  A process keeps it from a return of     *)
(* mi_switch to its next call; wakeups, signals and the clock come from    *)
(* interrupts or from other processes between two such steps.  The sleep   *)
(* queues are the processes with p_wchan set: their order only decides the *)
(* order of the run queue, and any runnable process may run next here.     *)
(*                                                                         *)
(* Signals are one of each kind the code tells apart: INT is any signal    *)
(* that is caught or kills, KILL is SIGKILL, STOP a stop signal with its   *)
(* default action, CONT is SIGCONT, which the process may catch.           *)
(* No signal is held, nobody is traced and PPWAIT is clear.                *)
(***************************************************************************)
EXTENDS Callout

CONSTANTS Sleeps,      \* the calls of tsleep: [proc, chan, catch, timo], timo 0 for none
          Signals,     \* the signals that are sent, as <<process, signal>>
          Catchers,    \* the processes that may catch SIGCONT
          MaxLate,     \* bound: ticks a due call waits for softclock
          NoChan       \* p_wchan = 0

ASSUME SleepsAssumption ==
  \A s \in Sleeps : s.proc \in Procs /\ s.chan # NoChan /\ s.catch \in BOOLEAN /\ s.timo \in Nat

ASSUME SignalsAssumption ==
  /\ Signals \subseteq Procs \X {"INT", "KILL", "STOP", "CONT"}
  /\ MaxLate \in Nat

Chans == {s.chan : s \in Sleeps}
Timos == {s.timo : s \in Sleeps}

VARIABLES p_stat, p_wchan, p_siglist,
          p_sigcatch,  \* whether SIGCONT is caught
          p_sintr,     \* P_SINTR: the sleep is interruptible
          p_timeout,   \* P_TIMEOUT: the timeout ended the sleep
          calltodo,    \* the timeout queue
          frame,       \* where each process is in tsleep, and tsleep's locals
          ret,         \* what tsleep last returned
          woken,       \* history: a wakeup found the process in this sleep
          age          \* history: the ticks since the sleep began, up to timo

procvars == <<p_stat, p_wchan, p_siglist, p_sigcatch, p_sintr, p_timeout>>
history == <<woken, age>>
vars == <<procvars, calltodo, frame, ret, history>>

Idle == [at |-> "user", catch |-> FALSE, timo |-> 0, sig |-> "none"]

TypeOK ==
  /\ p_stat \in [Procs -> {"SRUN", "SSLEEP", "SSTOP", "SZOMB"}]
  /\ p_wchan \in [Procs -> Chans \cup {NoChan}]
  /\ p_siglist \in [Procs -> SUBSET {"INT", "KILL", "STOP", "CONT"}]
  /\ p_sigcatch \in [Procs -> BOOLEAN]
  /\ p_sintr \in [Procs -> BOOLEAN]
  /\ p_timeout \in [Procs -> BOOLEAN]
  /\ calltodo \in Seq(Entries)
  /\ frame \in [Procs -> [at : {"user", "cursig", "resume", "cursig2", "userret", "dead"},
                          catch : BOOLEAN, timo : Timos \cup {0},
                          sig : {"none", "INT", "KILL", "CONT"}]]
  /\ ret \in [Procs -> {"none", "0", "EWOULDBLOCK", "EINTR"}]
  /\ woken \in [Procs -> BOOLEAN]
  /\ age \in [Procs -> Nat]

Init ==
  /\ p_stat = [p \in Procs |-> "SRUN"]
  /\ p_wchan = [p \in Procs |-> NoChan]
  /\ p_siglist = [p \in Procs |-> {}]
  /\ p_sigcatch \in {c \in [Procs -> BOOLEAN] : \A p \in Procs : c[p] => p \in Catchers}
  /\ p_sintr = [p \in Procs |-> FALSE]
  /\ p_timeout = [p \in Procs |-> FALSE]
  /\ calltodo = <<>>
  /\ frame = [p \in Procs |-> Idle]
  /\ ret = [p \in Procs |-> "none"]
  /\ woken = [p \in Procs |-> FALSE]
  /\ age = [p \in Procs |-> 0]

-----------------------------------------------------------------------------
(* issignal, up to its return or to the mi_switch after stop: the lowest   *)
(* pending signal decides.                                                 *)
Cursig(p, siglist) ==
  CASE "INT" \in siglist  -> [stops |-> FALSE, sig |-> "INT", left |-> siglist]
    [] "INT" \notin siglist /\ "KILL" \in siglist
                          -> [stops |-> FALSE, sig |-> "KILL", left |-> siglist]
    [] siglist \cap {"INT", "KILL"} = {} /\ "STOP" \in siglist
                          -> [stops |-> TRUE, sig |-> "none", left |-> siglist]
    [] siglist = {"CONT"} /\ p_sigcatch[p]
                          -> [stops |-> FALSE, sig |-> "CONT", left |-> siglist]
    [] OTHER              -> [stops |-> FALSE, sig |-> "none", left |-> {}]

(* The tail of tsleep up to the label resume, once the process is on its   *)
(* queue with list pending and wchan as found: it stops in issignal, runs  *)
(* on because of a signal or an early wakeup, or goes to sleep.            *)
GoToSleep(p, f, list, wchan) ==
  LET c == IF f.catch THEN Cursig(p, list) ELSE [stops |-> FALSE, sig |-> "none", left |-> list]
      sleeps == ~c.stops /\ c.sig = "none" /\ wchan # NoChan
  IN  /\ p_siglist' = [p_siglist EXCEPT ![p] = c.left]
      /\ p_sintr' = [p_sintr EXCEPT ![p] = f.catch]
      /\ p_stat' = [p_stat EXCEPT ![p] =
           IF c.stops THEN "SSTOP" ELSE IF sleeps THEN "SSLEEP" ELSE "SRUN"]
      /\ p_wchan' = [p_wchan EXCEPT ![p] = IF c.stops \/ sleeps THEN wchan ELSE NoChan]
      /\ frame' = [frame EXCEPT ![p] =
           [f EXCEPT !.at = IF c.stops THEN "cursig" ELSE "resume", !.sig = c.sig,
                     !.catch = @ /\ (c.stops \/ sleeps \/ c.sig # "none")]]

\* Mutant: only an interruptible sleep starts its timeout.
TsleepCallUntimed(p, chan, catch, timo) ==
  /\ frame[p].at = "user" /\ p_stat[p] = "SRUN" /\ ret[p] # "EINTR"
  /\ calltodo' = IF catch /\ timo # 0 THEN Timeout(calltodo, p, timo) ELSE calltodo
  /\ GoToSleep(p, [at |-> "user", catch |-> catch, timo |-> timo, sig |-> "none"],
               p_siglist[p], chan)
  /\ ret' = [ret EXCEPT ![p] = "none"]
  /\ UNCHANGED <<p_sigcatch, p_timeout, history>>

(* tsleep(chan, catch, timo).  sleep() is tsleep(chan, FALSE, 0).  A       *)
(* process whose sleep was interrupted gives up its system call first.     *)
TsleepCall(p, chan, catch, timo) ==
  /\ frame[p].at = "user" /\ p_stat[p] = "SRUN" /\ ret[p] # "EINTR"
  /\ calltodo' = IF timo # 0 THEN Timeout(calltodo, p, timo) ELSE calltodo
  /\ GoToSleep(p, [at |-> "user", catch |-> catch, timo |-> timo, sig |-> "none"],
               p_siglist[p], chan)
  /\ ret' = [ret EXCEPT ![p] = "none"]
  /\ UNCHANGED <<p_sigcatch, p_timeout, history>>

(* Back from the mi_switch of issignal, before the process ever slept. *)
CursigReturns(p) ==
  /\ frame[p].at = "cursig" /\ p_stat[p] = "SRUN"
  /\ GoToSleep(p, frame[p], p_siglist[p] \ {"STOP"}, p_wchan[p])
  /\ UNCHANGED <<p_sigcatch, p_timeout, calltodo, ret, history>>

Returns(p, value) ==
  /\ frame' = [frame EXCEPT ![p] = Idle]
  /\ ret' = [ret EXCEPT ![p] = value]
  /\ woken' = [woken EXCEPT ![p] = FALSE]
  /\ age' = [age EXCEPT ![p] = 0]

(* The last test of tsleep, for a signal that came during the sleep. *)
LastCursig(p, list) ==
  LET c == Cursig(p, list)
  IN  /\ p_siglist' = [p_siglist EXCEPT ![p] = c.left]
      /\ p_stat' = [p_stat EXCEPT ![p] = IF c.stops THEN "SSTOP" ELSE "SRUN"]
      /\ IF c.stops
         THEN frame' = [frame EXCEPT ![p].at = "cursig2"] /\ UNCHANGED <<ret, history>>
         ELSE Returns(p, IF c.sig = "none" THEN "0" ELSE "EINTR")

\* Mutant: the timeout of a sleep that ended otherwise is left running.
ResumeTimed(p) ==
  /\ frame[p].at = "resume" /\ p_stat[p] = "SRUN" /\ ~p_timeout[p]
  /\ p_sintr' = [p_sintr EXCEPT ![p] = FALSE]
  /\ LastCursig(p, p_siglist[p])
  /\ UNCHANGED <<p_wchan, p_sigcatch, p_timeout, calltodo>>

(* From the label resume to the end of tsleep. *)
Resume(p) ==
  LET f == frame[p] IN
  /\ f.at = "resume" /\ p_stat[p] = "SRUN"
  /\ p_sintr' = [p_sintr EXCEPT ![p] = FALSE]
  /\ p_timeout' = [p_timeout EXCEPT ![p] = FALSE]
  /\ calltodo' = IF ~p_timeout[p] /\ f.timo # 0 THEN Untimeout(calltodo, p) ELSE calltodo
  /\ IF p_timeout[p] /\ f.sig = "none"
     THEN Returns(p, "EWOULDBLOCK") /\ UNCHANGED <<p_stat, p_siglist>>
     ELSE IF f.catch /\ f.sig = "none" THEN LastCursig(p, p_siglist[p])
     ELSE Returns(p, IF f.catch THEN "EINTR" ELSE "0") /\ UNCHANGED <<p_stat, p_siglist>>
  /\ UNCHANGED <<p_wchan, p_sigcatch>>

LastCursigReturns(p) ==
  /\ frame[p].at = "cursig2" /\ p_stat[p] = "SRUN"
  /\ LastCursig(p, p_siglist[p] \ {"STOP"})
  /\ UNCHANGED <<p_wchan, p_sigcatch, p_sintr, p_timeout, calltodo>>

(* The loop of CURSIG and postsig on the way back to user mode. *)
UserReturn(p) ==
  LET list == IF frame[p].at = "userret" THEN p_siglist[p] \ {"STOP"} ELSE p_siglist[p]
      at == IF "KILL" \in list THEN "dead" ELSE IF "STOP" \in list THEN "userret" ELSE "user"
  IN  /\ frame[p].at \in {"user", "userret"} /\ p_stat[p] = "SRUN"
      /\ frame[p].at = "userret" \/ p_siglist[p] # {} \/ ret[p] # "none"
      /\ frame' = [frame EXCEPT ![p] = [Idle EXCEPT !.at = at]]
      /\ p_stat' = [p_stat EXCEPT ![p] =
           CASE at = "dead" -> "SZOMB" [] at = "userret" -> "SSTOP" [] OTHER -> "SRUN"]
      /\ p_siglist' = [p_siglist EXCEPT ![p] = IF at = "userret" THEN {"STOP"} ELSE {}]
      /\ ret' = [ret EXCEPT ![p] = "none"]
      /\ UNCHANGED <<p_wchan, p_sigcatch, p_sintr, p_timeout, calltodo, history>>
-----------------------------------------------------------------------------
\* Mutant: a stopped process stays on the queue.
WakeupSleepersOnly(chan) ==
  LET found == {p \in Procs : p_wchan[p] = chan}
      run == {p \in found : p_stat[p] = "SSLEEP"}
  IN  /\ found # {}
      /\ p_wchan' = [p \in Procs |-> IF p \in run THEN NoChan ELSE p_wchan[p]]
      /\ p_stat' = [p \in Procs |-> IF p \in run THEN "SRUN" ELSE p_stat[p]]
      /\ woken' = [p \in Procs |-> woken[p] \/ p \in found]
      /\ UNCHANGED <<p_siglist, p_sigcatch, p_sintr, p_timeout, calltodo, frame, ret, age>>

(* wakeup(chan): the sleepers run, the stopped ones only leave the queue. *)
Wakeup(chan) ==
  LET found == {p \in Procs : p_wchan[p] = chan} IN
  /\ found # {}
  /\ p_wchan' = [p \in Procs |-> IF p \in found THEN NoChan ELSE p_wchan[p]]
  /\ p_stat' = [p \in Procs |-> IF p \in found /\ p_stat[p] = "SSLEEP" THEN "SRUN" ELSE p_stat[p]]
  /\ woken' = [p \in Procs |-> woken[p] \/ p \in found]
  /\ UNCHANGED <<p_siglist, p_sigcatch, p_sintr, p_timeout, calltodo, frame, ret, age>>

(* setrunnable *)
Setrunnable(p) ==
  /\ p_stat' = [p_stat EXCEPT ![p] = "SRUN"]
  /\ p_wchan' = [p_wchan EXCEPT ![p] = NoChan]

(* unsleep *)
Unsleep(p) == p_wchan' = [p_wchan EXCEPT ![p] = NoChan] /\ UNCHANGED p_stat

(* psignal once the signal is pending. *)
PsignalAsleep(p, sig) ==
  /\ p_stat[p] = "SSLEEP" /\ p_sintr[p]
  /\ CASE sig = "CONT" /\ ~p_sigcatch[p] -> UNCHANGED <<p_stat, p_wchan>>
       [] sig = "STOP" -> p_stat' = [p_stat EXCEPT ![p] = "SSTOP"] /\ UNCHANGED p_wchan
       [] OTHER        -> Setrunnable(p)

\* Mutant: SIGCONT puts the process to sleep without looking at p_wchan.
PsignalStoppedBlind(p, sig) ==
  /\ p_stat[p] = "SSTOP"
  /\ CASE sig = "KILL" -> Setrunnable(p)
       [] sig = "CONT" -> p_stat' = [p_stat EXCEPT ![p] = "SSLEEP"] /\ UNCHANGED p_wchan
       [] OTHER        -> UNCHANGED <<p_stat, p_wchan>>

\* Mutant: SIGKILL leaves a stopped process stopped.
PsignalStoppedHeld(p, sig) ==
  /\ p_stat[p] = "SSTOP"
  /\ CASE sig = "CONT" /\ (p_sigcatch[p] \/ p_wchan[p] = NoChan) -> Setrunnable(p)
       [] sig = "CONT" /\ ~p_sigcatch[p] /\ p_wchan[p] # NoChan
                       -> p_stat' = [p_stat EXCEPT ![p] = "SSLEEP"] /\ UNCHANGED p_wchan
       [] sig \in {"INT", "KILL"} /\ p_sintr[p] -> Unsleep(p)
       [] OTHER        -> UNCHANGED <<p_stat, p_wchan>>

PsignalStopped(p, sig) ==
  /\ p_stat[p] = "SSTOP"
  /\ CASE sig = "KILL" \/ (sig = "CONT" /\ (p_sigcatch[p] \/ p_wchan[p] = NoChan))
                       -> Setrunnable(p)
       [] sig = "CONT" /\ ~p_sigcatch[p] /\ p_wchan[p] # NoChan
                       -> p_stat' = [p_stat EXCEPT ![p] = "SSLEEP"] /\ UNCHANGED p_wchan
       [] sig = "INT" /\ p_sintr[p]
                       -> Unsleep(p)
       [] OTHER        -> UNCHANGED <<p_stat, p_wchan>>

PsignalOther(p) ==
  /\ p_stat[p] = "SRUN" \/ (p_stat[p] = "SSLEEP" /\ ~p_sintr[p])
  /\ UNCHANGED <<p_stat, p_wchan>>

(* A signal that has had its whole effect does not stay pending. *)
TakenAtOnce(p, sig) ==
  \/ p_stat[p] = "SSLEEP" /\ p_sintr[p] /\ (sig = "STOP" \/ (sig = "CONT" /\ ~p_sigcatch[p]))
  \/ p_stat[p] = "SSTOP" /\ (sig = "STOP" \/ (sig = "CONT" /\ ~p_sigcatch[p]))

Psignal(p, sig) ==
  /\ frame[p].at # "dead"
  /\ p_siglist' = [p_siglist EXCEPT ![p] =
       (CASE sig = "CONT" -> @ \ {"STOP"} [] sig = "STOP" -> @ \ {"CONT"} [] OTHER -> @)
         \cup (IF TakenAtOnce(p, sig) THEN {} ELSE {sig})]
  /\ PsignalAsleep(p, sig) \/ PsignalStopped(p, sig) \/ PsignalOther(p)
  /\ UNCHANGED <<p_sigcatch, p_sintr, p_timeout, calltodo, frame, ret, history>>
-----------------------------------------------------------------------------
(* hardclock *)
Hardclock ==
  /\ Due(calltodo) => calltodo[1].c_time > -MaxLate
  /\ calltodo' = Ticked(calltodo)
  /\ age' = [p \in Procs |-> IF age[p] < frame[p].timo THEN age[p] + 1 ELSE age[p]]
  /\ UNCHANGED <<procvars, frame, ret, woken>>

\* Mutant: the process is told of the timeout though it was awakened before.
EndtsleepLate(p) ==
  /\ IF p_stat[p] = "SSLEEP" THEN Setrunnable(p) ELSE Unsleep(p)
  /\ p_timeout' = [p_timeout EXCEPT ![p] = TRUE]

(* endtsleep: a process that still sleeps is released and told why. *)
Endtsleep(p) ==
  IF p_wchan[p] # NoChan
  THEN /\ IF p_stat[p] = "SSLEEP" THEN Setrunnable(p) ELSE Unsleep(p)
       /\ p_timeout' = [p_timeout EXCEPT ![p] = TRUE]
  ELSE UNCHANGED <<p_stat, p_wchan, p_timeout>>

(* One turn of softclock. *)
Softclock ==
  /\ Due(calltodo)
  /\ calltodo' = Tail(calltodo)
  /\ Endtsleep(calltodo[1].c_arg)
  /\ UNCHANGED <<p_siglist, p_sigcatch, p_sintr, frame, ret, history>>

(* A step of a process that has the processor, inside tsleep or on its way *)
(* back to user mode.                                                      *)
Runs(p) == CursigReturns(p) \/ Resume(p) \/ LastCursigReturns(p) \/ UserReturn(p)

Next ==
  \/ \E s \in Sleeps : TsleepCall(s.proc, s.chan, s.catch, s.timo)
  \/ \E p \in Procs : Runs(p)
  \/ \E chan \in Chans : Wakeup(chan)
  \/ \E s \in Signals : Psignal(s[1], s[2])
  \/ Hardclock
  \/ Softclock

Spec == Init /\ [][Next]_vars

(* The clock ticks, its software interrupt is served, and a runnable       *)
(* process gets the processor.  Nobody has to wake or to signal.           *)
FairSpec ==
  Spec /\ WF_vars(Hardclock) /\ WF_vars(Softclock) /\ \A p \in Procs : WF_vars(Runs(p))
-----------------------------------------------------------------------------
Armed(p) == \E i \in DOMAIN calltodo : calltodo[i].c_arg = p

InTsleep(p) == frame[p].at \in {"cursig", "resume", "cursig2"}

(* The DIAGNOSTIC tests of wakeup and setrunnable never panic and nobody   *)
(* sleeps where no wakeup finds it: whatever the order of stops,           *)
(* continuations, timeouts and signals, a process is on a sleep queue      *)
(* while it is SSLEEP, and only while it is SSLEEP or SSTOP.               *)
SleepersAreQueued ==
  /\ TypeOK
  /\ \A p \in Procs :
       /\ p_stat[p] = "SSLEEP" => p_wchan[p] # NoChan
       /\ p_wchan[p] # NoChan => p_stat[p] \in {"SSLEEP", "SSTOP"}

(* No wakeup is lost: a process a wakeup has found since tsleep put it on  *)
(* its queue is not asleep afterwards, even when the wakeup came while it  *)
(* was stopped in issignal and a SIGCONT followed.                         *)
WakeupsStick ==
  \A p \in Procs : InTsleep(p) /\ woken[p] => p_stat[p] # "SSLEEP" /\ p_wchan[p] = NoChan

(* A timeout belongs to the sleep that set it: once tsleep has returned no *)
(* endtsleep of the process is left in the queue and P_TIMEOUT is clear,   *)
(* so a later sleep is not cut short by an earlier one.  A process never   *)
(* has two entries, so sleepers cannot fill the table of callouts.         *)
TimeoutsEndWithTheSleep ==
  \A p \in Procs :
    /\ ~InTsleep(p) \/ frame[p].timo = 0 => ~Armed(p) /\ ~p_timeout[p]
    /\ p_timeout[p] => ~Armed(p)
    /\ \A i, j \in DOMAIN calltodo : calltodo[i].c_arg = calltodo[j].c_arg => i = j

(* tsleep tells the truth: it returns 0 only after a wakeup, EWOULDBLOCK   *)
(* only when its whole time has passed, and EINTR only with a signal still *)
(* pending for the way back to user mode.  Of a 0 nothing is said when the *)
(* process has a handler for SIGCONT: it may have been continued and       *)
(* stopped again in issignal.                                              *)
ReturnsAreTrue ==
  [][\A p \in Procs : ret[p] = "none" =>
       CASE ret'[p] = "0"           -> woken[p] \/ p_sigcatch[p]
         [] ret'[p] = "EWOULDBLOCK" -> frame[p].timo # 0 /\ age[p] = frame[p].timo /\ ~woken[p]
         [] ret'[p] = "EINTR"       -> frame[p].catch /\ p_siglist'[p] # {}
         [] OTHER                   -> TRUE]_vars

D == INSTANCE Deadlines
       WITH left <- {[call |-> calltodo[i].c_arg, ticks |-> Remaining(calltodo, i)] :
                       i \in DOMAIN calltodo}

(* The queue of differences is a set of deadlines: timeout and untimeout   *)
(* move no other call, every tick counts once for every pending call, and  *)
(* softclock makes a call only when it is due, the earliest one first.     *)
ImplementsDeadlines == D!Spec /\ [][Softclock => D!Call]_vars

(* A sleep with a timeout ends, or the process is stopped, though nobody   *)
(* wakes it.                                                               *)
TimedSleepsEnd ==
  \A p \in Procs :
    (InTsleep(p) /\ frame[p].timo # 0) ~> (~InTsleep(p) \/ p_stat[p] = "SSTOP")

(* SIGKILL ends a process wherever it sleeps, stopped or not, unless the   *)
(* sleep is uninterruptible.                                               *)
KillsEnd ==
  \A p \in Procs :
    "KILL" \in p_siglist[p] ~> (frame[p].at = "dead" \/ (p_stat[p] = "SSLEEP" /\ ~p_sintr[p]))
=============================================================================
