------------------------------ MODULE Heartbeat ------------------------------
(***************************************************************************)
(* How the PaxosLeader objects of toy_paxos/toy_paxos.py settle which of   *)
(* them is primary.  Each leader has two threads of its own for this: a    *)
(* HeartbeatSender that wakes up every second and, when its leader is      *)
(* primary, sends a heartbeat to every other leader; and a                 *)
(* HeartbeatListener that waits up to two seconds for a heartbeat, gives   *)
(* up primacy to a leader with a bigger port and takes it when none came.  *)
(* Heartbeats reach the listener through the leader's MessagePump.         *)
(*                                                                         *)
(* Time is counted in ticks.  A thread whose time has come acts before the *)
(* next tick: the program has no other bound on how long a step may take.  *)
(***************************************************************************)
EXTENDS Integers, Sequences, FiniteSets

CONSTANTS
    Leaders,        \* the port numbers of the leaders
    Stoppable,      \* the leaders on which stop may be called
    Crashing,       \* the leaders whose pump thread may end by an exception
    SendPeriod,     \* ticks the sender sleeps
    ListenTimeout,  \* ticks the listener waits
    MaxDelay        \* bound: ticks a heartbeat is under way

ASSUME LeadersAssumption ==
    /\ Leaders \subseteq Nat \ {0}
    /\ IsFiniteSet(Leaders)
    /\ Stoppable \subseteq Leaders
    /\ Crashing \subseteq Leaders

ASSUME TimesAssumption ==
    /\ SendPeriod \in Nat \ {0}
    /\ ListenTimeout \in Nat
    /\ MaxDelay \in Nat
    /\ SendPeriod + MaxDelay < ListenTimeout

VARIABLES
    isPrimary,      \* PaxosLeader.isPrimary
    stopped,        \* PaxosLeader.stopped, and the abort flags of its threads
    pumpDead,       \* whether an exception has ended the pump thread
    sleeping,       \* ticks the sender has left to sleep, Ended after its loop
    waiting,        \* ticks the listener has waited, Ended after its loop
    queue,          \* HeartbeatListener.queue: the sources of heartbeats
    net,            \* the heartbeats under way, with the ticks since they were sent
    leaderless,     \* history: ticks leaders have run without a primary ...
    contended       \* ... and with more than one, since the last call of stop

vars == <<isPrimary, stopped, pumpDead, sleeping, waiting, queue, net, leaderless,
          contended>>

Ended == -1

Running == {l \in Leaders : ~stopped[l]}

RunningPrimaries == {l \in Leaders : isPrimary[l] /\ ~stopped[l]}

AllHear == \A l \in Running : ~pumpDead[l]

\* Ticks for the last heartbeat of a leader, the heartbeat of one it deposes meanwhile,
\* and a time-out after that.
TakeOverTime == SendPeriod + 2 * MaxDelay + ListenTimeout

\* Ticks for two rounds of heartbeats.
SettleTime == 2 * (SendPeriod + MaxDelay)

Heartbeats == [source : Leaders, to : Leaders, age : 0 .. MaxDelay]

TypeOK ==
    /\ isPrimary \in [Leaders -> BOOLEAN]
    /\ stopped \in [Leaders -> BOOLEAN]
    /\ pumpDead \in [Leaders -> BOOLEAN]
    /\ sleeping \in [Leaders -> 0 .. SendPeriod \cup {Ended}]
    /\ waiting \in [Leaders -> 0 .. ListenTimeout \cup {Ended}]
    /\ queue \in [Leaders -> Seq(Leaders)]
    /\ net \subseteq Heartbeats
    /\ leaderless \in Nat
    /\ contended \in Nat

\* The leaders were started at different times, and setPrimary(True) was called on
\* some of them.
Init ==
    /\ isPrimary \in [Leaders -> BOOLEAN]
    /\ stopped = [l \in Leaders |-> FALSE]
    /\ pumpDead = [l \in Leaders |-> FALSE]
    /\ sleeping \in [Leaders -> 1 .. SendPeriod]
    /\ waiting = [l \in Leaders |-> SendPeriod - sleeping[l]]
    /\ queue = [l \in Leaders |-> <<>>]
    /\ net = {}
    /\ leaderless = 0
    /\ contended = 0

-----------------------------------------------------------------------------

\* A thread looks at its abort flag only at the head of its loop.
Looped(l, value) == IF stopped[l] THEN Ended ELSE value

\* HeartbeatSender.run
SendHeartbeats(l) ==
    /\ sleeping[l] = 0
    /\ net' = net \cup {[source |-> l, to |-> k, age |-> 0] :
                           k \in {k \in Leaders \ {l} : isPrimary[l]}}
    /\ sleeping' = [sleeping EXCEPT ![l] = Looped(l, SendPeriod)]
    /\ UNCHANGED <<isPrimary, stopped, pumpDead, waiting, queue, leaderless, contended>>

\* MSG_HEARTBEAT in recvMessage: newHB.  A stopped leader ignores it, and with the
\* pump thread gone nobody takes it off the pump's queue.
DeliverHeartbeat(m) ==
    /\ net' = net \ {m}
    /\ queue' = IF stopped[m.to] \/ pumpDead[m.to]
                THEN queue
                ELSE [queue EXCEPT ![m.to] = Append(@, m.source)]
    /\ UNCHANGED <<isPrimary, stopped, pumpDead, sleeping, waiting, leaderless, contended>>

\* Mutant: primacy is given up to whoever sends a heartbeat.
YieldsToAnyone(l) ==
    /\ waiting[l] # Ended
    /\ queue[l] # <<>>
    /\ isPrimary' = [isPrimary EXCEPT ![l] = FALSE]
    /\ queue' = [queue EXCEPT ![l] = Tail(@)]
    /\ waiting' = [waiting EXCEPT ![l] = Looped(l, 0)]
    /\ UNCHANGED <<stopped, pumpDead, sleeping, net, leaderless, contended>>

\* Mutant: a heartbeat only restarts the wait.
NeverYields(l) ==
    /\ waiting[l] # Ended
    /\ queue[l] # <<>>
    /\ queue' = [queue EXCEPT ![l] = Tail(@)]
    /\ waiting' = [waiting EXCEPT ![l] = Looped(l, 0)]
    /\ UNCHANGED <<isPrimary, stopped, pumpDead, sleeping, net, leaderless, contended>>

\* HeartbeatListener.run: queue.get returned a heartbeat.
HearHeartbeat(l) ==
    /\ waiting[l] # Ended
    /\ queue[l] # <<>>
    /\ isPrimary' = [isPrimary EXCEPT ![l] = @ /\ ~(Head(queue[l]) > l)]
    /\ queue' = [queue EXCEPT ![l] = Tail(@)]
    /\ waiting' = [waiting EXCEPT ![l] = Looped(l, 0)]
    /\ UNCHANGED <<stopped, pumpDead, sleeping, net, leaderless, contended>>

\* HeartbeatListener.run: queue.get timed out.
TimeOut(l) ==
    /\ waiting[l] = ListenTimeout
    /\ queue[l] = <<>>
    /\ isPrimary' = [isPrimary EXCEPT ![l] = TRUE]
    /\ waiting' = [waiting EXCEPT ![l] = Looped(l, 0)]
    /\ UNCHANGED <<stopped, pumpDead, sleeping, queue, net, leaderless, contended>>

\* PaxosLeader.stop
Stop(l) ==
    /\ l \in Stoppable
    /\ ~stopped[l]
    /\ stopped' = [stopped EXCEPT ![l] = TRUE]
    /\ leaderless' = 0
    /\ contended' = 0
    /\ UNCHANGED <<isPrimary, pumpDead, sleeping, waiting, queue, net>>

\* An exception in recvMessage: the other two threads go on.
PumpDies(l) ==
    /\ l \in Crashing
    /\ ~pumpDead[l]
    /\ pumpDead' = [pumpDead EXCEPT ![l] = TRUE]
    /\ UNCHANGED <<isPrimary, stopped, sleeping, waiting, queue, net, leaderless, contended>>

\* The history variables count to one beyond their bound.
Counted(n, bound) == IF n > bound THEN n ELSE n + 1

\* One tick passes; nobody is due.
Tick ==
    /\ \A l \in Leaders :
          /\ sleeping[l] # 0
          /\ waiting[l] # ListenTimeout
          /\ waiting[l] # Ended => queue[l] = <<>>
    /\ \A m \in net : m.age < MaxDelay
    /\ sleeping' = [l \in Leaders |-> IF sleeping[l] = Ended THEN Ended ELSE sleeping[l] - 1]
    /\ waiting' = [l \in Leaders |-> IF waiting[l] = Ended THEN Ended ELSE waiting[l] + 1]
    /\ net' = {[m EXCEPT !.age = @ + 1] : m \in net}
    /\ leaderless' = IF RunningPrimaries = {} /\ Running # {}
                     THEN Counted(leaderless, TakeOverTime)
                     ELSE 0
    /\ contended' = IF Cardinality(RunningPrimaries) > 1
                    THEN Counted(contended, SettleTime)
                    ELSE 0
    /\ UNCHANGED <<isPrimary, stopped, pumpDead, queue>>

ThreadStep ==
    \/ \E l \in Leaders : SendHeartbeats(l) \/ HearHeartbeat(l) \/ TimeOut(l)
    \/ \E m \in net : DeliverHeartbeat(m)
    \/ Tick

Next == ThreadStep \/ \E l \in Leaders : Stop(l) \/ PumpDies(l)

Spec == Init /\ [][Next]_vars

\* Threads are scheduled and time goes on; stop and exceptions need not happen.
FairSpec == Spec /\ WF_vars(ThreadStep)

-----------------------------------------------------------------------------

\* When the primary stops, another running leader is primary within TakeOverTime: the
\* sender of the stopped one may be asleep when stop is called and still sends when it
\* wakes up, deposing a leader that has just taken over and sent a heartbeat itself.
TakeOverIsPrompt == TypeOK /\ leaderless <= TakeOverTime

\* While every running leader hears heartbeats, leaders that believe to be primary at the
\* same time have settled on one of them after two rounds of heartbeats: nobody times out
\* after the first one, and in the second the biggest port deposes the others
\* (HeartbeatListener.run).
ContentionIsShort == AllHear => contended <= SettleTime

\* Once nobody is stopped any more, and if all leaders hear heartbeats, exactly one running
\* leader is primary and stays so: the listeners do not depose each other in turn.
SettlesOnOne == <>[](AllHear /\ Running # {} => Cardinality(RunningPrimaries) = 1)

\* "If a leader fails, another leader will take over once it realises": again and again
\* there is a primary that handles messages, while some running leader could be it.
WorkingPrimary ==
    []<>(\/ \E l \in RunningPrimaries : ~pumpDead[l]
         \/ \A l \in Running : pumpDead[l])

=============================================================================
