-------------------------- MODULE HeartbeatProofs --------------------------
(***************************************************************************)
(* That a primary is replaced in time, for any number of leaders, any of   *)
(* which may be stopped or lose its pump thread, and for any periods.      *)
(*                                                                         *)
(* Let time start when the last primary is gone, so that the clock shows   *)
(* leaderless.  A heartbeat is sent at leaderless - age.  Those of stopped *)
(* leaders are sent by SendPeriod, when their senders have woken up for    *)
(* the last time; any other is sent by a leader that timed out and is      *)
(* deposed before the next tick.  Such a leader is deposed by a heartbeat  *)
(* sent by SendPeriod: every leader hears that one too, or is about to, so *)
(* that nobody else times out while the deposed leader's own heartbeats    *)
(* are under way.  They are gone at SendPeriod + 2 * MaxDelay, and whoever *)
(* times out after that stays primary.                                     *)
(***************************************************************************)
EXTENDS Heartbeat, FiniteSetTheorems, TLAPS

\* Heartbeats reach everybody within half the time a listener waits.
ShortDelays == 2 * MaxDelay < ListenTimeout

Quiet == SendPeriod + 2 * MaxDelay

\* The sources of the heartbeats in a listener's queue.
Sources(q) == {q[i] : i \in 1 .. Len(q)}

Hearing == {l \in Running : ~pumpDead[l]}

\* The two threads of a leader that was not stopped are in their loops.
ThreadsRun == \A l \in Running : sleeping[l] # Ended /\ waiting[l] # Ended

\* A stopped leader's sender wakes up once more, within SendPeriod ...
LastSends ==
    \A l \in Leaders :
        stopped[l] /\ sleeping[l] # Ended => sleeping[l] <= SendPeriod - leaderless

\* ... so its last heartbeats were sent by then.
LastHeartbeats == \A m \in net : stopped[m.source] => leaderless - m.age <= SendPeriod

\* A heartbeat goes to everybody: while one copy of it is under way, everybody else's copy
\* is too, or has restarted their wait, or is about to.
Broadcast ==
    \A m \in net, l \in Hearing :
        \/ [m EXCEPT !.to = l] \in net
        \/ waiting[l] <= m.age
        \/ queue[l] # <<>>
        \/ l = m.source /\ isPrimary[l]

\* A heartbeat sent at time a has restarted everybody's wait, or is about to.
Reached(a) ==
    /\ a <= leaderless
    /\ \A l \in Hearing : \/ waiting[l] <= leaderless - a
                          \/ queue[l] # <<>>
                          \/ \E r \in net : r.to = l /\ leaderless - r.age = a

\* One that was sent by SendPeriod and could still arrive at time t has.
Restart(t) == \E a \in Int : t - MaxDelay <= a /\ a <= SendPeriod /\ Reached(a)

Outranked(s) == \E p \in RunningPrimaries : p >= s

\* A running leader that sent a heartbeat while there is no primary was deposed by one
\* sent by SendPeriod, or will be in the present tick.
Brief ==
    \A m \in net : m.age < leaderless /\ ~stopped[m.source] =>
        \/ Restart(leaderless - m.age)
        \/ m.age = 0 /\ Outranked(m.source)

Deposable == {k \in RunningPrimaries : ~pumpDead[k] \/ queue[k] # <<>>}

\* A leader that has just timed out is deposed only by such a heartbeat: with none under
\* way, whoever could depose it is outranked by a primary.
Lasting ==
    leaderless > 0 /\ Deposable # {} =>
        \/ Restart(leaderless)
        \/ /\ \A m \in net : Outranked(m.source)
           /\ \A k \in Deposable : \A s \in Sources(queue[k]) : Outranked(s)

\* After Quiet nothing is heard while there is no primary, and the listeners wait on.
Waits ==
    /\ leaderless > Quiet => \A l \in Running : queue[l] # <<>> => RunningPrimaries # {}
    /\ RunningPrimaries = {} => \A l \in Running : waiting[l] >= leaderless - Quiet

TakeOverInv ==
    /\ TypeOK
    /\ ThreadsRun
    /\ LastSends
    /\ LastHeartbeats
    /\ Broadcast
    /\ Brief
    /\ Lasting
    /\ Waits
    /\ leaderless <= TakeOverTime

-----------------------------------------------------------------------------

\* What the provers need to know of the state's components.
LEMMA Shapes ==
    ASSUME TypeOK
    PROVE  /\ Leaders \subseteq Nat /\ SendPeriod \in Nat \ {0}
           /\ ListenTimeout \in Nat /\ MaxDelay \in Nat /\ leaderless \in Nat
           /\ \A m \in net : /\ m \in Heartbeats /\ m.source \in Leaders /\ m.to \in Leaders
                             /\ m.age \in Nat /\ m.age <= MaxDelay
           /\ \A l \in Leaders : /\ sleeping[l] \in Int /\ sleeping[l] <= SendPeriod
                                 /\ sleeping[l] # Ended => sleeping[l] >= 0
                                 /\ waiting[l] \in Int /\ waiting[l] <= ListenTimeout
                                 /\ waiting[l] # Ended => waiting[l] >= 0
                                 /\ queue[l] \in Seq(Leaders)
  BY LeadersAssumption, TimesAssumption DEF TypeOK, Heartbeats, Ended

\* Putting a heartbeat at the end of a queue and taking one off its head.
LEMMA QueueFacts ==
    ASSUME NEW q \in Seq(Leaders)
    PROVE  /\ Sources(q) \subseteq Leaders
           /\ \A s \in Leaders : /\ Append(q, s) \in Seq(Leaders) /\ Append(q, s) # <<>>
                                 /\ Sources(Append(q, s)) = Sources(q) \cup {s}
           /\ q # <<>> => /\ Head(q) \in Sources(q) /\ Tail(q) \in Seq(Leaders)
                          /\ Sources(q) = {Head(q)} \cup Sources(Tail(q))
           /\ q = <<>> => Sources(q) = {}
<1>1. Sources(q) \subseteq Leaders
  BY DEF Sources
<1>2. ASSUME NEW s \in Leaders
      PROVE  /\ Append(q, s) \in Seq(Leaders) /\ Append(q, s) # <<>>
             /\ Sources(Append(q, s)) = Sources(q) \cup {s}
  <2>1. Append(q, s) \in Seq(Leaders) /\ Len(Append(q, s)) = Len(q) + 1 /\ Len(q) \in Nat
    OBVIOUS
  <2>2. \A i \in 1 .. Len(q) + 1 : Append(q, s)[i] = IF i <= Len(q) THEN q[i] ELSE s
    OBVIOUS
  <2>3. Append(q, s) # <<>>
    BY <2>1
  <2>4. s \in Sources(Append(q, s))
    BY <2>1, <2>2 DEF Sources
  <2>5. Sources(q) \subseteq Sources(Append(q, s))
    BY <2>1, <2>2 DEF Sources
  <2>6. Sources(Append(q, s)) \subseteq Sources(q) \cup {s}
    BY <2>1, <2>2 DEF Sources
  <2> QED BY <2>1, <2>3, <2>4, <2>5, <2>6
<1>3. ASSUME q # <<>>
      PROVE  /\ Head(q) \in Sources(q) /\ Tail(q) \in Seq(Leaders)
             /\ Sources(q) = {Head(q)} \cup Sources(Tail(q))
  <2>1. Len(q) \in Nat /\ Len(q) >= 1 /\ Head(q) = q[1]
    BY <1>3
  <2>2. Tail(q) \in Seq(Leaders) /\ Len(Tail(q)) = Len(q) - 1
    BY <1>3
  <2>3. \A i \in 1 .. Len(q) - 1 : Tail(q)[i] = q[i + 1] /\ i + 1 \in 1 .. Len(q)
    BY <1>3, <2>1
  <2>4. {Head(q)} \cup Sources(Tail(q)) \subseteq Sources(q)
    BY <2>1, <2>2, <2>3 DEF Sources
  <2>5. ASSUME NEW i \in 1 .. Len(q) PROVE q[i] \in {Head(q)} \cup Sources(Tail(q))
    <3>1. CASE i = 1
      BY <2>1, <3>1
    <3>2. CASE i # 1
      <4>1. i - 1 \in 1 .. Len(q) - 1 /\ (i - 1) + 1 = i
        BY <2>1, <3>2
      <4>2. Tail(q)[i - 1] = q[i]
        BY <2>3, <4>1
      <4> QED BY <2>2, <4>1, <4>2 DEF Sources
    <3> QED BY <3>1, <3>2
  <2> QED BY <2>1, <2>2, <2>4, <2>5 DEF Sources
<1>4. q = <<>> => Sources(q) = {}
  BY DEF Sources
<1> QED BY <1>1, <1>2, <1>3, <1>4

\* Nothing sent by SendPeriod arrives later than MaxDelay after it.
LEMMA NoRestart ==
    ASSUME TypeOK, NEW t \in Int, t > SendPeriod + MaxDelay
    PROVE  ~Restart(t)
  BY Shapes DEF Restart

\* After Quiet, a heartbeat under way was sent in the present tick by a leader that is
\* primary or is outranked by one.
LEMMA LateHeartbeat ==
    ASSUME TypeOK, LastHeartbeats, Brief, leaderless > Quiet, NEW m \in net
    PROVE  RunningPrimaries # {}
<1>1. m.age \in Nat /\ m.age <= MaxDelay /\ leaderless \in Nat /\ MaxDelay \in Nat /\ SendPeriod \in Nat
  BY Shapes
<1>2. leaderless - m.age > SendPeriod + MaxDelay
  BY <1>1 DEF Quiet
<1>3. ~stopped[m.source] /\ m.age < leaderless
  BY <1>1, <1>2 DEF LastHeartbeats
<1>4. ~Restart(leaderless - m.age)
  BY <1>1, <1>2, NoRestart
<1> QED BY <1>3, <1>4 DEF Brief, Outranked

\* HeartbeatSender.run keeps the invariant: a stopped leader sends by SendPeriod, and its
\* heartbeat goes to everybody.
LEMMA SendStep ==
    ASSUME TakeOverInv, NEW l \in Leaders, SendHeartbeats(l)
    PROVE  TakeOverInv'
<1> DEFINE New == {[source |-> l, to |-> k, age |-> 0] :
                      k \in {k \in Leaders \ {l} : isPrimary[l]}}
<1>1. /\ TypeOK /\ ThreadsRun /\ LastSends /\ LastHeartbeats /\ Broadcast /\ Brief
      /\ Lasting /\ Waits /\ leaderless <= TakeOverTime
  BY DEF TakeOverInv
<1>2. /\ sleeping[l] = 0 /\ net' = net \cup New
      /\ sleeping' = [sleeping EXCEPT ![l] = Looped(l, SendPeriod)]
      /\ isPrimary' = isPrimary /\ stopped' = stopped /\ pumpDead' = pumpDead
      /\ waiting' = waiting /\ queue' = queue /\ leaderless' = leaderless
      /\ contended' = contended
  BY DEF SendHeartbeats
<1>3. New \subseteq Heartbeats
  BY Shapes, <1>1 DEF Heartbeats
<1>4. \A m \in New : m.source = l /\ m.age = 0 /\ isPrimary[l]
  OBVIOUS
<1>5. \A m \in New, k \in Leaders \ {l} : [m EXCEPT !.to = k] \in New
  OBVIOUS
<1>6. ASSUME isPrimary[l], NEW k \in Leaders \ {l}
      PROVE  \E r \in New : r.to = k /\ r.age = 0
  <2>1. [source |-> l, to |-> k, age |-> 0] \in New
    BY <1>6
  <2> QED BY <2>1
<1> HIDE DEF New
<1>7. Running' = Running /\ RunningPrimaries' = RunningPrimaries /\ Hearing' = Hearing
      /\ Deposable' = Deposable /\ \A s : Outranked(s)' = Outranked(s)
  BY <1>2 DEF Running, RunningPrimaries, Hearing, Deposable, Outranked
<1>8. sleeping' \in [Leaders -> 0 .. SendPeriod \cup {Ended}]
  BY <1>1, <1>2, TimesAssumption DEF TypeOK, Looped
<1>9. TypeOK'
  BY <1>1, <1>2, <1>3, <1>8 DEF TypeOK
<1>10. ThreadsRun'
  BY <1>1, <1>2, <1>7, TimesAssumption DEF TypeOK, ThreadsRun, Looped, Running, Ended
<1>11. stopped[l] => leaderless <= SendPeriod
  BY <1>1, <1>2, Shapes DEF LastSends, Ended
<1>12. LastSends'
  BY <1>1, <1>2 DEF LastSends, TypeOK, Looped
<1>13. LastHeartbeats'
  BY <1>1, <1>2, <1>4, <1>11, Shapes DEF LastHeartbeats
<1>14. Broadcast'
  <2> SUFFICES ASSUME NEW m \in net', NEW k \in Hearing
               PROVE  \/ [m EXCEPT !.to = k] \in net' \/ waiting[k] <= m.age
                      \/ queue[k] # <<>>
                      \/ k = m.source /\ isPrimary[k]
    BY <1>2, <1>7 DEF Broadcast
  <2>1. CASE m \in net
    BY <1>1, <1>2, <2>1 DEF Broadcast
  <2>2. CASE m \in New
    BY <1>2, <1>4, <1>5, <2>2 DEF Hearing, Running
  <2> QED BY <1>2, <2>1, <2>2
<1>15. \A a : Reached(a) => Reached(a)'
  BY <1>2, <1>7 DEF Reached
<1>16. \A t : Restart(t) => Restart(t)'
  BY <1>15 DEF Restart
<1>17. Brief'
  <2> SUFFICES ASSUME NEW m \in net', m.age < leaderless, ~stopped[m.source]
               PROVE  \/ Restart(leaderless - m.age)'
                      \/ m.age = 0 /\ Outranked(m.source)
    BY <1>2, <1>7 DEF Brief
  <2>1. CASE m \in net
    BY <1>1, <1>2, <1>16, <2>1 DEF Brief
  <2>2. CASE m \in New
    <3>1. l \in RunningPrimaries /\ l >= l
      BY <1>1, <1>4, <2>2, Shapes DEF RunningPrimaries
    <3> QED BY <1>4, <2>2, <3>1 DEF Outranked
  <2> QED BY <1>2, <2>1, <2>2
<1>18. Lasting'
  <2> SUFFICES ASSUME leaderless > 0, Deposable # {}, ~Restart(leaderless)'
               PROVE  /\ \A m \in net' : Outranked(m.source)
                      /\ \A k \in Deposable : \A s \in Sources(queue[k]) : Outranked(s)
    BY <1>2, <1>7 DEF Lasting
  <2>1. ~Restart(leaderless)
    BY <1>2, <1>16
  <2>2. /\ \A m \in net : Outranked(m.source)
        /\ \A k \in Deposable : \A s \in Sources(queue[k]) : Outranked(s)
    BY <1>1, <2>1 DEF Lasting
  <2>3. CASE ~stopped[l]
    <3>1. (l \in RunningPrimaries /\ l >= l) \/ New = {}
      BY <1>1, <1>4, <2>3, Shapes DEF RunningPrimaries
    <3> QED BY <1>2, <1>4, <2>2, <3>1 DEF Outranked
  <2>4. CASE stopped[l] /\ ~isPrimary[l]
    BY <1>2, <1>4, <2>2, <2>4
  <2>5. CASE stopped[l] /\ isPrimary[l]
    <3>1. \A k \in Hearing : \E r \in net' : r.to = k /\ leaderless - r.age = leaderless
      BY <1>1, <1>2, <1>6, <2>5, Shapes DEF Hearing, Running
    <3>2. Reached(leaderless)'
      BY <1>1, <1>2, <1>7, <3>1, Shapes DEF Reached
    <3>3. Restart(leaderless)'
      BY <1>1, <1>2, <1>11, <2>5, <3>2, Shapes DEF Restart
    <3> QED BY <3>3
  <2> QED BY <2>3, <2>4, <2>5
<1>19. Waits'
  BY <1>1, <1>2, <1>7 DEF Waits
<1> QED BY <1>1, <1>2, <1>9, <1>10, <1>12, <1>13, <1>14, <1>17, <1>18, <1>19 DEF TakeOverInv

\* newHB keeps the invariant: what is delivered restarts a wait, and after Quiet nothing is
\* delivered while there is no primary.
LEMMA DeliverStep ==
    ASSUME TakeOverInv, NEW m \in net, DeliverHeartbeat(m)
    PROVE  TakeOverInv'
<1>1. /\ TypeOK /\ ThreadsRun /\ LastSends /\ LastHeartbeats /\ Broadcast /\ Brief
      /\ Lasting /\ Waits /\ leaderless <= TakeOverTime
  BY DEF TakeOverInv
<1>2. /\ net' = net \ {m}
      /\ queue' = IF stopped[m.to] \/ pumpDead[m.to]
                  THEN queue ELSE [queue EXCEPT ![m.to] = Append(@, m.source)]
      /\ isPrimary' = isPrimary /\ stopped' = stopped /\ pumpDead' = pumpDead
      /\ sleeping' = sleeping /\ waiting' = waiting /\ leaderless' = leaderless
      /\ contended' = contended
  BY DEF DeliverHeartbeat
<1>3. m.to \in Leaders /\ m.source \in Leaders /\ \A k \in Leaders : queue[k] \in Seq(Leaders)
  BY <1>1, Shapes
<1>4. /\ queue' \in [Leaders -> Seq(Leaders)]
      /\ m.to \in Hearing => /\ queue'[m.to] # <<>>
                             /\ Sources(queue'[m.to]) \subseteq Sources(queue[m.to]) \cup {m.source}
      /\ \A k \in Leaders : k # m.to \/ m.to \notin Hearing => queue'[k] = queue[k]
  <2>1. /\ Append(queue[m.to], m.source) \in Seq(Leaders)
        /\ Append(queue[m.to], m.source) # <<>>
        /\ Sources(Append(queue[m.to], m.source)) \subseteq Sources(queue[m.to]) \cup {m.source}
    BY <1>3, QueueFacts
  <2>2. queue \in [Leaders -> Seq(Leaders)]
    BY <1>1 DEF TypeOK
  <2>3. CASE stopped[m.to] \/ pumpDead[m.to]
    BY <1>2, <2>2, <2>3 DEF Hearing, Running
  <2>4. CASE ~(stopped[m.to] \/ pumpDead[m.to])
    <3>1. queue' = [queue EXCEPT ![m.to] = Append(queue[m.to], m.source)]
      BY <1>2, <2>4
    <3>2. queue'[m.to] = Append(queue[m.to], m.source)
      BY <1>3, <2>2, <3>1
    <3>3. m.to \in Hearing
      BY <1>3, <2>4 DEF Hearing, Running
    <3>4. queue' \in [Leaders -> Seq(Leaders)] /\ \A k \in Leaders : k # m.to => queue'[k] = queue[k]
      BY <2>1, <2>2, <3>1
    <3> QED BY <2>1, <3>2, <3>3, <3>4
  <2> QED BY <2>3, <2>4
<1>5. TypeOK'
  BY <1>1, <1>2, <1>4 DEF TypeOK
<1>6. \A k \in Leaders : queue[k] # <<>> => queue'[k] # <<>>
  BY <1>4
<1>7. /\ Running' = Running /\ RunningPrimaries' = RunningPrimaries /\ Hearing' = Hearing
      /\ \A s : Outranked(s)' = Outranked(s)
  BY <1>2 DEF Running, RunningPrimaries, Hearing, Outranked
<1>8. Deposable' = Deposable
  BY <1>2, <1>4, <1>7 DEF Deposable, Hearing, Running, RunningPrimaries
<1>9. ThreadsRun' /\ LastSends' /\ LastHeartbeats'
  BY <1>1, <1>2, <1>7 DEF ThreadsRun, LastSends, LastHeartbeats
<1>10. Hearing \subseteq Leaders
  BY DEF Hearing, Running
<1>11. Broadcast'
  <2> SUFFICES ASSUME NEW x \in net', NEW k \in Hearing
               PROVE  \/ [x EXCEPT !.to = k] \in net'
                      \/ waiting[k] <= x.age
                      \/ queue'[k] # <<>>
                      \/ k = x.source /\ isPrimary[k]
    BY <1>2, <1>7 DEF Broadcast
  <2>1. CASE [x EXCEPT !.to = k] = m
    <3>1. m.to = k
      BY <1>1, <1>2, <2>1, Shapes DEF Heartbeats
    <3> QED BY <1>4, <3>1
  <2>2. CASE [x EXCEPT !.to = k] # m
    BY <1>1, <1>2, <1>6, <1>10, <2>2 DEF Broadcast
  <2> QED BY <2>1, <2>2
<1>12. \A a : Reached(a) => Reached(a)'
  BY <1>2, <1>4, <1>6, <1>7, <1>10 DEF Reached
<1>13. \A t : Restart(t) => Restart(t)'
  BY <1>12 DEF Restart
<1>14. Brief'
  BY <1>1, <1>2, <1>7, <1>13 DEF Brief
<1>15. Lasting'
  <2> SUFFICES ASSUME leaderless > 0, Deposable # {}, ~Restart(leaderless)'
               PROVE  /\ \A x \in net' : Outranked(x.source)
                      /\ \A k \in Deposable : \A s \in Sources(queue'[k]) : Outranked(s)
    BY <1>2, <1>7, <1>8 DEF Lasting
  <2>1. /\ \A x \in net : Outranked(x.source)
        /\ \A k \in Deposable : \A s \in Sources(queue[k]) : Outranked(s)
    BY <1>1, <1>2, <1>13 DEF Lasting
  <2>2. ASSUME NEW k \in Deposable, NEW s \in Sources(queue'[k]) PROVE Outranked(s)
    <3>1. k \in Leaders
      BY DEF Deposable, RunningPrimaries
    <3>2. s \in Sources(queue[k]) \/ s = m.source
      BY <1>4, <2>2, <3>1
    <3> QED BY <2>1, <3>2
  <2> QED BY <1>2, <2>1, <2>2
<1>16. Waits'
  BY <1>1, <1>2, <1>7, LateHeartbeat DEF Waits
<1> QED BY <1>1, <1>2, <1>5, <1>9, <1>11, <1>14, <1>15, <1>16 DEF TakeOverInv

\* HeartbeatListener.run keeps the invariant when a heartbeat is heard: after Quiet a
\* leader is deposed only in favour of one that is primary.
LEMMA HearStep ==
    ASSUME TakeOverInv, NEW l \in Leaders, HearHeartbeat(l)
    PROVE  TakeOverInv'
<1> DEFINE x == Head(queue[l])
<1>1. /\ TypeOK /\ ThreadsRun /\ LastSends /\ LastHeartbeats /\ Broadcast /\ Brief
      /\ Lasting /\ Waits /\ leaderless <= TakeOverTime
  BY DEF TakeOverInv
<1>2. /\ waiting[l] # Ended /\ queue[l] # <<>>
      /\ isPrimary' = [isPrimary EXCEPT ![l] = isPrimary[l] /\ ~(x > l)]
      /\ queue' = [queue EXCEPT ![l] = Tail(queue[l])]
      /\ waiting' = [waiting EXCEPT ![l] = Looped(l, 0)]
      /\ stopped' = stopped /\ pumpDead' = pumpDead /\ sleeping' = sleeping
      /\ net' = net /\ leaderless' = leaderless /\ contended' = contended
  BY DEF HearHeartbeat
<1>3. /\ x \in Sources(queue[l]) /\ x \in Leaders /\ Tail(queue[l]) \in Seq(Leaders)
      /\ Sources(Tail(queue[l])) \subseteq Sources(queue[l])
  BY <1>1, <1>2, QueueFacts, Shapes
<1> HIDE DEF x
<1>4. /\ queue' \in [Leaders -> Seq(Leaders)]
      /\ \A k \in Leaders : /\ Sources(queue'[k]) \subseteq Sources(queue[k])
                            /\ k # l => queue'[k] = queue[k]
  BY <1>1, <1>2, <1>3 DEF TypeOK
<1>5. /\ waiting' \in [Leaders -> 0 .. ListenTimeout \cup {Ended}]
      /\ \A k \in Leaders : k # l => waiting'[k] = waiting[k]
      /\ ~stopped[l] => waiting'[l] = 0
  BY <1>1, <1>2, TimesAssumption DEF TypeOK, Looped
<1>6. /\ isPrimary' \in [Leaders -> BOOLEAN]
      /\ \A k \in Leaders : k # l => isPrimary'[k] = isPrimary[k]
      /\ isPrimary'[l] <=> isPrimary[l] /\ ~(x > l)
  <2>1. isPrimary \in [Leaders -> BOOLEAN]
    BY <1>1 DEF TypeOK
  <2> QED BY <1>2, <2>1, Zenon
<1>7. TypeOK'
  BY <1>1, <1>2, <1>4, <1>5, <1>6 DEF TypeOK
<1>8. Running' = Running /\ Hearing' = Hearing /\ Hearing \subseteq Running /\ Running \subseteq Leaders
  BY <1>2 DEF Running, Hearing
<1>9. /\ RunningPrimaries' \subseteq RunningPrimaries
      /\ \A k \in RunningPrimaries : k \in RunningPrimaries' \/ (k = l /\ x > l)
      /\ RunningPrimaries \subseteq Running
  BY <1>2, <1>6 DEF RunningPrimaries, Running
<1>10. Deposable' \subseteq Deposable
  <2>1. ASSUME NEW k \in RunningPrimaries, queue'[k] # <<>> PROVE queue[k] # <<>>
    BY <1>2, <1>4, <2>1 DEF RunningPrimaries
  <2> QED BY <1>2, <1>9, <2>1 DEF Deposable
<1>11. ThreadsRun'
  <2> SUFFICES ASSUME NEW k \in Running PROVE sleeping[k] # Ended /\ waiting'[k] # Ended
    BY <1>2, <1>8 DEF ThreadsRun
  <2>1. CASE k = l
    BY <1>1, <1>5, <2>1 DEF ThreadsRun, Running, Ended
  <2>2. CASE k # l
    BY <1>1, <1>5, <1>8, <2>2 DEF ThreadsRun
  <2> QED BY <2>1, <2>2
<1>12. LastSends' /\ LastHeartbeats'
  BY <1>1, <1>2 DEF LastSends, LastHeartbeats
<1>13. Broadcast'
  <2> SUFFICES ASSUME NEW m \in net, NEW k \in Hearing
               PROVE  \/ [m EXCEPT !.to = k] \in net
                      \/ waiting'[k] <= m.age
                      \/ queue'[k] # <<>>
                      \/ k = m.source /\ isPrimary'[k]
    BY <1>2, <1>8 DEF Broadcast
  <2>1. CASE k = l
    <3>1. waiting'[k] = 0 /\ m.age \in Nat
      BY <1>1, <1>5, <2>1, Shapes DEF Hearing, Running
    <3> QED BY <3>1
  <2>2. CASE k # l
    <3>1. waiting'[k] = waiting[k] /\ queue'[k] = queue[k] /\ (isPrimary'[k] <=> isPrimary[k])
      BY <1>4, <1>5, <1>6, <1>8, <2>2
    <3> QED BY <1>1, <3>1 DEF Broadcast
  <2> QED BY <2>1, <2>2
<1>14. ASSUME NEW a \in Int, Reached(a) PROVE Reached(a)'
  <2> SUFFICES ASSUME NEW k \in Hearing
               PROVE  \/ waiting'[k] <= leaderless - a
                      \/ queue'[k] # <<>>
                      \/ \E r \in net : r.to = k /\ leaderless - r.age = a
    BY <1>2, <1>8, <1>14 DEF Reached
  <2>1. CASE k = l
    <3>1. waiting'[k] = 0 /\ a <= leaderless /\ leaderless \in Nat
      BY <1>1, <1>5, <1>14, <2>1, Shapes DEF Hearing, Running, Reached
    <3> QED BY <3>1
  <2>2. CASE k # l
    <3>1. waiting'[k] = waiting[k] /\ queue'[k] = queue[k]
      BY <1>4, <1>5, <1>8, <2>2
    <3> QED BY <1>14, <3>1 DEF Reached
  <2> QED BY <2>1, <2>2
<1>15. \A t : Restart(t) => Restart(t)'
  BY <1>14 DEF Restart
<1>16. ASSUME NEW s \in Leaders, Outranked(s), leaderless > 0, ~Restart(leaderless)
       PROVE  Outranked(s)'
  <2>1. PICK p \in RunningPrimaries : p >= s
    BY <1>16 DEF Outranked
  <2>2. CASE p \in RunningPrimaries'
    BY <2>1, <2>2 DEF Outranked
  <2>3. CASE p = l /\ x > l
    <3>1. l \in Deposable
      BY <1>2, <2>3 DEF Deposable
    <3>2. Outranked(x)
      BY <1>1, <1>3, <1>16, <3>1 DEF Lasting
    <3>3. PICK q \in RunningPrimaries : q >= x
      BY <3>2 DEF Outranked
    <3>4. l \in Nat /\ x \in Nat /\ q \in Nat /\ s \in Nat
      BY <1>1, <1>3, <1>8, <1>9, <3>3, Shapes
    <3>5. q # l /\ q >= s
      BY <2>1, <2>3, <3>3, <3>4
    <3> QED BY <1>9, <3>5 DEF Outranked
  <2> QED BY <1>9, <2>1, <2>2, <2>3
<1>17. Brief'
  <2> SUFFICES ASSUME NEW m \in net, m.age < leaderless, ~stopped[m.source],
                      ~Restart(leaderless - m.age)'
               PROVE  m.age = 0 /\ Outranked(m.source)'
    BY <1>2 DEF Brief
  <2>1. ~Restart(leaderless - m.age)
    BY <1>2, <1>15
  <2>2. m.age = 0 /\ Outranked(m.source)
    BY <1>1, <2>1 DEF Brief
  <2>3. leaderless - m.age = leaderless /\ leaderless > 0 /\ m.source \in Leaders
    BY <1>1, <2>2, Shapes
  <2> QED BY <1>16, <2>1, <2>2, <2>3
<1>18. Lasting'
  <2> SUFFICES ASSUME leaderless > 0, Deposable' # {}, ~Restart(leaderless)'
               PROVE  /\ \A m \in net : Outranked(m.source)'
                      /\ \A k \in Deposable' : \A s \in Sources(queue'[k]) : Outranked(s)'
    BY <1>2 DEF Lasting
  <2>1. ~Restart(leaderless)
    BY <1>2, <1>15
  <2>2. /\ \A m \in net : Outranked(m.source)
        /\ \A k \in Deposable : \A s \in Sources(queue[k]) : Outranked(s)
    BY <1>1, <1>10, <2>1 DEF Lasting
  <2>3. \A m \in net : m.source \in Leaders
    BY <1>1, Shapes
  <2>4. \A k \in Leaders : Sources(queue[k]) \subseteq Leaders
    BY <1>1, Shapes, QueueFacts
  <2>5. Deposable \subseteq Leaders
    BY DEF Deposable, RunningPrimaries
  <2> QED BY <1>4, <1>10, <1>16, <2>1, <2>2, <2>3, <2>4, <2>5
<1>19. Waits'
  <2>1. ASSUME leaderless > Quiet, RunningPrimaries # {} PROVE RunningPrimaries' # {}
    <3>1. leaderless > SendPeriod + MaxDelay /\ leaderless > 0 /\ leaderless \in Int
      BY <1>1, <2>1, Shapes DEF Quiet
    <3>2. ~Restart(leaderless)
      BY <1>1, <3>1, NoRestart
    <3>3. PICK p \in RunningPrimaries : p \in Leaders /\ p >= p
      BY <1>1, <1>8, <1>9, <2>1, Shapes
    <3> QED BY <1>16, <3>1, <3>2, <3>3 DEF Outranked
  <2>2. ASSUME leaderless > Quiet, NEW k \in Running, queue'[k] # <<>>
        PROVE  RunningPrimaries' # {}
    <3>1. queue[k] # <<>>
      BY <1>2, <1>4, <1>8, <2>2
    <3> QED BY <1>1, <2>1, <2>2, <3>1 DEF Waits
  <2>3. ASSUME RunningPrimaries' = {}, NEW k \in Running
        PROVE  waiting'[k] >= leaderless - Quiet
    <3>1. CASE leaderless <= Quiet
      <4>1. waiting'[k] \in Int /\ waiting'[k] >= 0
        BY <1>7, <1>8, <1>11, Shapes, TimesAssumption DEF ThreadsRun, TypeOK, Ended
      <4> QED BY <1>1, <3>1, <4>1, Shapes DEF Quiet
    <3>2. CASE leaderless > Quiet
      <4>1. RunningPrimaries = {}
        BY <2>1, <2>3, <3>2
      <4>2. k # l
        BY <1>1, <1>2, <3>2, <4>1 DEF Waits
      <4> QED BY <1>1, <1>5, <1>8, <4>1, <4>2 DEF Waits
    <3> QED BY <1>1, <3>1, <3>2, Shapes DEF Quiet
  <2> QED BY <1>2, <1>8, <2>2, <2>3 DEF Waits
<1> QED BY <1>1, <1>2, <1>7, <1>11, <1>12, <1>13, <1>17, <1>18, <1>19 DEF TakeOverInv

\* HeartbeatListener.run keeps the invariant when queue.get times out: a heartbeat that
\* could depose the new primary was sent by SendPeriod, or the listener would have heard
\* the one that deposed its sender.
LEMMA TimeOutStep ==
    ASSUME ShortDelays, TakeOverInv, NEW l \in Leaders, TimeOut(l)
    PROVE  TakeOverInv'
<1>1. /\ TypeOK /\ ThreadsRun /\ LastSends /\ LastHeartbeats /\ Broadcast /\ Brief
      /\ Lasting /\ Waits /\ leaderless <= TakeOverTime
  BY DEF TakeOverInv
<1>2. /\ waiting[l] = ListenTimeout /\ queue[l] = <<>>
      /\ isPrimary' = [isPrimary EXCEPT ![l] = TRUE]
      /\ waiting' = [waiting EXCEPT ![l] = Looped(l, 0)]
      /\ stopped' = stopped /\ pumpDead' = pumpDead /\ sleeping' = sleeping
      /\ queue' = queue /\ net' = net /\ leaderless' = leaderless /\ contended' = contended
  BY DEF TimeOut
<1>3. /\ waiting' \in [Leaders -> 0 .. ListenTimeout \cup {Ended}]
      /\ \A k \in Leaders : k # l => waiting'[k] = waiting[k]
      /\ ~stopped[l] => waiting'[l] = 0
  BY <1>1, <1>2, TimesAssumption DEF TypeOK, Looped
<1>4. /\ isPrimary' \in [Leaders -> BOOLEAN]
      /\ \A k \in Leaders : k # l => isPrimary'[k] = isPrimary[k]
      /\ isPrimary'[l]
  <2>1. isPrimary \in [Leaders -> BOOLEAN]
    BY <1>1 DEF TypeOK
  <2> QED BY <1>2, <2>1, Zenon
<1>5. TypeOK'
  BY <1>1, <1>2, <1>3, <1>4 DEF TypeOK
<1>6. Running' = Running /\ Hearing' = Hearing /\ Hearing \subseteq Running /\ Running \subseteq Leaders
  BY <1>2 DEF Running, Hearing
<1>7. /\ RunningPrimaries \subseteq RunningPrimaries'
      /\ \A k \in RunningPrimaries' : k \in RunningPrimaries \/ k = l
      /\ l \in Running => l \in RunningPrimaries'
      /\ RunningPrimaries' \subseteq Running
  BY <1>2, <1>4 DEF RunningPrimaries, Running
<1>8. \A s : Outranked(s) => Outranked(s)'
  BY <1>7 DEF Outranked
<1>9. ThreadsRun'
  <2> SUFFICES ASSUME NEW k \in Running PROVE sleeping[k] # Ended /\ waiting'[k] # Ended
    BY <1>2, <1>6 DEF ThreadsRun
  <2>1. CASE k = l
    BY <1>1, <1>3, <2>1 DEF ThreadsRun, Running, Ended
  <2>2. CASE k # l
    BY <1>1, <1>3, <1>6, <2>2 DEF ThreadsRun
  <2> QED BY <2>1, <2>2
<1>10. LastSends' /\ LastHeartbeats'
  BY <1>1, <1>2 DEF LastSends, LastHeartbeats
<1>11. Broadcast'
  <2> SUFFICES ASSUME NEW m \in net, NEW k \in Hearing
               PROVE  \/ [m EXCEPT !.to = k] \in net
                      \/ waiting'[k] <= m.age
                      \/ queue[k] # <<>>
                      \/ k = m.source /\ isPrimary'[k]
    BY <1>2, <1>6 DEF Broadcast
  <2>1. CASE k = l
    <3>1. waiting'[k] = 0 /\ m.age \in Nat
      BY <1>1, <1>3, <2>1, Shapes DEF Hearing, Running
    <3> QED BY <3>1
  <2>2. CASE k # l
    <3>1. waiting'[k] = waiting[k] /\ (isPrimary'[k] <=> isPrimary[k])
      BY <1>3, <1>4, <1>6, <2>2
    <3> QED BY <1>1, <3>1 DEF Broadcast
  <2> QED BY <2>1, <2>2
<1>12. ASSUME NEW a \in Int, Reached(a) PROVE Reached(a)'
  <2> SUFFICES ASSUME NEW k \in Hearing
               PROVE  \/ waiting'[k] <= leaderless - a
                      \/ queue[k] # <<>>
                      \/ \E r \in net : r.to = k /\ leaderless - r.age = a
    BY <1>2, <1>6, <1>12 DEF Reached
  <2>1. CASE k = l
    <3>1. waiting'[k] = 0 /\ a <= leaderless /\ leaderless \in Nat
      BY <1>1, <1>3, <1>12, <2>1, Shapes DEF Hearing, Running, Reached
    <3> QED BY <3>1
  <2>2. CASE k # l
    BY <1>3, <1>6, <1>12, <2>2 DEF Reached
  <2> QED BY <2>1, <2>2
<1>13. \A t : Restart(t) => Restart(t)'
  BY <1>12 DEF Restart
<1>14. Brief'
  <2> SUFFICES ASSUME NEW m \in net, m.age < leaderless, ~stopped[m.source],
                      ~Restart(leaderless - m.age)'
               PROVE  m.age = 0 /\ Outranked(m.source)'
    BY <1>2 DEF Brief
  <2>1. ~Restart(leaderless - m.age)
    BY <1>2, <1>13
  <2> QED BY <1>1, <1>8, <2>1 DEF Brief
<1>15. ASSUME l \in Hearing, NEW m \in net, ~Outranked(m.source) PROVE Restart(leaderless)
  <2>1. /\ m.age \in Nat /\ m.age <= MaxDelay /\ leaderless \in Nat /\ MaxDelay \in Nat
        /\ m.source \in Leaders /\ m.source >= m.source /\ ListenTimeout \in Nat
    BY <1>1, Shapes
  <2>2. CASE m.age >= leaderless \/ stopped[m.source]
    <3>1. leaderless - m.age <= SendPeriod
      BY <1>1, <2>1, <2>2, Shapes DEF LastHeartbeats
    <3>2. Reached(leaderless - m.age)
      <4> SUFFICES ASSUME NEW k \in Hearing
                   PROVE  \/ waiting[k] <= m.age
                          \/ queue[k] # <<>>
                          \/ \E r \in net : r.to = k /\ r.age = m.age
        BY <2>1 DEF Reached
      <4>1. ~(k = m.source /\ isPrimary[k])
        BY <1>15, <2>1 DEF Outranked, RunningPrimaries, Hearing, Running
      <4>2. [m EXCEPT !.to = k].to = k /\ [m EXCEPT !.to = k].age = m.age
        BY <1>1, Shapes DEF Heartbeats
      <4> QED BY <1>1, <4>1, <4>2 DEF Broadcast
    <3> QED BY <2>1, <3>1, <3>2 DEF Restart
  <2>3. CASE m.age < leaderless /\ ~stopped[m.source]
    <3>1. Restart(leaderless - m.age)
      BY <1>1, <1>15, <2>3 DEF Brief
    <3>2. PICK a \in Int : leaderless - m.age - MaxDelay <= a /\ a <= SendPeriod /\ Reached(a)
      BY <3>1 DEF Restart
    <3>3. ~(waiting[l] <= leaderless - a)
      BY <1>2, <2>1, <3>2 DEF ShortDelays
    <3>4. PICK r \in net : leaderless - r.age = a
      BY <1>2, <1>15, <3>2, <3>3 DEF Reached
    <3>5. r.age \in Nat /\ r.age <= MaxDelay
      BY <1>1, Shapes
    <3>6. leaderless - MaxDelay <= a
      BY <2>1, <3>4, <3>5
    <3> QED BY <3>2, <3>6 DEF Restart
  <2> QED BY <2>1, <2>2, <2>3
<1>16. Lasting'
  <2> SUFFICES ASSUME leaderless > 0, Deposable' # {}, ~Restart(leaderless)'
               PROVE  /\ \A m \in net : Outranked(m.source)'
                      /\ \A k \in Deposable' : \A s \in Sources(queue[k]) : Outranked(s)'
    BY <1>2 DEF Lasting
  <2>1. ~Restart(leaderless)
    BY <1>2, <1>13
  <2>2. /\ \A k \in Deposable' : k \in Deposable \/ (k = l /\ l \in Hearing)
        /\ Sources(queue[l]) = {}
    <3>1. Sources(queue[l]) = {}
      BY <1>1, <1>2, QueueFacts, Shapes
    <3> QED BY <1>2, <1>7, <3>1 DEF Deposable, Hearing
  <2>3. Deposable # {} => /\ \A m \in net : Outranked(m.source)
                          /\ \A k \in Deposable : \A s \in Sources(queue[k]) : Outranked(s)
    BY <1>1, <2>1 DEF Lasting
  <2>4. \A m \in net : Outranked(m.source)
    BY <1>15, <2>1, <2>2, <2>3
  <2> QED BY <1>8, <2>2, <2>3, <2>4
<1>17. Waits'
  <2>1. CASE l \in Running
    BY <1>7, <2>1 DEF Waits
  <2>2. CASE l \notin Running
    <3>1. RunningPrimaries' = RunningPrimaries
      BY <1>7, <2>2
    <3> QED BY <1>1, <1>2, <1>3, <1>6, <2>2, <3>1 DEF Waits
  <2> QED BY <2>1, <2>2
<1> QED BY <1>1, <1>2, <1>5, <1>9, <1>10, <1>11, <1>14, <1>16, <1>17 DEF TakeOverInv

\* stop keeps the invariant: the clock starts again.
LEMMA StopStep ==
    ASSUME TakeOverInv, NEW l \in Leaders, Stop(l)
    PROVE  TakeOverInv'
<1>1. /\ TypeOK /\ ThreadsRun /\ LastSends /\ LastHeartbeats /\ Broadcast /\ Brief
      /\ Lasting /\ Waits /\ leaderless <= TakeOverTime
  BY DEF TakeOverInv
<1>2. /\ stopped' = [stopped EXCEPT ![l] = TRUE]
      /\ leaderless' = 0 /\ contended' = 0
      /\ isPrimary' = isPrimary /\ pumpDead' = pumpDead /\ sleeping' = sleeping
      /\ waiting' = waiting /\ queue' = queue /\ net' = net
  BY DEF Stop
<1>3. TypeOK'
  BY <1>1, <1>2 DEF TypeOK
<1>4. Running' \subseteq Running /\ Hearing' \subseteq Hearing /\ Running \subseteq Leaders
  BY <1>1, <1>2 DEF Running, Hearing, TypeOK
<1>5. ThreadsRun'
  BY <1>1, <1>2, <1>4 DEF ThreadsRun
<1>6. LastSends' /\ LastHeartbeats'
  BY <1>1, <1>2, Shapes DEF LastSends, LastHeartbeats
<1>7. Broadcast'
  BY <1>1, <1>2, <1>4 DEF Broadcast
<1>8. Brief' /\ Lasting'
  BY <1>1, <1>2, Shapes DEF Brief, Lasting
<1>9. Waits'
  <2>1. \A k \in Running : waiting[k] >= 0 /\ waiting[k] \in Int
    BY <1>1, <1>4, Shapes DEF ThreadsRun
  <2> QED BY <1>1, <1>2, <1>4, <2>1, Shapes DEF Waits, Quiet
<1>10. leaderless' <= TakeOverTime'
  BY <1>1, <1>2, Shapes DEF TakeOverTime
<1> QED BY <1>3, <1>5, <1>6, <1>7, <1>8, <1>9, <1>10 DEF TakeOverInv

\* The end of a pump thread keeps the invariant: fewer leaders need to hear anything.
LEMMA PumpDiesStep ==
    ASSUME TakeOverInv, NEW l \in Leaders, PumpDies(l)
    PROVE  TakeOverInv'
<1>1. /\ TypeOK /\ ThreadsRun /\ LastSends /\ LastHeartbeats /\ Broadcast /\ Brief
      /\ Lasting /\ Waits /\ leaderless <= TakeOverTime
  BY DEF TakeOverInv
<1>2. /\ pumpDead' = [pumpDead EXCEPT ![l] = TRUE]
      /\ isPrimary' = isPrimary /\ stopped' = stopped /\ sleeping' = sleeping
      /\ waiting' = waiting /\ queue' = queue /\ net' = net /\ leaderless' = leaderless
      /\ contended' = contended
  BY DEF PumpDies
<1>3. TypeOK'
  BY <1>1, <1>2 DEF TypeOK
<1>4. /\ Running' = Running /\ Hearing' \subseteq Hearing
      /\ RunningPrimaries' = RunningPrimaries /\ Deposable' \subseteq Deposable
      /\ \A s : Outranked(s)' = Outranked(s)
  <2>1. \A k \in Leaders : ~pumpDead'[k] => ~pumpDead[k]
    BY <1>1, <1>2 DEF TypeOK
  <2> QED BY <1>2, <2>1 DEF Running, Hearing, RunningPrimaries, Deposable, Outranked
<1>5. ThreadsRun' /\ LastSends' /\ LastHeartbeats' /\ Waits'
  BY <1>1, <1>2, <1>4 DEF ThreadsRun, LastSends, LastHeartbeats, Waits
<1>6. Broadcast'
  BY <1>1, <1>2, <1>4 DEF Broadcast
<1>7. \A a : Reached(a) => Reached(a)'
  BY <1>2, <1>4 DEF Reached
<1>8. \A t : Restart(t) => Restart(t)'
  BY <1>7 DEF Restart
<1>9. Brief' /\ Lasting'
  BY <1>1, <1>2, <1>4, <1>8 DEF Brief, Lasting
<1> QED BY <1>1, <1>2, <1>3, <1>5, <1>6, <1>9 DEF TakeOverInv

\* A tick keeps the invariant: everything grows older together, and at TakeOverTime the
\* listeners are due.
LEMMA TickStep ==
    ASSUME TakeOverInv, Tick
    PROVE  TakeOverInv'
<1>1. /\ TypeOK /\ ThreadsRun /\ LastSends /\ LastHeartbeats /\ Broadcast /\ Brief
      /\ Lasting /\ Waits /\ leaderless <= TakeOverTime
  BY DEF TakeOverInv
<1>2. \A l \in Leaders : /\ sleeping[l] # 0 /\ waiting[l] # ListenTimeout
                         /\ waiting[l] # Ended => queue[l] = <<>>
  BY DEF Tick
<1>3. /\ sleeping' = [l \in Leaders |-> IF sleeping[l] = Ended THEN Ended ELSE sleeping[l] - 1]
      /\ waiting' = [l \in Leaders |-> IF waiting[l] = Ended THEN Ended ELSE waiting[l] + 1]
      /\ net' = {[m EXCEPT !.age = @ + 1] : m \in net}
      /\ isPrimary' = isPrimary /\ stopped' = stopped /\ pumpDead' = pumpDead /\ queue' = queue
      /\ \A m \in net : m.age < MaxDelay
  BY DEF Tick
<1>4. /\ sleeping' \in [Leaders -> 0 .. SendPeriod \cup {Ended}]
      /\ waiting' \in [Leaders -> 0 .. ListenTimeout \cup {Ended}]
  BY <1>1, <1>2, <1>3, TimesAssumption DEF TypeOK, Ended
<1>5. \A l \in Leaders : /\ sleeping[l] # Ended => sleeping'[l] = sleeping[l] - 1
                         /\ sleeping[l] = Ended => sleeping'[l] = Ended
                         /\ waiting[l] # Ended => waiting'[l] = waiting[l] + 1
  BY <1>3
<1>6. ASSUME NEW m \in net
      PROVE  LET y == [m EXCEPT !.age = m.age + 1]
             IN  /\ y \in Heartbeats /\ y \in net' /\ y.source = m.source
                 /\ y.to = m.to /\ y.age = m.age + 1
  <2>1. m \in Heartbeats /\ m.age < MaxDelay
    BY <1>1, <1>3, Shapes
  <2>2. [m EXCEPT !.age = m.age + 1] \in net'
    BY <1>3
  <2>3. m.age + 1 \in 0 .. MaxDelay
    BY <2>1, TimesAssumption DEF Heartbeats
  <2> QED BY <2>1, <2>2, <2>3 DEF Heartbeats
<1>7. \A y \in net' : \E m \in net : y = [m EXCEPT !.age = m.age + 1]
  BY <1>3
<1>8. /\ Running' = Running /\ RunningPrimaries' = RunningPrimaries /\ Hearing' = Hearing
      /\ Hearing \subseteq Running /\ Running \subseteq Leaders
  BY <1>3 DEF Running, RunningPrimaries, Hearing
<1>9. \A l \in Running : waiting[l] # Ended /\ sleeping[l] # Ended /\ queue[l] = <<>>
  BY <1>1, <1>2, <1>8 DEF ThreadsRun
<1>10. \/ leaderless' = 0
       \/ leaderless' = leaderless + 1 /\ RunningPrimaries = {} /\ leaderless' <= TakeOverTime
  <2>1. CASE RunningPrimaries = {} /\ Running # {}
    <3>1. leaderless' = leaderless + 1
      BY <1>1, <2>1, Shapes DEF Tick, Counted, TakeOverTime
    <3>2. PICK l \in Running : TRUE
      BY <2>1
    <3>3. /\ l \in Leaders /\ waiting[l] >= leaderless - Quiet /\ waiting[l] # ListenTimeout
      BY <1>1, <1>2, <1>8, <2>1 DEF Waits
    <3>4. leaderless + 1 <= Quiet + ListenTimeout
      BY <1>1, <3>3, Shapes DEF Quiet
    <3> QED BY <1>1, <2>1, <3>1, <3>4, Shapes DEF Quiet, TakeOverTime
  <2>2. CASE ~(RunningPrimaries = {} /\ Running # {})
    BY <2>2 DEF Tick
  <2> QED BY <2>1, <2>2
<1>11. contended' \in Nat
  BY <1>1 DEF Tick, Counted, TypeOK
<1>12. TypeOK'
  <2>1. leaderless' \in Nat
    BY <1>1, <1>10, Shapes
  <2>2. net' \subseteq Heartbeats
    BY <1>6, <1>7
  <2> QED BY <1>1, <1>3, <1>4, <1>11, <2>1, <2>2 DEF TypeOK
<1>13. ThreadsRun'
  BY <1>1, <1>2, <1>5, <1>8, <1>9, Shapes DEF ThreadsRun, Ended
<1>14. LastSends'
  <2> SUFFICES ASSUME NEW l \in Leaders, stopped[l], sleeping'[l] # Ended
               PROVE  sleeping'[l] <= SendPeriod - leaderless'
    BY <1>3 DEF LastSends
  <2>1. sleeping'[l] = sleeping[l] - 1 /\ sleeping[l] <= SendPeriod - leaderless
    BY <1>1, <1>5 DEF LastSends
  <2> QED BY <1>1, <1>10, <2>1, Shapes
<1>15. LastHeartbeats'
  <2> SUFFICES ASSUME NEW y \in net', stopped[y.source]
               PROVE  leaderless' - y.age <= SendPeriod
    BY <1>3 DEF LastHeartbeats
  <2>1. PICK m \in net : y.source = m.source /\ y.age = m.age + 1
    <3>1. PICK m \in net : y = [m EXCEPT !.age = m.age + 1]
      BY <1>7
    <3> QED BY <1>6, <3>1
  <2>2. leaderless - m.age <= SendPeriod
    BY <1>1, <2>1 DEF LastHeartbeats
  <2> QED BY <1>1, <1>10, <2>1, <2>2, Shapes
<1>16. Broadcast'
  <2> SUFFICES ASSUME NEW y \in net', NEW k \in Hearing
               PROVE  \/ [y EXCEPT !.to = k] \in net'
                      \/ waiting'[k] <= y.age
                      \/ k = y.source /\ isPrimary[k]
    BY <1>3, <1>8 DEF Broadcast
  <2>1. PICK m \in net : y = [m EXCEPT !.age = m.age + 1]
    BY <1>7
  <2>2. y.source = m.source /\ y.age = m.age + 1 /\ m \in Heartbeats
    BY <1>1, <1>6, <2>1, Shapes
  <2>3. CASE [m EXCEPT !.to = k] \in net
    <3>1. [y EXCEPT !.to = k] = [[m EXCEPT !.to = k] EXCEPT !.age = [m EXCEPT !.to = k].age + 1]
      BY <2>1, <2>2 DEF Heartbeats
    <3> QED BY <1>6, <2>3, <3>1
  <2>4. CASE waiting[k] <= m.age
    BY <1>1, <1>5, <1>8, <1>9, <2>2, <2>4, Shapes
  <2> QED BY <1>1, <1>8, <1>9, <2>2, <2>3, <2>4 DEF Broadcast
<1>17. ASSUME leaderless' = leaderless + 1, NEW a \in Int, Reached(a) PROVE Reached(a)'
  <2>1. a <= leaderless'
    BY <1>1, <1>17, Shapes DEF Reached
  <2>2. ASSUME NEW k \in Hearing
        PROVE  \/ waiting'[k] <= leaderless' - a
               \/ \E r \in net' : r.to = k /\ leaderless' - r.age = a
    <3>1. CASE waiting[k] <= leaderless - a
      BY <1>1, <1>5, <1>8, <1>9, <1>17, <3>1, Shapes
    <3>2. CASE \E r \in net : r.to = k /\ leaderless - r.age = a
      <4>1. PICK r \in net : r.to = k /\ leaderless - r.age = a
        BY <3>2
      <4>2. leaderless' - (r.age + 1) = a
        BY <1>1, <1>17, <4>1, Shapes
      <4> QED BY <1>6, <4>1, <4>2
    <3> QED BY <1>8, <1>9, <1>17, <3>1, <3>2 DEF Reached
  <2> QED BY <1>8, <2>1, <2>2 DEF Reached
<1>18. Brief'
  <2> SUFFICES ASSUME NEW y \in net', y.age < leaderless', ~stopped[y.source]
               PROVE  Restart(leaderless - y.age)'
    BY <1>3 DEF Brief
  <2>1. PICK m \in net : y.source = m.source /\ y.age = m.age + 1
    <3>1. PICK m \in net : y = [m EXCEPT !.age = m.age + 1]
      BY <1>7
    <3> QED BY <1>6, <3>1
  <2>2. leaderless' = leaderless + 1 /\ RunningPrimaries = {} /\ m.age < leaderless
    BY <1>1, <1>10, <2>1, Shapes
  <2>3. Restart(leaderless - m.age)
    BY <1>1, <2>1, <2>2 DEF Brief, Outranked
  <2>4. PICK a \in Int : leaderless - m.age - MaxDelay <= a /\ a <= SendPeriod /\ Reached(a)
    BY <2>3 DEF Restart
  <2>5. Reached(a)'
    BY <1>17, <2>2, <2>4
  <2>6. (leaderless' - y.age) - MaxDelay <= a
    BY <1>1, <2>1, <2>2, <2>4, Shapes
  <2> QED BY <2>4, <2>5, <2>6 DEF Restart
<1>19. Lasting'
  <2>1. leaderless' = 0 \/ Deposable' = {}
    BY <1>8, <1>10 DEF Deposable
  <2> QED BY <2>1 DEF Lasting
<1>20. Waits'
  <2>1. ASSUME RunningPrimaries = {}, NEW l \in Running PROVE waiting'[l] >= leaderless' - Quiet
    <3>1. waiting'[l] = waiting[l] + 1 /\ waiting[l] >= leaderless - Quiet /\ waiting[l] >= 0
      BY <1>1, <1>5, <1>8, <1>9, <2>1, Shapes DEF Waits
    <3> QED BY <1>1, <1>8, <1>10, <3>1, Shapes DEF Quiet
  <2> QED BY <1>3, <1>8, <1>9, <2>1 DEF Waits
<1>21. leaderless' <= TakeOverTime'
  BY <1>1, <1>10, Shapes DEF TakeOverTime
<1> QED BY <1>12, <1>13, <1>14, <1>15, <1>16, <1>18, <1>19, <1>20, <1>21 DEF TakeOverInv

\* The state after the leaders have started satisfies the invariant.
LEMMA InitTakeOver ==
    ASSUME Init
    PROVE  TakeOverInv
<1>1. /\ sleeping \in [Leaders -> 1 .. SendPeriod] /\ net = {} /\ leaderless = 0 /\ contended = 0
      /\ waiting = [l \in Leaders |-> SendPeriod - sleeping[l]]
      /\ stopped = [l \in Leaders |-> FALSE] /\ pumpDead = [l \in Leaders |-> FALSE]
      /\ queue = [l \in Leaders |-> <<>>] /\ isPrimary \in [Leaders -> BOOLEAN]
  BY DEF Init
<1>2. /\ \A l \in Leaders : sleeping[l] \in 0 .. SendPeriod /\ waiting[l] \in 0 .. ListenTimeout
      /\ sleeping \in [Leaders -> 0 .. SendPeriod \cup {Ended}]
      /\ waiting \in [Leaders -> 0 .. ListenTimeout \cup {Ended}]
  BY <1>1, TimesAssumption
<1>3. <<>> \in Seq(Leaders)
  OBVIOUS
<1>4. TypeOK
  BY <1>1, <1>2, <1>3 DEF TypeOK
<1>5. ThreadsRun
  BY <1>2, TimesAssumption DEF ThreadsRun, Running, Ended
<1>6. LastSends /\ LastHeartbeats /\ Broadcast /\ Brief /\ Lasting
  BY <1>1 DEF LastSends, LastHeartbeats, Broadcast, Brief, Lasting
<1>7. Waits
  BY <1>1, <1>2, TimesAssumption DEF Waits, Quiet, Running
<1>8. leaderless <= TakeOverTime
  BY <1>1, TimesAssumption DEF TakeOverTime
<1> QED BY <1>4, <1>5, <1>6, <1>7, <1>8 DEF TakeOverInv

\* Every step of the leaders keeps the invariant.
LEMMA NextTakeOver ==
    ASSUME ShortDelays, TakeOverInv, [Next]_vars
    PROVE  TakeOverInv'
<1>1. ASSUME NEW l \in Leaders, SendHeartbeats(l) \/ HearHeartbeat(l) \/ TimeOut(l)
      PROVE  TakeOverInv'
  BY <1>1, SendStep, HearStep, TimeOutStep
<1>2. ASSUME NEW m \in net, DeliverHeartbeat(m) PROVE TakeOverInv'
  BY <1>2, DeliverStep
<1>3. CASE Tick
  BY <1>3, TickStep
<1>4. ASSUME NEW l \in Leaders, Stop(l) \/ PumpDies(l) PROVE TakeOverInv'
  BY <1>4, StopStep, PumpDiesStep
<1>5. CASE UNCHANGED vars
  <2>1. /\ isPrimary' = isPrimary /\ stopped' = stopped /\ pumpDead' = pumpDead
        /\ sleeping' = sleeping /\ waiting' = waiting /\ queue' = queue /\ net' = net
        /\ leaderless' = leaderless /\ contended' = contended
    BY <1>5 DEF vars
  <2>2. /\ TypeOK' = TypeOK /\ Running' = Running /\ RunningPrimaries' = RunningPrimaries
    BY <2>1 DEF TypeOK, Running, RunningPrimaries
  <2>3. /\ Hearing' = Hearing /\ Deposable' = Deposable
        /\ \A s : Outranked(s)' = Outranked(s)
    BY <2>1, <2>2 DEF Hearing, Deposable, Outranked
  <2>4. \A t : Restart(t)' = Restart(t)
    BY <2>1, <2>3 DEF Restart, Reached
  <2>5. ThreadsRun' = ThreadsRun /\ LastSends' = LastSends /\ LastHeartbeats' = LastHeartbeats
        /\ Broadcast' = Broadcast /\ Waits' = Waits
    BY <2>1, <2>2, <2>3 DEF ThreadsRun, LastSends, LastHeartbeats, Broadcast, Waits
  <2>6. Brief' = Brief /\ Lasting' = Lasting
    BY <2>1, <2>3, <2>4 DEF Brief, Lasting
  <2> QED BY <2>1, <2>2, <2>5, <2>6 DEF TakeOverInv
<1> QED BY <1>1, <1>2, <1>3, <1>4, <1>5 DEF Next, ThreadStep

\* When the primary stops, another running leader is primary within TakeOverTime
\* (HeartbeatSender.run and HeartbeatListener.run): for any number of leaders, of which any
\* may be stopped and any lose its pump thread, and for any periods, as long as a heartbeat
\* arrives within half the time a listener waits.
THEOREM TakeOverIsAlwaysPrompt ==
    ASSUME ShortDelays
    PROVE  Spec => []TakeOverIsPrompt
<1>1. TakeOverInv => TakeOverIsPrompt
  BY DEF TakeOverInv, TakeOverIsPrompt
<1> QED BY <1>1, InitTakeOver, NextTakeOver, PTL DEF Spec

(***************************************************************************)
(* That leaders which believe to be primary at the same time settle on one *)
(* of them.  While there are several, heartbeats are sent all the time: a  *)
(* primary sends one within SendPeriod or is deposed by one that is under  *)
(* way.  Everybody hears them, so from SendPeriod + MaxDelay on nobody     *)
(* times out, and by then every pair of primaries has SendPeriod left for  *)
(* the bigger to send a heartbeat and MaxDelay for the smaller to get it.  *)
(***************************************************************************)

\* A heartbeat sent within a period reaches everybody before their time-out.
LongTimeout == SendPeriod + 2 * MaxDelay < ListenTimeout

\* A heartbeat sent n ticks ago has restarted every wait that could make a new primary, or
\* is about to.
Told(n) ==
    \A l \in Hearing : \/ isPrimary[l]
                       \/ waiting[l] <= n
                       \/ queue[l] # <<>>
                       \/ \E r \in net : r.to = l /\ r.age = n

\* What is in a queue was sent to everybody.
HeardOf == \A l \in Running : queue[l] # <<>> => \E n \in 0 .. MaxDelay : Told(n)

\* When leaders have contended for j ticks, somebody has sent a heartbeat since or shortly
\* before, or a primary is about to.
Speaks ==
    \A j \in 1 .. SendPeriod : j <= contended =>
        \/ \E n \in 0 .. j + MaxDelay - 1 : Told(n)
        \/ \E l \in RunningPrimaries : sleeping[l] <= SendPeriod - j

\* Since the first SendPeriod ticks, there was one in any SendPeriod + MaxDelay ticks.
Rounds ==
    \A k \in 1 .. contended - SendPeriod :
        \E n \in k .. k + SendPeriod + MaxDelay - 1 : Told(n)

\* The bigger of two primaries is about to send a heartbeat, or one of its is on its way
\* to the smaller.
Pairs ==
    AllHear =>
        \A p, q \in RunningPrimaries : q < p =>
            \/ sleeping[p] <= 2 * SendPeriod + MaxDelay - contended
            \/ \E r \in net : /\ r.source = p /\ r.to = q
                              /\ contended - r.age <= 2 * SendPeriod + MaxDelay
            \/ p \in Sources(queue[q]) /\ contended <= SettleTime

SettleInv == HeardOf /\ Speaks /\ Rounds /\ Pairs /\ ContentionIsShort

-----------------------------------------------------------------------------

\* The periods and the counters are integers.
LEMMA SettleShapes ==
    ASSUME TypeOK
    PROVE  /\ SendPeriod \in Nat \ {0} /\ MaxDelay \in Nat /\ ListenTimeout \in Nat
           /\ contended \in Nat
           /\ SettleTime = 2 * (SendPeriod + MaxDelay)
  BY TimesAssumption DEF TypeOK, SettleTime

\* A heartbeat under way was sent to everybody.
LEMMA UnderWay ==
    ASSUME TypeOK, Broadcast, NEW m \in net
    PROVE  Told(m.age) /\ m.age \in 0 .. MaxDelay
<1>1. m \in Heartbeats /\ m.age \in 0 .. MaxDelay
  BY Shapes, TimesAssumption
<1>2. \A l \in Hearing : [m EXCEPT !.to = l].to = l /\ [m EXCEPT !.to = l].age = m.age
  BY <1>1 DEF Heartbeats
<1> QED BY <1>1, <1>2 DEF Told, Broadcast

\* HeartbeatSender.run keeps the pairs: the heartbeat of the bigger leader is on its way.
LEMMA SendSettles ==
    ASSUME TakeOverInv, SettleInv, NEW l \in Leaders, SendHeartbeats(l)
    PROVE  SettleInv'
<1> DEFINE New == {[source |-> l, to |-> k, age |-> 0] :
                      k \in {k \in Leaders \ {l} : isPrimary[l]}}
<1>1. TypeOK /\ HeardOf /\ Speaks /\ Rounds /\ Pairs /\ ContentionIsShort
  BY DEF TakeOverInv, SettleInv
<1>2. /\ sleeping[l] = 0 /\ net' = net \cup New
      /\ sleeping' = [sleeping EXCEPT ![l] = Looped(l, SendPeriod)]
      /\ isPrimary' = isPrimary /\ stopped' = stopped /\ pumpDead' = pumpDead
      /\ waiting' = waiting /\ queue' = queue /\ contended' = contended
  BY DEF SendHeartbeats
<1>3. ASSUME isPrimary[l], NEW k \in Leaders \ {l}
      PROVE  \E r \in New : r.source = l /\ r.to = k /\ r.age = 0
  <2>1. [source |-> l, to |-> k, age |-> 0] \in New
    BY <1>3
  <2> QED BY <2>1
<1> HIDE DEF New
<1>4. /\ Running' = Running /\ RunningPrimaries' = RunningPrimaries /\ Hearing' = Hearing
      /\ AllHear' = AllHear /\ Hearing \subseteq Leaders /\ RunningPrimaries \subseteq Leaders
  BY <1>2 DEF Running, RunningPrimaries, Hearing, AllHear
<1>5. \A k \in Leaders : k # l => sleeping'[k] = sleeping[k]
  BY <1>1, <1>2 DEF TypeOK
<1>6. \A n : Told(n) => Told(n)'
  BY <1>2, <1>4 DEF Told
<1>7. isPrimary[l] => Told(0)'
  BY <1>2, <1>3, <1>4 DEF Told
<1>8. HeardOf' /\ Rounds'
  BY <1>1, <1>2, <1>4, <1>6 DEF HeardOf, Rounds
<1>9. Speaks'
  <2>1. CASE isPrimary[l]
    <3>1. \A j \in 1 .. SendPeriod : 0 \in 0 .. j + MaxDelay - 1
      BY <1>1, SettleShapes
    <3> QED BY <1>7, <2>1, <3>1 DEF Speaks
  <2>2. CASE ~isPrimary[l]
    <3>1. \A k \in RunningPrimaries : sleeping'[k] = sleeping[k]
      BY <1>5, <2>2 DEF RunningPrimaries
    <3> QED BY <1>1, <1>2, <1>4, <1>6, <3>1 DEF Speaks
  <2> QED BY <2>1, <2>2
<1>10. Pairs'
  <2> SUFFICES ASSUME AllHear, NEW p \in RunningPrimaries, NEW q \in RunningPrimaries, q < p
               PROVE  \/ sleeping'[p] <= 2 * SendPeriod + MaxDelay - contended
                      \/ \E r \in net' : /\ r.source = p /\ r.to = q
                                         /\ contended - r.age <= 2 * SendPeriod + MaxDelay
                      \/ p \in Sources(queue[q]) /\ contended <= SettleTime
    BY <1>2, <1>4 DEF Pairs, SettleTime
  <2>1. CASE p # l
    BY <1>1, <1>2, <1>4, <1>5, <2>1 DEF Pairs
  <2>2. CASE p = l /\ 0 <= 2 * SendPeriod + MaxDelay - contended
    <3>1. q \in Leaders \ {l} /\ isPrimary[l]
      BY <1>1, <1>4, <2>2, Shapes DEF RunningPrimaries
    <3>2. contended - 0 <= 2 * SendPeriod + MaxDelay
      BY <1>1, <2>2, SettleShapes
    <3> QED BY <1>2, <1>3, <2>2, <3>1, <3>2
  <2>3. CASE p = l /\ ~(0 <= 2 * SendPeriod + MaxDelay - contended)
    BY <1>1, <1>2, <1>4, <2>3 DEF Pairs
  <2> QED BY <2>1, <2>2, <2>3
<1>11. ContentionIsShort'
  BY <1>1, <1>2, <1>4 DEF ContentionIsShort, SettleTime
<1> QED BY <1>8, <1>9, <1>10, <1>11 DEF SettleInv

\* newHB keeps the pairs: the heartbeat of the bigger leader is in the smaller's queue.
LEMMA DeliverSettles ==
    ASSUME TakeOverInv, SettleInv, NEW m \in net, DeliverHeartbeat(m)
    PROVE  SettleInv'
<1>1. TypeOK /\ Broadcast /\ HeardOf /\ Speaks /\ Rounds /\ Pairs /\ ContentionIsShort
  BY DEF TakeOverInv, SettleInv
<1>2. /\ net' = net \ {m}
      /\ queue' = IF stopped[m.to] \/ pumpDead[m.to]
                  THEN queue ELSE [queue EXCEPT ![m.to] = Append(@, m.source)]
      /\ isPrimary' = isPrimary /\ stopped' = stopped /\ pumpDead' = pumpDead
      /\ sleeping' = sleeping /\ waiting' = waiting /\ contended' = contended
  BY DEF DeliverHeartbeat
<1>3. m.to \in Leaders /\ m.source \in Leaders /\ m.age \in Nat /\ m.age <= MaxDelay
      /\ queue[m.to] \in Seq(Leaders)
  BY <1>1, Shapes
<1>4. /\ m.to \in Hearing => /\ queue'[m.to] # <<>>
                             /\ Sources(queue'[m.to]) = Sources(queue[m.to]) \cup {m.source}
      /\ \A k \in Leaders : k # m.to \/ m.to \notin Hearing => queue'[k] = queue[k]
  <2>1. /\ Append(queue[m.to], m.source) # <<>>
        /\ Sources(Append(queue[m.to], m.source)) = Sources(queue[m.to]) \cup {m.source}
    BY <1>3, QueueFacts
  <2>2. queue \in [Leaders -> Seq(Leaders)]
    BY <1>1 DEF TypeOK
  <2>3. CASE stopped[m.to] \/ pumpDead[m.to]
    BY <1>2, <2>3 DEF Hearing, Running
  <2>4. CASE ~(stopped[m.to] \/ pumpDead[m.to])
    <3>1. queue' = [queue EXCEPT ![m.to] = Append(queue[m.to], m.source)]
      BY <1>2, <2>4
    <3>2. queue'[m.to] = Append(queue[m.to], m.source)
      BY <1>3, <2>2, <3>1
    <3>3. m.to \in Hearing
      BY <1>3, <2>4 DEF Hearing, Running
    <3>4. \A k \in Leaders : k # m.to => queue'[k] = queue[k]
      BY <2>2, <3>1
    <3> QED BY <2>1, <3>2, <3>3, <3>4
  <2> QED BY <2>3, <2>4
<1>5. /\ Running' = Running /\ RunningPrimaries' = RunningPrimaries /\ Hearing' = Hearing
      /\ AllHear' = AllHear /\ Hearing \subseteq Leaders /\ RunningPrimaries \subseteq Running
      /\ Running \subseteq Leaders
  BY <1>2 DEF Running, RunningPrimaries, Hearing, AllHear
<1>6. \A k \in Leaders : /\ queue[k] # <<>> => queue'[k] # <<>>
                         /\ Sources(queue[k]) \subseteq Sources(queue'[k])
  BY <1>4
<1>7. \A n : Told(n) => Told(n)'
  BY <1>2, <1>4, <1>5, <1>6 DEF Told
<1>8. HeardOf'
  <2> SUFFICES ASSUME NEW k \in Running, queue'[k] # <<>>
               PROVE  \E n \in 0 .. MaxDelay : Told(n)'
    BY <1>5 DEF HeardOf
  <2>1. CASE queue[k] # <<>>
    BY <1>1, <1>7, <2>1 DEF HeardOf
  <2>2. CASE queue[k] = <<>>
    BY <1>1, <1>7, UnderWay
  <2> QED BY <2>1, <2>2
<1>9. Speaks' /\ Rounds'
  BY <1>1, <1>2, <1>5, <1>7 DEF Speaks, Rounds
<1>10. Pairs'
  <2> SUFFICES ASSUME AllHear, NEW p \in RunningPrimaries, NEW q \in RunningPrimaries, q < p
               PROVE  \/ sleeping[p] <= 2 * SendPeriod + MaxDelay - contended
                      \/ \E r \in net' : /\ r.source = p /\ r.to = q
                                         /\ contended - r.age <= 2 * SendPeriod + MaxDelay
                      \/ p \in Sources(queue'[q]) /\ contended <= SettleTime
    BY <1>2, <1>5 DEF Pairs, SettleTime
  <2>1. CASE m.source = p /\ m.to = q /\ contended - m.age <= 2 * SendPeriod + MaxDelay
    <3>1. q \in Hearing
      BY <1>5 DEF AllHear, Hearing
    <3>2. contended <= SettleTime
      BY <1>1, <1>3, <2>1, SettleShapes
    <3> QED BY <1>4, <2>1, <3>1, <3>2
  <2>2. CASE ~(m.source = p /\ m.to = q /\ contended - m.age <= 2 * SendPeriod + MaxDelay)
    BY <1>1, <1>2, <1>5, <1>6, <2>2 DEF Pairs
  <2> QED BY <2>1, <2>2
<1>11. ContentionIsShort'
  BY <1>1, <1>2, <1>5 DEF ContentionIsShort, SettleTime
<1> QED BY <1>8, <1>9, <1>10, <1>11 DEF SettleInv

\* HeartbeatListener.run keeps the pairs when a heartbeat is heard: that of a bigger leader
\* ends one.
LEMMA HearSettles ==
    ASSUME TakeOverInv, SettleInv, NEW l \in Leaders, HearHeartbeat(l)
    PROVE  SettleInv'
<1> DEFINE x == Head(queue[l])
<1>1. TypeOK /\ HeardOf /\ Speaks /\ Rounds /\ Pairs /\ ContentionIsShort
  BY DEF TakeOverInv, SettleInv
<1>2. /\ queue[l] # <<>>
      /\ isPrimary' = [isPrimary EXCEPT ![l] = isPrimary[l] /\ ~(x > l)]
      /\ queue' = [queue EXCEPT ![l] = Tail(queue[l])]
      /\ waiting' = [waiting EXCEPT ![l] = Looped(l, 0)]
      /\ stopped' = stopped /\ pumpDead' = pumpDead /\ sleeping' = sleeping
      /\ net' = net /\ contended' = contended
  BY DEF HearHeartbeat
<1>3. Sources(queue[l]) = {x} \cup Sources(Tail(queue[l]))
  BY <1>1, <1>2, QueueFacts, Shapes
<1> HIDE DEF x
<1>4. queue'[l] = Tail(queue[l]) /\ \A k \in Leaders : k # l => queue'[k] = queue[k]
  BY <1>1, <1>2 DEF TypeOK
<1>5. /\ \A k \in Leaders : k # l => waiting'[k] = waiting[k]
      /\ ~stopped[l] => waiting'[l] = 0
  BY <1>1, <1>2 DEF TypeOK, Looped
<1>6. /\ \A k \in Leaders : k # l => isPrimary'[k] = isPrimary[k]
      /\ isPrimary'[l] <=> isPrimary[l] /\ ~(x > l)
  <2>1. isPrimary \in [Leaders -> BOOLEAN]
    BY <1>1 DEF TypeOK
  <2> QED BY <1>2, <2>1, Zenon
<1>7. /\ Running' = Running /\ Hearing' = Hearing /\ AllHear' = AllHear
      /\ Hearing \subseteq Running /\ Running \subseteq Leaders
  BY <1>2 DEF Running, Hearing, AllHear
<1>8. /\ RunningPrimaries' \subseteq RunningPrimaries
      /\ \A k \in RunningPrimaries : k \in RunningPrimaries' \/ k = l
      /\ l \in RunningPrimaries' => ~(x > l)
      /\ RunningPrimaries \subseteq Running
  BY <1>2, <1>6 DEF RunningPrimaries, Running
<1>9. ASSUME NEW n \in Nat, Told(n) PROVE Told(n)'
  <2> SUFFICES ASSUME NEW k \in Hearing
               PROVE  \/ isPrimary'[k]
                      \/ waiting'[k] <= n
                      \/ queue'[k] # <<>>
                      \/ \E r \in net : r.to = k /\ r.age = n
    BY <1>2, <1>7 DEF Told
  <2>1. CASE k = l
    BY <1>5, <2>1 DEF Hearing, Running
  <2>2. CASE k # l
    BY <1>4, <1>5, <1>6, <1>7, <1>9, <2>2 DEF Told
  <2> QED BY <2>1, <2>2
<1>10. /\ \A n \in 0 .. MaxDelay : n \in Nat
       /\ \A j \in 1 .. SendPeriod : /\ \A n \in 0 .. j + MaxDelay - 1 : n \in Nat
                                     /\ \A n \in 0 .. MaxDelay : n \in 0 .. j + MaxDelay - 1
       /\ \A k \in 1 .. contended - SendPeriod : \A n \in k .. k + SendPeriod + MaxDelay - 1 : n \in Nat
  BY <1>1, SettleShapes
<1>11. HeardOf'
  <2> SUFFICES ASSUME NEW k \in Running, queue'[k] # <<>>
               PROVE  \E n \in 0 .. MaxDelay : Told(n)'
    BY <1>7 DEF HeardOf
  <2>1. queue[k] # <<>>
    BY <1>2, <1>4, <1>7
  <2> QED BY <1>1, <1>9, <1>10, <2>1 DEF HeardOf
<1>12. Speaks'
  <2> SUFFICES ASSUME NEW j \in 1 .. SendPeriod, j <= contended
               PROVE  \/ \E n \in 0 .. j + MaxDelay - 1 : Told(n)'
                      \/ \E k \in RunningPrimaries' : sleeping[k] <= SendPeriod - j
    BY <1>2 DEF Speaks
  <2>1. CASE \E n \in 0 .. j + MaxDelay - 1 : Told(n)
    BY <1>9, <1>10, <2>1
  <2>2. CASE \E k \in RunningPrimaries : sleeping[k] <= SendPeriod - j
    <3>1. PICK k \in RunningPrimaries : sleeping[k] <= SendPeriod - j
      BY <2>2
    <3>2. CASE k \in RunningPrimaries'
      BY <3>1, <3>2
    <3>3. CASE k = l
      <4>1. \E n \in 0 .. MaxDelay : Told(n)
        BY <1>1, <1>2, <1>8, <3>3 DEF HeardOf
      <4> QED BY <1>9, <1>10, <4>1
    <3> QED BY <1>8, <3>2, <3>3
  <2> QED BY <1>1, <2>1, <2>2 DEF Speaks
<1>13. Rounds'
  BY <1>1, <1>2, <1>9, <1>10 DEF Rounds
<1>14. Pairs'
  <2> SUFFICES ASSUME AllHear, NEW p \in RunningPrimaries', NEW q \in RunningPrimaries', q < p
               PROVE  \/ sleeping[p] <= 2 * SendPeriod + MaxDelay - contended
                      \/ \E r \in net : /\ r.source = p /\ r.to = q
                                        /\ contended - r.age <= 2 * SendPeriod + MaxDelay
                      \/ p \in Sources(queue'[q]) /\ contended <= SettleTime
    BY <1>2, <1>7 DEF Pairs, SettleTime
  <2>1. p \in Sources(queue[q]) => p \in Sources(queue'[q])
    <3>1. CASE q = l
      <4>1. ~(x > l)
        BY <1>8, <3>1
      <4>2. p > l
        BY <1>1, <1>7, <1>8, <3>1, Shapes
      <4> QED BY <1>3, <1>4, <3>1, <4>1, <4>2
    <3>2. CASE q # l
      BY <1>4, <1>7, <1>8, <3>2
    <3> QED BY <3>1, <3>2
  <2> QED BY <1>1, <1>8, <2>1 DEF Pairs
<1>15. ContentionIsShort'
  BY <1>1, <1>2, <1>7 DEF ContentionIsShort, SettleTime
<1> QED BY <1>11, <1>12, <1>13, <1>14, <1>15 DEF SettleInv

\* HeartbeatListener.run keeps the pairs when queue.get times out: once leaders have
\* contended for SendPeriod + MaxDelay nobody becomes primary any more.
LEMMA TimeOutSettles ==
    ASSUME LongTimeout, TakeOverInv, SettleInv, NEW l \in Leaders, TimeOut(l)
    PROVE  SettleInv'
<1>1. TypeOK /\ HeardOf /\ Speaks /\ Rounds /\ Pairs /\ ContentionIsShort
  BY DEF TakeOverInv, SettleInv
<1>2. /\ waiting[l] = ListenTimeout /\ queue[l] = <<>>
      /\ isPrimary' = [isPrimary EXCEPT ![l] = TRUE]
      /\ waiting' = [waiting EXCEPT ![l] = Looped(l, 0)]
      /\ stopped' = stopped /\ pumpDead' = pumpDead /\ sleeping' = sleeping
      /\ queue' = queue /\ net' = net /\ contended' = contended
  BY DEF TimeOut
<1>3. /\ \A k \in Leaders : k # l => waiting'[k] = waiting[k]
      /\ \A k \in Leaders : k # l => isPrimary'[k] = isPrimary[k]
      /\ isPrimary'[l]
  <2>1. isPrimary \in [Leaders -> BOOLEAN] /\ waiting \in [Leaders -> 0 .. ListenTimeout \cup {Ended}]
    BY <1>1 DEF TypeOK
  <2> QED BY <1>2, <2>1, Zenon
<1>4. /\ Running' = Running /\ Hearing' = Hearing /\ AllHear' = AllHear
      /\ Hearing \subseteq Running /\ Running \subseteq Leaders
  BY <1>2 DEF Running, Hearing, AllHear
<1>5. /\ RunningPrimaries \subseteq RunningPrimaries'
      /\ \A k \in RunningPrimaries' : k \in RunningPrimaries \/ k = l
      /\ RunningPrimaries' \subseteq Running
  BY <1>2, <1>3 DEF RunningPrimaries, Running
<1>6. \A n : Told(n) => Told(n)'
  BY <1>2, <1>3, <1>4 DEF Told
<1>7. HeardOf' /\ Rounds' /\ Speaks'
  BY <1>1, <1>2, <1>4, <1>5, <1>6 DEF HeardOf, Rounds, Speaks
<1>8. ASSUME AllHear, contended > SendPeriod + MaxDelay
      PROVE  RunningPrimaries' \subseteq RunningPrimaries
  <2> SUFFICES ASSUME l \in Running, ~isPrimary[l] PROVE FALSE
    BY <1>5 DEF RunningPrimaries, Running
  <2>1. MaxDelay + 1 \in 1 .. contended - SendPeriod
    BY <1>1, <1>8, SettleShapes
  <2>2. PICK n \in MaxDelay + 1 .. MaxDelay + 1 + SendPeriod + MaxDelay - 1 : Told(n)
    BY <1>1, <2>1 DEF Rounds
  <2>3. l \in Hearing
    BY <1>8 DEF AllHear, Hearing
  <2>4. ~(waiting[l] <= n)
    BY <1>1, <1>2, <2>2, SettleShapes DEF LongTimeout
  <2>5. \A r \in net : r.age # n
    BY <1>1, <2>2, Shapes
  <2> QED BY <1>2, <2>2, <2>3, <2>4, <2>5 DEF Told
<1>9. Pairs'
  <2> SUFFICES ASSUME AllHear, NEW p \in RunningPrimaries', NEW q \in RunningPrimaries', q < p
               PROVE  \/ sleeping[p] <= 2 * SendPeriod + MaxDelay - contended
                      \/ \E r \in net : /\ r.source = p /\ r.to = q
                                        /\ contended - r.age <= 2 * SendPeriod + MaxDelay
                      \/ p \in Sources(queue[q]) /\ contended <= SettleTime
    BY <1>2, <1>4 DEF Pairs, SettleTime
  <2>1. CASE contended <= SendPeriod + MaxDelay
    <3>1. sleeping[p] \in Int /\ sleeping[p] <= SendPeriod
      BY <1>1, <1>4, <1>5, Shapes
    <3> QED BY <1>1, <2>1, <3>1, SettleShapes
  <2>2. CASE contended > SendPeriod + MaxDelay
    BY <1>1, <1>8, <2>2 DEF Pairs
  <2> QED BY <1>1, <2>1, <2>2, SettleShapes
<1>10. ContentionIsShort'
  BY <1>1, <1>2, <1>4 DEF ContentionIsShort, SettleTime
<1> QED BY <1>7, <1>9, <1>10 DEF SettleInv

\* stop keeps the pairs: the counter starts again.
LEMMA StopSettles ==
    ASSUME TakeOverInv, SettleInv, NEW l \in Leaders, Stop(l)
    PROVE  SettleInv'
<1>1. TypeOK /\ HeardOf
  BY DEF TakeOverInv, SettleInv
<1>2. /\ stopped' = [stopped EXCEPT ![l] = TRUE] /\ contended' = 0
      /\ isPrimary' = isPrimary /\ pumpDead' = pumpDead /\ sleeping' = sleeping
      /\ waiting' = waiting /\ queue' = queue /\ net' = net
  BY DEF Stop
<1>3. Running' \subseteq Running /\ Hearing' \subseteq Hearing /\ RunningPrimaries' \subseteq Leaders
  BY <1>1, <1>2 DEF Running, Hearing, RunningPrimaries, TypeOK
<1>4. \A n : Told(n) => Told(n)'
  BY <1>2, <1>3 DEF Told
<1>5. HeardOf'
  BY <1>1, <1>2, <1>3, <1>4 DEF HeardOf
<1>6. Speaks' /\ Rounds'
  BY <1>1, <1>2, SettleShapes DEF Speaks, Rounds
<1>7. Pairs'
  <2>1. \A p \in RunningPrimaries' : sleeping'[p] <= 2 * SendPeriod + MaxDelay - contended'
    BY <1>1, <1>2, <1>3, Shapes
  <2> QED BY <2>1 DEF Pairs
<1>8. ContentionIsShort'
  BY <1>1, <1>2, SettleShapes DEF ContentionIsShort, SettleTime
<1> QED BY <1>5, <1>6, <1>7, <1>8 DEF SettleInv

\* The end of a pump thread keeps the pairs: nothing is said of leaders that do not hear.
LEMMA PumpDiesSettles ==
    ASSUME TakeOverInv, SettleInv, NEW l \in Leaders, PumpDies(l)
    PROVE  SettleInv'
<1>1. TypeOK /\ HeardOf /\ Speaks /\ Rounds /\ Pairs /\ ContentionIsShort
  BY DEF TakeOverInv, SettleInv
<1>2. /\ pumpDead' = [pumpDead EXCEPT ![l] = TRUE]
      /\ isPrimary' = isPrimary /\ stopped' = stopped /\ sleeping' = sleeping
      /\ waiting' = waiting /\ queue' = queue /\ net' = net /\ contended' = contended
  BY DEF PumpDies
<1>3. /\ Running' = Running /\ Hearing' \subseteq Hearing
      /\ RunningPrimaries' = RunningPrimaries /\ (AllHear' => AllHear)
  <2>1. \A k \in Leaders : ~pumpDead'[k] => ~pumpDead[k]
    BY <1>1, <1>2 DEF TypeOK
  <2> QED BY <1>2, <2>1 DEF Running, Hearing, RunningPrimaries, AllHear
<1>4. \A n : Told(n) => Told(n)'
  BY <1>2, <1>3 DEF Told
<1>5. HeardOf' /\ Speaks' /\ Rounds'
  BY <1>1, <1>2, <1>3, <1>4 DEF HeardOf, Speaks, Rounds
<1>6. Pairs' /\ ContentionIsShort'
  BY <1>1, <1>2, <1>3 DEF Pairs, ContentionIsShort, SettleTime
<1> QED BY <1>5, <1>6 DEF SettleInv

\* A tick keeps the pairs: a primary that was about to send a heartbeat has less time left,
\* and one that was under way is older.
LEMMA TickSettles ==
    ASSUME TakeOverInv, SettleInv, Tick
    PROVE  SettleInv'
<1>1. TypeOK /\ ThreadsRun /\ HeardOf /\ Speaks /\ Rounds /\ Pairs /\ ContentionIsShort
  BY DEF TakeOverInv, SettleInv
<1>2. \A l \in Leaders : /\ sleeping[l] # 0
                         /\ waiting[l] # Ended => queue[l] = <<>>
  BY DEF Tick
<1>3. /\ sleeping' = [l \in Leaders |-> IF sleeping[l] = Ended THEN Ended ELSE sleeping[l] - 1]
      /\ waiting' = [l \in Leaders |-> IF waiting[l] = Ended THEN Ended ELSE waiting[l] + 1]
      /\ net' = {[m EXCEPT !.age = @ + 1] : m \in net}
      /\ isPrimary' = isPrimary /\ stopped' = stopped /\ pumpDead' = pumpDead /\ queue' = queue
      /\ \A m \in net : m.age < MaxDelay
  BY DEF Tick
<1>4. /\ Running' = Running /\ RunningPrimaries' = RunningPrimaries /\ Hearing' = Hearing
      /\ AllHear' = AllHear /\ Hearing \subseteq Running /\ RunningPrimaries \subseteq Running
      /\ Running \subseteq Leaders
  BY <1>3 DEF Running, RunningPrimaries, Hearing, AllHear
<1>5. \A l \in Running : /\ queue[l] = <<>> /\ waiting'[l] = waiting[l] + 1
                         /\ sleeping'[l] = sleeping[l] - 1 /\ sleeping[l] \in 1 .. SendPeriod
                         /\ waiting[l] \in Int
  BY <1>1, <1>2, <1>3, <1>4, Shapes DEF ThreadsRun
<1>6. ASSUME NEW m \in net
      PROVE  \E y \in net' : y.source = m.source /\ y.to = m.to /\ y.age = m.age + 1
  <2>1. m \in Heartbeats
    BY <1>1, Shapes
  <2>2. [m EXCEPT !.age = m.age + 1] \in net'
    BY <1>3
  <2> QED BY <2>1, <2>2 DEF Heartbeats
<1>7. ASSUME NEW n \in Nat, Told(n) PROVE Told(n + 1)'
  <2> SUFFICES ASSUME NEW k \in Hearing
               PROVE  \/ isPrimary[k]
                      \/ waiting'[k] <= n + 1
                      \/ \E r \in net' : r.to = k /\ r.age = n + 1
    BY <1>3, <1>4 DEF Told
  <2>1. CASE waiting[k] <= n
    BY <1>4, <1>5, <2>1
  <2>2. CASE \E r \in net : r.to = k /\ r.age = n
    BY <1>6, <2>2
  <2> QED BY <1>4, <1>5, <1>7, <2>1, <2>2 DEF Told
<1>8. \/ contended' = 0
      \/ /\ Cardinality(RunningPrimaries) > 1
         /\ contended' = Counted(contended, SettleTime)
  BY DEF Tick
<1>9. contended' \in Nat /\ contended' <= contended + 1
  BY <1>1, <1>8, SettleShapes DEF Counted
<1>10. ASSUME contended' # 0 PROVE \E p, q \in RunningPrimaries : q < p
  <2>1. Cardinality(RunningPrimaries) > 1
    BY <1>8, <1>10
  <2>2. RunningPrimaries # {}
    BY <2>1, FS_EmptySet
  <2>3. PICK p \in RunningPrimaries : TRUE
    BY <2>2
  <2>4. RunningPrimaries # {p}
    <3>1. Cardinality({p}) = 1
      BY FS_Singleton
    <3> QED BY <2>1, <3>1
  <2>5. PICK q \in RunningPrimaries : q # p
    BY <2>3, <2>4
  <2>6. p \in Nat /\ q \in Nat
    BY <1>1, <1>4, Shapes
  <2> QED BY <2>5, <2>6
<1>11. HeardOf'
  BY <1>3, <1>4, <1>5 DEF HeardOf
<1>12. Speaks'
  <2> SUFFICES ASSUME NEW j \in 1 .. SendPeriod, j <= contended'
               PROVE  \/ \E n \in 0 .. j + MaxDelay - 1 : Told(n)'
                      \/ \E l \in RunningPrimaries : sleeping'[l] <= SendPeriod - j
    BY <1>4 DEF Speaks
  <2>1. CASE j = 1
    <3>1. PICK l \in RunningPrimaries : TRUE
      BY <1>9, <1>10, <2>1
    <3>2. sleeping'[l] <= SendPeriod - 1
      BY <1>1, <1>4, <1>5, SettleShapes
    <3> QED BY <2>1, <3>2
  <2>2. CASE j # 1
    <3>1. j - 1 \in 1 .. SendPeriod /\ j - 1 <= contended
      BY <1>1, <1>9, <2>2, SettleShapes
    <3>2. CASE \E n \in 0 .. (j - 1) + MaxDelay - 1 : Told(n)
      <4>1. PICK n \in 0 .. (j - 1) + MaxDelay - 1 : Told(n)
        BY <3>2
      <4>2. n \in Nat /\ n + 1 \in 0 .. j + MaxDelay - 1
        BY <1>1, <3>1, SettleShapes
      <4> QED BY <1>7, <4>1, <4>2
    <3>3. CASE \E l \in RunningPrimaries : sleeping[l] <= SendPeriod - (j - 1)
      BY <1>1, <1>4, <1>5, <3>3, SettleShapes
    <3> QED BY <1>1, <3>1, <3>2, <3>3 DEF Speaks
  <2> QED BY <2>1, <2>2
<1>13. Rounds'
  <2> SUFFICES ASSUME NEW k \in 1 .. contended' - SendPeriod
               PROVE  \E n \in k .. k + SendPeriod + MaxDelay - 1 : Told(n)'
    BY DEF Rounds
  <2>1. CASE k = 1
    <3>1. SendPeriod \in 1 .. SendPeriod /\ SendPeriod <= contended
      BY <1>1, <1>9, <2>1, SettleShapes
    <3>2. \A l \in RunningPrimaries : ~(sleeping[l] <= SendPeriod - SendPeriod)
      BY <1>1, <1>4, <1>5, SettleShapes
    <3>3. PICK n \in 0 .. SendPeriod + MaxDelay - 1 : Told(n)
      BY <1>1, <3>1, <3>2 DEF Speaks
    <3>4. n \in Nat /\ n + 1 \in k .. k + SendPeriod + MaxDelay - 1
      BY <1>1, <2>1, SettleShapes
    <3> QED BY <1>7, <3>3, <3>4
  <2>2. CASE k # 1
    <3>1. k - 1 \in 1 .. contended - SendPeriod
      BY <1>1, <1>9, <2>2, SettleShapes
    <3>2. PICK n \in k - 1 .. (k - 1) + SendPeriod + MaxDelay - 1 : Told(n)
      BY <1>1, <3>1 DEF Rounds
    <3>3. n \in Nat /\ n + 1 \in k .. k + SendPeriod + MaxDelay - 1
      BY <1>1, <3>1, SettleShapes
    <3> QED BY <1>7, <3>2, <3>3
  <2> QED BY <2>1, <2>2
<1>14. ASSUME AllHear, NEW p \in RunningPrimaries, NEW q \in RunningPrimaries, q < p
       PROVE  \/ sleeping[p] <= 2 * SendPeriod + MaxDelay - contended
              \/ \E r \in net : /\ r.source = p /\ r.to = q
                                /\ contended - r.age <= 2 * SendPeriod + MaxDelay
  <2>1. Sources(queue[q]) = {}
    BY <1>1, <1>4, <1>5, QueueFacts, Shapes
  <2> QED BY <1>1, <1>14, <2>1 DEF Pairs
<1>15. Pairs'
  <2> SUFFICES ASSUME AllHear, NEW p \in RunningPrimaries, NEW q \in RunningPrimaries, q < p
               PROVE  \/ sleeping'[p] <= 2 * SendPeriod + MaxDelay - contended'
                      \/ \E r \in net' : /\ r.source = p /\ r.to = q
                                         /\ contended' - r.age <= 2 * SendPeriod + MaxDelay
    BY <1>4 DEF Pairs
  <2>1. CASE sleeping[p] <= 2 * SendPeriod + MaxDelay - contended
    <3>1. contended \in Nat /\ SendPeriod \in Nat /\ MaxDelay \in Nat
      BY <1>1, SettleShapes
    <3>2. sleeping'[p] = sleeping[p] - 1 /\ sleeping[p] \in Nat
      BY <1>4, <1>5, <3>1
    <3>3. sleeping'[p] <= 2 * SendPeriod + MaxDelay - contended'
      BY <1>9, <2>1, <3>1, <3>2
    <3> QED BY <3>3
  <2>2. CASE \E r \in net : /\ r.source = p /\ r.to = q
                            /\ contended - r.age <= 2 * SendPeriod + MaxDelay
    <3>1. PICK r \in net : /\ r.source = p /\ r.to = q
                           /\ contended - r.age <= 2 * SendPeriod + MaxDelay
      BY <2>2
    <3>2. contended \in Nat /\ SendPeriod \in Nat /\ MaxDelay \in Nat
      BY <1>1, SettleShapes
    <3>3. r.age \in Nat
      BY <1>1, Shapes
    <3>4. contended' - (r.age + 1) <= 2 * SendPeriod + MaxDelay
      BY <1>9, <3>1, <3>2, <3>3
    <3> QED BY <1>6, <3>1, <3>4
  <2> QED BY <1>14, <2>1, <2>2
<1>16. ContentionIsShort'
  <2> SUFFICES ASSUME AllHear, contended' # 0 PROVE contended' <= SettleTime
    BY <1>1, <1>4, SettleShapes DEF ContentionIsShort, SettleTime
  <2>1. PICK p, q \in RunningPrimaries : q < p
    BY <1>10
  <2>2. contended + 1 <= SettleTime
    <3>1. CASE sleeping[p] <= 2 * SendPeriod + MaxDelay - contended
      BY <1>1, <1>4, <1>5, <3>1, SettleShapes
    <3>2. CASE \E r \in net : contended - r.age <= 2 * SendPeriod + MaxDelay
      BY <1>1, <1>3, <3>2, SettleShapes, Shapes
    <3> QED BY <1>14, <2>1, <3>1, <3>2
  <2> QED BY <1>1, <1>9, <2>2, SettleShapes
<1> QED BY <1>11, <1>12, <1>13, <1>15, <1>16 DEF SettleInv

\* The state after the leaders have started satisfies the invariant.
LEMMA InitSettles ==
    ASSUME Init
    PROVE  SettleInv
<1>1. TypeOK
  BY InitTakeOver DEF TakeOverInv
<1>2. /\ \A l \in Leaders : queue[l] = <<>>
      /\ contended = 0 /\ Running \subseteq Leaders /\ RunningPrimaries \subseteq Leaders
  BY DEF Init, Running, RunningPrimaries
<1>3. HeardOf /\ Speaks /\ Rounds
  BY <1>1, <1>2, SettleShapes DEF HeardOf, Speaks, Rounds
<1>4. Pairs
  <2>1. \A p \in RunningPrimaries : sleeping[p] <= 2 * SendPeriod + MaxDelay - contended
    BY <1>1, <1>2, Shapes
  <2> QED BY <2>1 DEF Pairs
<1>5. ContentionIsShort
  BY <1>1, <1>2, SettleShapes DEF ContentionIsShort
<1> QED BY <1>3, <1>4, <1>5 DEF SettleInv

\* Every step of the leaders keeps the invariant.
LEMMA NextSettles ==
    ASSUME LongTimeout, TakeOverInv, SettleInv, [Next]_vars
    PROVE  SettleInv'
<1>1. ASSUME NEW l \in Leaders, SendHeartbeats(l) \/ HearHeartbeat(l) \/ TimeOut(l)
      PROVE  SettleInv'
  BY <1>1, SendSettles, HearSettles, TimeOutSettles
<1>2. ASSUME NEW m \in net, DeliverHeartbeat(m) PROVE SettleInv'
  BY <1>2, DeliverSettles
<1>3. CASE Tick
  BY <1>3, TickSettles
<1>4. ASSUME NEW l \in Leaders, Stop(l) \/ PumpDies(l) PROVE SettleInv'
  BY <1>4, StopSettles, PumpDiesSettles
<1>5. CASE UNCHANGED vars
  <2>1. /\ isPrimary' = isPrimary /\ stopped' = stopped /\ pumpDead' = pumpDead
        /\ sleeping' = sleeping /\ waiting' = waiting /\ queue' = queue /\ net' = net
        /\ contended' = contended
    BY <1>5 DEF vars
  <2>2. /\ Running' = Running /\ RunningPrimaries' = RunningPrimaries
        /\ Hearing' = Hearing /\ AllHear' = AllHear
    BY <2>1 DEF Running, RunningPrimaries, Hearing, AllHear
  <2>3. \A n : Told(n)' = Told(n)
    BY <2>1, <2>2 DEF Told
  <2>4. HeardOf' = HeardOf /\ Speaks' = Speaks /\ Rounds' = Rounds
    BY <2>1, <2>2, <2>3 DEF HeardOf, Speaks, Rounds
  <2>5. Pairs' = Pairs /\ ContentionIsShort' = ContentionIsShort
    BY <2>1, <2>2 DEF Pairs, ContentionIsShort, SettleTime
  <2> QED BY <2>4, <2>5 DEF SettleInv
<1> QED BY <1>1, <1>2, <1>3, <1>4, <1>5 DEF Next, ThreadStep

\* While every running leader hears heartbeats, leaders that believe to be primary at the
\* same time settle on one within two rounds of heartbeats (HeartbeatListener.run): for any
\* number of leaders, of which any may be stopped, and for any periods, as long as a
\* heartbeat sent within a period reaches everybody before they time out.
THEOREM ContentionIsAlwaysShort ==
    ASSUME LongTimeout
    PROVE  Spec => []ContentionIsShort
<1>1. ShortDelays
  BY TimesAssumption DEF LongTimeout, ShortDelays
<1>2. Init => TakeOverInv /\ SettleInv
  BY InitTakeOver, InitSettles
<1>3. TakeOverInv /\ SettleInv /\ [Next]_vars => (TakeOverInv /\ SettleInv)'
  BY <1>1, NextTakeOver, NextSettles
<1>4. SettleInv => ContentionIsShort
  BY DEF SettleInv
<1> QED BY <1>2, <1>3, <1>4, PTL DEF Spec
=============================================================================
