---------------------------- MODULE ListenProofs ----------------------------
(***************************************************************************)
(* Proofs about Listen and Select, for any processes, selected objects,    *)
(* connections and so_qlimit: nobody sleeps through an event, the queues   *)
(* agree with the sockets, and no descriptor dangles.                      *)
(*                                                                         *)
(* The invariants are made inductive by three more facts.  A process that  *)
(* sleeps in select, or scans and has not been told of an event, is        *)
(* recorded with every object it has looked at (WaitInv).  The queues are  *)
(* injective and disjoint and what is on them is allocated and has no      *)
(* descriptor (BookInv).  A connection taken off so_q by an accept1 that   *)
(* sleeps in m_get belongs to that call alone (FileInv).                   *)
(***************************************************************************)
EXTENDS Listen, TLAPS

\* selwakeup of o finds p: through si_pid, or through SI_COLL, which is looked at only while
\* si_pid is set.
Recorded(p, o) == si_pid[o] = p \/ (si_pid[o] # NoProc /\ o \in si_coll)

Watched(p, objs) == \A o \in objs : ~Ready(o) /\ Recorded(p, o)

WaitInv ==
  /\ \A p \in Procs : p_wchan[p] = "selwait" => Watched(p, want[p])
  /\ kern.proc # NoProc /\ kern.proc \in p_select /\ ~collided =>
       Watched(kern.proc, want[kern.proc] \ (kern.todo \cup kern.found))
  /\ \A p \in Procs : p_wchan[p] = "so_timeo" => q = <<>>

Limit == (3 * Backlog) \div 2 + 1

\* so_q0 is s, so_q is t, and so_head is set in the connections of h.
Queues(s, t, h) ==
  /\ s \in Seq(Conns) /\ t \in Seq(Conns)
  /\ IsInjective(s) /\ IsInjective(t)
  /\ Range(s) \cap Range(t) = {}
  /\ Range(s) \cup Range(t) = h
  /\ Len(s) + Len(t) <= Limit

BookInv ==
  /\ Queues(q0, q, so_head)
  /\ so_head \subseteq alloc \ fdref
  /\ fdref \subseteq alloc

\* p's accept1 has taken c off so_q and sleeps in m_get.
Holds(p, c) == acc[p].at = "m_get" /\ acc[p].conn = c

FileInv ==
  /\ broken = "accept" => scarce
  /\ \A p \in Procs :
       /\ files[p] \subseteq fdref
       /\ acc[p].at = "falloc" => scarce
       /\ acc[p].at = "m_get" => acc[p].conn \in Conns
       /\ Working => \A c \in Conns : Holds(p, c) => c \in alloc \ (fdref \cup so_head)
  /\ \A p, r \in Procs : p # r =>
       /\ files[p] \cap files[r] = {}
       /\ Working => \A c \in Conns : ~(Holds(p, c) /\ Holds(r, c))

IInv == TypeOK /\ BookInv /\ FileInv /\ WaitInv
-----------------------------------------------------------------------------
(***************************************************************************)
(* The queues.                                                             *)
(***************************************************************************)

\* soqremque takes the connection off its queue and leaves the others in order.
LEMMA QueueWithout ==
    ASSUME NEW s \in Seq(Conns), IsInjective(s), NEW c
    PROVE  LET r == Soqremque(s, c)
           IN  /\ r \in Seq(Conns) /\ IsInjective(r) /\ Range(r) = Range(s) \ {c}
               /\ Len(r) <= Len(s) /\ (s = <<>> => r = <<>>)
<1> DEFINE n == CHOOSE i \in DOMAIN s : s[i] = c
           r == [i \in 1 .. (Len(s) - 1) |-> IF i < n THEN s[i] ELSE s[i + 1]]
<1>1. CASE c \notin Range(s)
  BY <1>1 DEF Soqremque
<1>2. CASE c \in Range(s)
  <2>1. n \in 1 .. Len(s) /\ s[n] = c
    BY <1>2 DEF Range
  <2>2. Soqremque(s, c) = r
    BY <1>2 DEF Soqremque
  <2>3. Len(s) \in Nat /\ Len(s) > 0 /\ \A i \in 1 .. Len(s) : s[i] \in Conns
    BY <2>1
  <2>4. \A i, j \in 1 .. Len(s) : s[i] = s[j] => i = j
    BY DEF IsInjective
  <2> HIDE DEF n
  <2>5. \A i \in 1 .. (Len(s) - 1) :
           i \in 1 .. Len(s) /\ i + 1 \in 1 .. Len(s)
           /\ r[i] = IF i < n THEN s[i] ELSE s[i + 1]
    BY <2>3
  <2>6. r \in Seq(Conns) /\ Len(r) = Len(s) - 1 /\ DOMAIN r = 1 .. (Len(s) - 1)
    <3>1. Len(s) - 1 \in Nat /\ DOMAIN r = 1 .. (Len(s) - 1)
      BY <2>3
    <3>2. \A i \in 1 .. (Len(s) - 1) : r[i] \in Conns
      BY <2>3, <2>5
    <3>3. r \in [1 .. (Len(s) - 1) -> Conns]
      BY <3>1, <3>2
    <3> QED BY <3>1, <3>3
  <2>7. IsInjective(r)
    <3> SUFFICES ASSUME NEW i \in 1 .. (Len(s) - 1), NEW j \in 1 .. (Len(s) - 1), r[i] = r[j]
                 PROVE  i = j
      BY <2>6 DEF IsInjective
    <3> QED BY <2>1, <2>3, <2>4, <2>5
  <2>8. Range(r) = Range(s) \ {c}
    <3>1. ASSUME NEW d \in Range(r) PROVE d \in Range(s) \ {c}
      <4>1. PICK i \in 1 .. (Len(s) - 1) : r[i] = d
        BY <2>6 DEF Range
      <4>2. r[i] = IF i < n THEN s[i] ELSE s[i + 1]
        BY <2>5
      <4>3. \E j \in 1 .. Len(s) : j # n /\ s[j] = d
        BY <2>1, <2>3, <4>1, <4>2
      <4> QED BY <2>1, <2>4, <4>3 DEF Range
    <3>2. ASSUME NEW d \in Range(s), d # c PROVE d \in Range(r)
      <4>1. PICK i \in 1 .. Len(s) : s[i] = d
        BY DEF Range
      <4>2. i # n
        BY <2>1, <3>2, <4>1
      <4>3. \E j \in 1 .. (Len(s) - 1) : r[j] = d
        <5>1. CASE i < n
          BY <2>1, <2>3, <2>5, <4>1, <5>1
        <5>2. CASE i > n
          <6>1. i - 1 \in 1 .. (Len(s) - 1) /\ ~(i - 1 < n) /\ (i - 1) + 1 = i
            BY <2>1, <2>3, <5>2
          <6> QED BY <2>5, <4>1, <6>1
        <5> QED BY <2>1, <4>2, <5>1, <5>2
      <4> QED BY <2>6, <4>3 DEF Range
    <3> QED BY <3>1, <3>2
  <2> QED BY <2>2, <2>3, <2>6, <2>7, <2>8
<1> QED BY <1>1, <1>2

\* A connection that is on no queue goes to the end of one.
LEMMA QueueWith ==
    ASSUME NEW s \in Seq(Conns), IsInjective(s), NEW c \in Conns, c \notin Range(s)
    PROVE  LET r == Append(s, c)
           IN  /\ r \in Seq(Conns) /\ IsInjective(r) /\ Range(r) = Range(s) \cup {c}
               /\ Len(r) = Len(s) + 1
<1> DEFINE r == Append(s, c)
<1>1. /\ r \in Seq(Conns) /\ Len(r) = Len(s) + 1 /\ Len(s) \in Nat
      /\ \A i \in 1 .. Len(s) : r[i] = s[i]
      /\ r[Len(s) + 1] = c
  OBVIOUS
<1> HIDE DEF r
<1>2. \A i, j \in 1 .. Len(s) : s[i] = s[j] => i = j
  BY DEF IsInjective
<1>3. \A i \in 1 .. Len(s) : s[i] # c
  BY DEF Range
<1>4. IsInjective(r)
  <2> SUFFICES ASSUME NEW i \in 1 .. (Len(s) + 1), NEW j \in 1 .. (Len(s) + 1), r[i] = r[j]
               PROVE  i = j
    BY <1>1 DEF IsInjective
  <2>1. (i \in 1 .. Len(s) \/ i = Len(s) + 1) /\ (j \in 1 .. Len(s) \/ j = Len(s) + 1)
    BY <1>1
  <2> QED BY <1>1, <1>2, <1>3, <2>1
<1>5. Range(r) = Range(s) \cup {c}
  <2>1. \A i \in 1 .. (Len(s) + 1) : i \in 1 .. Len(s) \/ i = Len(s) + 1
    BY <1>1
  <2>2. \A i \in 1 .. Len(s) : i \in 1 .. Len(r)
    BY <1>1
  <2>3. Len(s) + 1 \in 1 .. Len(r)
    BY <1>1
  <2> QED BY <1>1, <2>1, <2>2, <2>3 DEF Range
<1> QED BY <1>1, <1>4, <1>5 DEF r

\* accept1 takes the first connection.
LEMMA QueueTail ==
    ASSUME NEW s \in Seq(Conns), IsInjective(s), s # <<>>
    PROVE  /\ Tail(s) \in Seq(Conns) /\ IsInjective(Tail(s))
           /\ s[1] \in Range(s) /\ s[1] \in Conns
           /\ Range(Tail(s)) = Range(s) \ {s[1]} /\ Len(Tail(s)) <= Len(s)
<1> DEFINE r == Tail(s)
<1>1. /\ r \in Seq(Conns) /\ Len(s) \in Nat /\ Len(s) > 0 /\ Len(r) = Len(s) - 1
      /\ \A i \in 1 .. (Len(s) - 1) : r[i] = s[i + 1]
  OBVIOUS
<1>2. s[1] \in Range(s) /\ s[1] \in Conns
  BY <1>1 DEF Range
<1> HIDE DEF r
<1>3. \A i, j \in 1 .. Len(s) : s[i] = s[j] => i = j
  BY DEF IsInjective
<1>4. IsInjective(r)
  <2> SUFFICES ASSUME NEW i \in 1 .. (Len(s) - 1), NEW j \in 1 .. (Len(s) - 1), r[i] = r[j]
               PROVE  i = j
    BY <1>1 DEF IsInjective
  <2> QED BY <1>1, <1>3
<1>5. Range(r) = Range(s) \ {s[1]}
  <2>1. ASSUME NEW d \in Range(r) PROVE d \in Range(s) \ {s[1]}
    <3>1. PICK i \in 1 .. (Len(s) - 1) : r[i] = d
      BY <1>1 DEF Range
    <3>2. i + 1 \in 1 .. Len(s) /\ i + 1 # 1 /\ 1 \in 1 .. Len(s) /\ s[i + 1] = d
      BY <1>1, <3>1
    <3> QED BY <1>3, <3>2 DEF Range
  <2>2. ASSUME NEW d \in Range(s), d # s[1] PROVE d \in Range(r)
    <3>1. PICK i \in 1 .. Len(s) : s[i] = d
      BY DEF Range
    <3>2. i - 1 \in 1 .. (Len(s) - 1) /\ (i - 1) + 1 = i
      BY <1>1, <2>2, <3>1
    <3>3. r[i - 1] = d
      BY <1>1, <3>1, <3>2
    <3> QED BY <1>1, <3>2, <3>3 DEF Range
  <2> QED BY <2>1, <2>2
<1> QED BY <1>1, <1>2, <1>4, <1>5 DEF r
-----------------------------------------------------------------------------
(***************************************************************************)
(* Who waits for what.                                                     *)
(***************************************************************************)

\* Taking connections off the queues and reading data makes nothing ready.
LEMMA NothingNew ==
    ASSUME q = <<>> => q' = <<>>, UNCHANGED cantrcv, data' \subseteq data, NEW o
    PROVE  Ready(o)' => Ready(o)
BY DEF Ready

\* A step that makes nothing ready and touches no selinfo keeps the waits, when the
\* processes it puts to sleep are not in select.
LEMMA QuietWaits ==
    ASSUME TypeOK, WaitInv, q = <<>> => q' = <<>>, UNCHANGED cantrcv, data' \subseteq data,
           UNCHANGED <<p_select, si_pid, si_coll, collided, kern, want>>,
           \A p \in Procs : \/ p_wchan'[p] \in {p_wchan[p], NoChan}
                            \/ p_wchan'[p] = "so_timeo" /\ q' = <<>>
    PROVE  WaitInv'
<1>1. \A o : Ready(o)' => Ready(o)
  BY NothingNew
<1>2. \A p : Watched(p, want[p]) => Watched(p, want[p])'
  BY <1>1 DEF Watched, Recorded
<1>3. \A p \in Procs : p_wchan'[p] = "selwait" => p_wchan[p] = "selwait"
  BY SelectAssumption
<1>4. \A p \in Procs : p_wchan'[p] = "so_timeo" => q' = <<>>
  BY SelectAssumption DEF WaitInv
<1>5. \A o : Recorded(kern.proc, o)' <=> Recorded(kern.proc, o)
  BY DEF Recorded
<1> QED BY <1>1, <1>2, <1>3, <1>4, <1>5 DEF WaitInv, Watched

\* selwakeup: whoever the event is for is woken, or sees P_SELECT or nselcoll changed at the
\* end of its scan.
LEMMA EventWaits ==
    ASSUME TypeOK, WaitInv, NEW o \in Objs, NEW also \in SUBSET Procs, Selwakeup(o, also),
           \A x \in Objs \ {o} : Ready(x)' => Ready(x),
           \/ q = <<>> => q' = <<>>
           \/ also = {p \in Procs : p_wchan[p] = "so_timeo"}
    PROVE  WaitInv'
<1> DEFINE coll == si_pid[o] # NoProc /\ o \in si_coll
<1>1. /\ collided' = (collided \/ coll)
      /\ \A x \in Objs \ {o} : si_pid'[x] = si_pid[x] /\ (x \in si_coll' <=> x \in si_coll)
      /\ kern' = kern /\ want' = want /\ p_select' = p_select \ {si_pid[o]}
  BY DEF Selwakeup, TypeOK, SelectTypeOK
<1>2. \A p \in Procs : p_wchan'[p] =
          IF (p_wchan[p] = "selwait" /\ (coll \/ p = si_pid[o])) \/ p \in also
          THEN NoChan ELSE p_wchan[p]
  BY DEF Selwakeup
<1>3. want \in [Procs -> SUBSET Objs] /\ kern.proc \in Procs \cup {NoProc}
  BY DEF TypeOK, SelectTypeOK
<1>4. \A p, x : x \in Objs \ {o} /\ ~Ready(x) /\ Recorded(p, x) => ~Ready(x)' /\ Recorded(p, x)'
  BY <1>1 DEF Recorded
<1>5. ASSUME NEW p \in Procs, p_wchan'[p] = "selwait" PROVE Watched(p, want[p])'
  <2>1. p_wchan[p] = "selwait" /\ ~coll /\ p # si_pid[o]
    BY <1>2, <1>5, SelectAssumption
  <2>2. Watched(p, want[p]) /\ ~Recorded(p, o)
    BY <2>1 DEF WaitInv, Recorded
  <2>3. o \notin want[p] /\ want[p] \subseteq Objs
    BY <1>3, <2>2 DEF Watched
  <2>4. \A x \in want[p] : ~Ready(x)' /\ Recorded(p, x)'
    BY <1>4, <2>2, <2>3 DEF Watched
  <2> QED BY <1>1, <2>4 DEF Watched
<1>6. ASSUME kern.proc # NoProc, kern.proc \in p_select', ~collided'
      PROVE  Watched(kern.proc, want[kern.proc] \ (kern.todo \cup kern.found))'
  <2>1. kern.proc \in p_select /\ ~collided /\ ~coll /\ kern.proc # si_pid[o]
    BY <1>1, <1>6, Zenon
  <2>2. /\ Watched(kern.proc, want[kern.proc] \ (kern.todo \cup kern.found))
        /\ ~Recorded(kern.proc, o)
    BY <1>6, <2>1 DEF WaitInv, Recorded
  <2>3. /\ o \notin want[kern.proc] \ (kern.todo \cup kern.found)
        /\ want[kern.proc] \subseteq Objs
    BY <1>3, <1>6, <2>2 DEF Watched
  <2>4. \A x \in want[kern.proc] \ (kern.todo \cup kern.found) :
            ~Ready(x)' /\ Recorded(kern.proc, x)'
    BY <1>1, <1>4, <2>2, <2>3 DEF Watched, Recorded
  <2> QED BY <1>1, <2>4 DEF Watched
<1>7. ASSUME NEW p \in Procs, p_wchan'[p] = "so_timeo" PROVE q' = <<>>
  BY <1>2, <1>7, SelectAssumption DEF WaitInv
<1> QED BY <1>1, <1>5, <1>6, <1>7 DEF WaitInv

\* selrecord leaves p recorded with the object, and takes nobody else's place.
LEMMA SelrecordRecords ==
    ASSUME TypeOK, NEW p \in Procs, NEW o \in Objs, Selrecord(p, o), UNCHANGED p_wchan
    PROVE  /\ Recorded(p, o)'
           /\ \A x \in Objs \ {o} : si_pid'[x] = si_pid[x] /\ (x \in si_coll' <=> x \in si_coll)
           /\ \A r \in Procs, x \in Objs :
                 p_wchan[r] = "selwait" /\ Recorded(r, x) => Recorded(r, x)'
<1>1. si_pid \in [Objs -> Procs \cup {NoProc}]
  BY DEF TypeOK, SelectTypeOK
<1>2. CASE si_pid[o] = p
  BY <1>1, <1>2 DEF Selrecord, Recorded
<1>3. CASE si_pid[o] \in Procs \ {p} /\ p_wchan[si_pid[o]] = "selwait"
  <2>1. si_coll' = si_coll \cup {o} /\ si_pid' = si_pid
    BY <1>3 DEF Selrecord
  <2> QED BY <1>1, <1>3, <2>1, SelectAssumption DEF Recorded
<1>4. CASE ~(si_pid[o] = p) /\ ~(si_pid[o] \in Procs \ {p} /\ p_wchan[si_pid[o]] = "selwait")
  <2>1. si_pid' = [si_pid EXCEPT ![o] = p] /\ si_coll' = si_coll
    BY <1>4 DEF Selrecord
  <2>2. si_pid'[o] = p /\ \A x \in Objs \ {o} : si_pid'[x] = si_pid[x]
    BY <1>1, <2>1
  <2>3. ASSUME NEW r \in Procs, NEW x \in Objs, p_wchan[r] = "selwait", Recorded(r, x)
        PROVE  Recorded(r, x)'
    <3>1. CASE x = o
      BY <1>4, <2>1, <2>2, <2>3, <3>1, SelectAssumption DEF Recorded
    <3>2. CASE x # o
      BY <2>1, <2>2, <2>3, <3>2 DEF Recorded
    <3> QED BY <3>1, <3>2
  <2> QED BY <2>1, <2>2, <2>3 DEF Recorded
<1> QED BY <1>2, <1>3, <1>4

\* Ready depends on the sockets only.
LEMMA SameReady ==
    ASSUME UNCHANGED <<q, cantrcv, data>>, NEW o
    PROVE  Ready(o)' <=> Ready(o)
BY DEF Ready

\* A process that starts a scan has looked at nothing yet.
LEMMA RetryWaits ==
    ASSUME TypeOK, WaitInv, NEW p \in Procs, NEW objs \in SUBSET Objs, Retry(p, objs),
           kern.proc = NoProc \/ kern.proc = p, p_wchan[p] = NoChan \/ want' = want,
           want' = [want EXCEPT ![p] = objs],
           UNCHANGED <<p_wchan, si_pid, si_coll, sockvars, accvars>>
    PROVE  TypeOK' /\ WaitInv'
<1>1. /\ TypeOK' /\ kern' = [proc |-> p, todo |-> objs, found |-> {}]
      /\ want'[p] = objs /\ \A r \in Procs \ {p} : want'[r] = want[r]
  BY Zenon DEF TypeOK, SelectTypeOK, Retry, sockvars, accvars
<1>2. \A o : Ready(o)' <=> Ready(o)
  BY SameReady DEF sockvars
<1>3. \A r \in Procs : p_wchan[r] = "selwait" => want'[r] = want[r]
  BY <1>1, SelectAssumption
<1>4. ASSUME NEW r \in Procs, p_wchan'[r] = "selwait" PROVE Watched(r, want[r])'
  BY <1>2, <1>3, <1>4 DEF WaitInv, Watched, Recorded
<1>5. want'[kern'.proc] \ (kern'.todo \cup kern'.found) = {}
  BY <1>1
<1> QED BY <1>1, <1>4, <1>5 DEF WaitInv, Watched, sockvars

\* select: from the call to the tsleep and back.
LEMMA SelectKeeps ==
    ASSUME TypeOK, WaitInv, NEW p \in Procs, UNCHANGED <<sockvars, accvars>>,
           \/ SelectWakes(p)
           \/ \E o \in Objs : kern.proc = p /\ SelscanOne(o, Ready(o))
           \/ SelectReturns(p) \/ SelectAgain(p) \/ SelectSleeps(p)
           \/ SelectInterrupted(p)
           \/ \E objs \in SUBSET Objs \ {{}} : SelectCall(p, objs)
    PROVE  TypeOK' /\ WaitInv'
<1>1. /\ p_select \subseteq Procs /\ p_wchan \in [Procs -> {NoChan, "selwait", "so_timeo"}]
      /\ si_pid \in [Objs -> Procs \cup {NoProc}] /\ si_coll \subseteq Objs
      /\ collided \in BOOLEAN /\ want \in [Procs -> SUBSET Objs]
      /\ kern \in [proc : Procs \cup {NoProc}, todo : SUBSET Objs, found : SUBSET Objs]
  BY DEF TypeOK, SelectTypeOK
<1>2. \A o : Ready(o)' <=> Ready(o)
  BY SameReady DEF sockvars
<1>4. CASE SelectWakes(p)
  <2>1. want' = [want EXCEPT ![p] = want[p]]
    BY <1>1, <1>4 DEF SelectWakes
  <2> QED BY <1>1, <1>4, <2>1, RetryWaits, Zenon DEF SelectWakes
<1>5. CASE \E objs \in SUBSET Objs \ {{}} : SelectCall(p, objs)
  <2>1. PICK objs \in SUBSET Objs : SelectCall(p, objs)
    BY <1>5
  <2> QED BY <2>1, RetryWaits, Zenon DEF SelectCall
<1>6. CASE SelectAgain(p)
  <2>1. want' = [want EXCEPT ![p] = want[p]]
    BY <1>1, <1>6 DEF SelectAgain
  <2> QED BY <1>1, <1>6, <2>1, RetryWaits, ZenonT(30) DEF SelectAgain
<1>7. CASE SelectReturns(p) \/ SelectInterrupted(p)
  <2>1. /\ want' = [want EXCEPT ![p] = {}] /\ p_select' = p_select \ {p}
        /\ kern' \in {kern, NoScan} /\ kern'.proc = NoProc
        /\ UNCHANGED <<si_pid, si_coll, collided>>
        /\ p_wchan' = p_wchan \/ p_wchan' = [p_wchan EXCEPT ![p] = NoChan]
    <3>1. CASE SelectReturns(p)
      BY <3>1 DEF SelectReturns, Done, NoScan
    <3>2. CASE SelectInterrupted(p)
      BY <3>2 DEF SelectInterrupted, Done
    <3> QED BY <1>7, <3>1, <3>2
  <2>2. TypeOK'
    <3>1. /\ p_wchan' \in [Procs -> {NoChan, "selwait", "so_timeo"}]
          /\ want' \in [Procs -> SUBSET Objs]
      BY <1>1, <2>1
    <3>2. kern' \in [proc : Procs \cup {NoProc}, todo : SUBSET Objs, found : SUBSET Objs]
      BY <1>1, <2>1 DEF NoScan
    <3>3. SelectTypeOK'
      BY <1>1, <2>1, <3>1, <3>2 DEF SelectTypeOK
    <3> QED BY <3>3 DEF TypeOK, sockvars, accvars
  <2>3. \A r \in Procs : p_wchan'[r] \in {p_wchan[r], NoChan}
    BY <1>1, <2>1
  <2>4. \A r \in Procs : want'[r] \subseteq want[r]
    BY <1>1, <2>1
  <2>5. ASSUME NEW r \in Procs, p_wchan'[r] = "selwait" PROVE Watched(r, want[r])'
    <3>1. Watched(r, want[r])
      BY <2>3, <2>5, SelectAssumption, ZenonT(30) DEF WaitInv
    <3> QED BY <1>2, <2>1, <2>4, <3>1 DEF Watched, Recorded
  <2>6. ASSUME NEW r \in Procs, p_wchan'[r] = "so_timeo" PROVE q' = <<>>
    BY <2>3, <2>6, SelectAssumption, ZenonT(30) DEF WaitInv, sockvars
  <2> QED BY <2>1, <2>2, <2>5, <2>6 DEF WaitInv
<1>8. CASE SelectSleeps(p)
  <2>1. /\ kern.proc = p /\ kern.todo = {} /\ kern.found = {} /\ p \in p_select /\ ~collided
        /\ p_select' = p_select \ {p} /\ p_wchan' = [p_wchan EXCEPT ![p] = "selwait"]
        /\ kern' = NoScan /\ UNCHANGED <<si_pid, si_coll, collided, want>>
    BY <1>8, ZenonT(30) DEF SelectSleeps
  <2>2. TypeOK'
    BY <2>1, Zenon DEF TypeOK, SelectTypeOK, NoScan, sockvars, accvars
  <2>3. p_wchan'[p] = "selwait" /\ \A r \in Procs \ {p} : p_wchan'[r] = p_wchan[r]
    BY <1>1, <2>1
  <2>4. Watched(p, want[p])
    BY <2>1, SelectAssumption DEF WaitInv, Watched
  <2>5. ASSUME NEW r \in Procs, p_wchan'[r] = "selwait" PROVE Watched(r, want[r])'
    <3>1. Watched(r, want[r])
      BY <2>3, <2>4, <2>5 DEF WaitInv
    <3> QED BY <1>2, <2>1, <3>1, ZenonT(30) DEF Watched, Recorded
  <2>6. ASSUME NEW r \in Procs, p_wchan'[r] = "so_timeo" PROVE q' = <<>>
    BY <2>3, <2>6, ZenonT(30) DEF WaitInv, sockvars
  <2>7. kern'.proc = NoProc
    BY <2>1, ZenonT(30) DEF NoScan
  <2> QED BY <2>2, <2>5, <2>6, <2>7, ZenonT(30) DEF WaitInv
<1>9. CASE \E o \in Objs : kern.proc = p /\ SelscanOne(o, Ready(o))
  <2>1. PICK o \in Objs : kern.proc = p /\ SelscanOne(o, Ready(o))
    BY <1>9, ZenonT(30)
  <2>2. /\ kern' = [kern EXCEPT !.todo = @ \ {o},
                                !.found = IF Ready(o) THEN @ \cup {o} ELSE @]
        /\ Ready(o) => UNCHANGED <<si_pid, si_coll>>
        /\ ~Ready(o) => Selrecord(p, o)
        /\ UNCHANGED <<p_select, p_wchan, collided, want>>
    BY <2>1, Zenon DEF SelscanOne
  <2>3. /\ kern'.proc = p /\ kern'.todo = kern.todo \ {o}
        /\ kern'.found = IF Ready(o) THEN kern.found \cup {o} ELSE kern.found
        /\ kern' \in [proc : Procs \cup {NoProc}, todo : SUBSET Objs, found : SUBSET Objs]
    BY <1>1, <2>1, <2>2, ZenonT(30)
  <2>4. si_pid' \in [Objs -> Procs \cup {NoProc}] /\ si_coll' \subseteq Objs
    <3>1. CASE Ready(o)
      BY <1>1, <2>2, <3>1
    <3>2. CASE ~Ready(o)
      BY <1>1, <2>2, <3>2 DEF Selrecord
    <3> QED BY <3>1, <3>2
  <2>5. TypeOK'
    BY <2>2, <2>3, <2>4, SMTT(30) DEF TypeOK, SelectTypeOK, sockvars, accvars
  <2>6. /\ ~Ready(o) => Recorded(p, o)'
        /\ \A x \in Objs \ {o} : Recorded(p, x) => Recorded(p, x)'
        /\ \A r \in Procs, x \in Objs :
              p_wchan[r] = "selwait" /\ Recorded(r, x) => Recorded(r, x)'
    <3>1. CASE Ready(o)
      BY <2>2, <3>1 DEF Recorded
    <3>2. CASE ~Ready(o)
      BY <2>2, <3>2, SelrecordRecords DEF Recorded
    <3> QED BY <3>1, <3>2
  <2>7. ASSUME NEW r \in Procs, p_wchan'[r] = "selwait" PROVE Watched(r, want[r])'
    <3>1. Watched(r, want[r]) /\ want[r] \subseteq Objs
      BY <1>1, <2>2, <2>7 DEF WaitInv
    <3> QED BY <1>2, <2>2, <2>6, <2>7, <3>1 DEF Watched
  <2>8. ASSUME p \in p_select', ~collided'
        PROVE  \A x \in want'[p] \ (kern'.todo \cup kern'.found) : ~Ready(x)' /\ Recorded(p, x)'
    <3>1. Watched(p, want[p] \ (kern.todo \cup kern.found))
      BY <2>1, <2>2, <2>8, SelectAssumption DEF WaitInv
    <3>2. want'[p] = want[p] /\ want[p] \subseteq Objs
      BY <1>1, <2>2
    <3>3. \A x \in want[p] \ (kern.todo \cup kern.found) : ~Ready(x) /\ Recorded(p, x)
      BY <3>1 DEF Watched
    <3>4. \A x \in want[p] \ (kern'.todo \cup kern'.found) :
              (x = o /\ ~Ready(o)) \/ (x # o /\ x \in want[p] \ (kern.todo \cup kern.found))
      BY <2>3
    <3> QED BY <1>2, <2>6, <3>2, <3>3, <3>4
  <2>9. kern'.proc \in p_select' /\ ~collided' =>
            Watched(kern.proc, want[kern.proc] \ (kern.todo \cup kern.found))'
    BY <2>3, <2>8 DEF Watched
  <2>10. \A r \in Procs : p_wchan'[r] = "so_timeo" => q' = <<>>
    BY <2>2 DEF WaitInv, sockvars
  <2> QED BY <2>5, <2>7, <2>9, <2>10, Zenon DEF WaitInv
<1> QED BY <1>4, <1>5, <1>6, <1>7, <1>8, <1>9
-----------------------------------------------------------------------------
(***************************************************************************)
(* The sockets and the descriptors.                                        *)
(***************************************************************************)

\* What TypeOK says of the sockets and of accept1.
SocketTypes ==
  /\ open \in BOOLEAN /\ cantrcv \in BOOLEAN /\ scarce \in BOOLEAN
  /\ broken \in {"no", "accept", "soaccept"}
  /\ \A s \in {so_head, alloc, so_pcb, fdref} : s \subseteq Conns
  /\ data \subseteq Objs \ {Listener}
  /\ acc \in [Procs -> [at : {"no", "wait", "falloc", "m_get"}, conn : Conns \cup {NoConn}]]
  /\ files \in [Procs -> SUBSET Conns]

\* A step that puts no connection into a descriptor or into an accept1, and frees none that
\* is in one, keeps the descriptors in order.
LEMMA SameFiles ==
    ASSUME FileInv, UNCHANGED <<acc, files, fdref, broken, scarce>>,
           \A p \in Procs, c \in Conns :
               Working /\ Holds(p, c) /\ c \in alloc \ so_head => c \in alloc' \ so_head'
    PROVE  FileInv'
BY DEF FileInv, Holds, Working

\* sonewconn: a new socket is on no queue, and nobody has it.
LEMMA NewSocketKeeps ==
    ASSUME IInv, NEW c \in Conns, NewSocket(c),
           \/ q0' = Append(q0, c) /\ UNCHANGED q
           \/ q' = Append(q, c) /\ UNCHANGED q0
    PROVE  SocketTypes' /\ BookInv' /\ FileInv'
<1>1. /\ c \notin alloc /\ Len(q) + Len(q0) <= (3 * Backlog) \div 2
      /\ alloc' = alloc \cup {c} /\ so_head' = so_head \cup {c} /\ so_pcb' = so_pcb \cup {c}
      /\ UNCHANGED <<open, fdref, cantrcv, data, acc, files, scarce, broken>>
  BY DEF NewSocket, Room, accvars
<1>2. SocketTypes'
  BY <1>1 DEF IInv, TypeOK, SocketTypes
<1>3. /\ Queues(q0, q, so_head) /\ so_head \subseteq alloc \ fdref /\ fdref \subseteq alloc
  BY DEF IInv, BookInv
<1>4. /\ q0 \in Seq(Conns) /\ q \in Seq(Conns) /\ IsInjective(q0) /\ IsInjective(q)
      /\ c \notin Range(q0) /\ c \notin Range(q)
      /\ Range(q0) \cap Range(q) = {} /\ Range(q0) \cup Range(q) = so_head
  BY <1>1, <1>3 DEF Queues
<1>5. Len(q0) \in Nat /\ Len(q) \in Nat /\ (3 * Backlog) \div 2 \in Int
  BY <1>4, ListenAssumption
<1>6. Queues(q0', q', so_head')
  <2>1. CASE q0' = Append(q0, c) /\ UNCHANGED q
    <3>1. /\ q0' \in Seq(Conns) /\ IsInjective(q0') /\ Range(q0') = Range(q0) \cup {c}
          /\ Len(q0') = Len(q0) + 1
      BY <1>4, <2>1, QueueWith
    <3>2. Len(q0') + Len(q') <= Limit
      BY <1>1, <1>5, <2>1, <3>1 DEF Limit
    <3> QED BY <1>1, <1>4, <2>1, <3>1, <3>2 DEF Queues
  <2>2. CASE q' = Append(q, c) /\ UNCHANGED q0
    <3>1. /\ q' \in Seq(Conns) /\ IsInjective(q') /\ Range(q') = Range(q) \cup {c}
          /\ Len(q') = Len(q) + 1
      BY <1>4, <2>2, QueueWith
    <3>2. Len(q0') + Len(q') <= Limit
      BY <1>1, <1>5, <2>2, <3>1 DEF Limit
    <3> QED BY <1>1, <1>4, <2>2, <3>1, <3>2 DEF Queues
  <2> QED BY <2>1, <2>2
<1>7. BookInv'
  BY <1>1, <1>3, <1>6 DEF BookInv
<1>8. FileInv'
  BY <1>1, SameFiles DEF IInv
<1> QED BY <1>2, <1>7, <1>8

\* soisconnected moves the connection from one queue to the other.
LEMMA SoisconnectedKeeps ==
    ASSUME IInv, NEW c \in Conns, Soisconnected(c)
    PROVE  SocketTypes' /\ BookInv' /\ FileInv'
<1>1. /\ c \in Range(q0) /\ q0' = Soqremque(q0, c) /\ q' = Append(q, c)
      /\ UNCHANGED <<open, so_head, alloc, so_pcb, fdref, cantrcv, data, acc, files, scarce, broken>>
  BY DEF Soisconnected, accvars
<1>2. SocketTypes'
  BY <1>1 DEF IInv, TypeOK, SocketTypes
<1>3. /\ q0 \in Seq(Conns) /\ q \in Seq(Conns) /\ IsInjective(q0) /\ IsInjective(q)
      /\ Range(q0) \cap Range(q) = {} /\ Range(q0) \cup Range(q) = so_head
      /\ Len(q0) + Len(q) <= Limit
  BY DEF IInv, BookInv, Queues
<1>4. /\ q0' \in Seq(Conns) /\ IsInjective(q0') /\ Range(q0') = Range(q0) \ {c}
  BY <1>1, <1>3, QueueWithout
<1>5. /\ q' \in Seq(Conns) /\ IsInjective(q') /\ Range(q') = Range(q) \cup {c}
      /\ Len(q') = Len(q) + 1
  BY <1>1, <1>3, QueueWith
<1>6. Len(q0') = Len(q0) - 1
  <2>1. q0' = [i \in 1 .. (Len(q0) - 1) |->
                 IF i < (CHOOSE n \in DOMAIN q0 : q0[n] = c) THEN q0[i] ELSE q0[i + 1]]
    BY <1>1 DEF Soqremque
  <2>2. Len(q0) \in Nat /\ Len(q0) > 0
    BY <1>1, <1>3 DEF Range
  <2>3. DOMAIN q0' = 1 .. (Len(q0) - 1) /\ Len(q0) - 1 \in Nat
    BY <2>1, <2>2
  <2>4. Len(q0') \in Nat /\ DOMAIN q0' = 1 .. Len(q0')
    BY <1>4
  <2> QED BY <2>3, <2>4
<1>7. Len(q0') + Len(q') <= Limit
  BY <1>3, <1>5, <1>6, ListenAssumption DEF Limit
<1>8. Queues(q0', q', so_head')
  BY <1>1, <1>3, <1>4, <1>5, <1>7 DEF Queues
<1>9. BookInv'
  BY <1>1, <1>8 DEF IInv, BookInv
<1>10. FileInv'
  BY <1>1, SameFiles DEF IInv
<1> QED BY <1>2, <1>9, <1>10

\* sofree takes a connection off the queues, if it frees it.
LEMMA SofreeQueues ==
    ASSUME Queues(q0, q, so_head), NEW c, NEW pcbs, NEW refs, Sofree(c, pcbs, refs)
    PROVE  /\ Queues(q0', q', so_head') /\ so_head' \subseteq so_head
           /\ q = <<>> => q' = <<>>
           /\ so_head \ {c} \subseteq so_head'
           /\ \/ c \in pcbs \cup refs /\ UNCHANGED alloc
              \/ c \notin pcbs \cup refs /\ alloc' = alloc \ {c} /\ c \notin so_head'
<1>1. /\ q0 \in Seq(Conns) /\ q \in Seq(Conns) /\ IsInjective(q0) /\ IsInjective(q)
      /\ Range(q0) \cap Range(q) = {} /\ Range(q0) \cup Range(q) = so_head
      /\ Len(q0) + Len(q) <= Limit
  BY DEF Queues
<1>2. CASE c \in pcbs \cup refs
  BY <1>2 DEF Sofree
<1>3. CASE c \notin pcbs \cup refs
  <2>1. /\ q0' = Soqremque(q0, c) /\ q' = Soqremque(q, c)
        /\ so_head' = so_head \ {c} /\ alloc' = alloc \ {c}
    BY <1>3 DEF Sofree
  <2>2. /\ q0' \in Seq(Conns) /\ IsInjective(q0') /\ Range(q0') = Range(q0) \ {c}
        /\ Len(q0') <= Len(q0)
    BY <1>1, <2>1, QueueWithout
  <2>3. /\ q' \in Seq(Conns) /\ IsInjective(q') /\ Range(q') = Range(q) \ {c}
        /\ Len(q') <= Len(q) /\ (q = <<>> => q' = <<>>)
    BY <1>1, <2>1, QueueWithout
  <2>4. Len(q0') + Len(q') <= Limit
    BY <1>1, <2>2, <2>3, ListenAssumption DEF Limit
  <2> QED BY <1>1, <1>3, <2>1, <2>2, <2>3, <2>4 DEF Queues
<1> QED BY <1>2, <1>3

\* in_pcbdetach frees a connection only if no descriptor refers to it; if an accept1 has it,
\* the kernel is broken.
LEMMA DroppedKeeps ==
    ASSUME IInv, Working, NEW c \in Conns, Dropped(c)
    PROVE  SocketTypes' /\ BookInv' /\ FileInv' /\ (q = <<>> => q' = <<>>)
<1>1. /\ so_pcb' = so_pcb \ {c} /\ Sofree(c, so_pcb', fdref)
      /\ broken' = IF \E p \in Procs : acc[p].conn = c THEN "soaccept" ELSE broken
      /\ UNCHANGED <<open, fdref, cantrcv, data, acc, files, scarce>>
  BY DEF Dropped
<1>2. /\ Queues(q0', q', so_head') /\ so_head' \subseteq so_head
      /\ q = <<>> => q' = <<>>
      /\ so_head \ {c} \subseteq so_head'
      /\ \/ c \in fdref /\ UNCHANGED alloc
         \/ c \notin fdref /\ alloc' = alloc \ {c} /\ c \notin so_head'
  BY <1>1, SofreeQueues DEF IInv, BookInv
<1>3. SocketTypes'
  BY <1>1, <1>2 DEF IInv, TypeOK, SocketTypes
<1>4. so_head \subseteq alloc \ fdref /\ fdref \subseteq alloc
  BY DEF IInv, BookInv
<1>5. BookInv'
  BY <1>1, <1>2, <1>4, ZenonT(30) DEF BookInv
<1>6. FileInv'
  <2>1. \A p \in Procs, d \in Conns : Holds(p, d)' <=> Holds(p, d)
    BY <1>1 DEF Holds
  <2>2. Working' => \A p \in Procs : ~Holds(p, c)
    BY <1>1 DEF Working, Holds
  <2>3. broken' = "accept" => broken = "accept"
    BY <1>1
  <2> QED BY <1>1, <1>2, <2>1, <2>2, <2>3, ZenonT(30) DEF IInv, FileInv
<1> QED BY <1>2, <1>3, <1>5, <1>6

\* accept1 takes a connection: into a descriptor, or along while it sleeps in m_get.
LEMMA TakeKeeps ==
    ASSUME IInv, NEW p \in Procs, Working, q # <<>>, acc[p].at # "m_get", Take(p)
    PROVE  SocketTypes' /\ BookInv' /\ FileInv'
<1> DEFINE c == q[1]
<1>1. /\ q0 \in Seq(Conns) /\ q \in Seq(Conns) /\ IsInjective(q0) /\ IsInjective(q)
      /\ Range(q0) \cap Range(q) = {} /\ Range(q0) \cup Range(q) = so_head
      /\ Len(q0) + Len(q) <= Limit
      /\ so_head \subseteq alloc \ fdref /\ fdref \subseteq alloc
  BY DEF IInv, BookInv, Queues
<1>2. /\ q' \in Seq(Conns) /\ IsInjective(q') /\ Range(q') = Range(q) \ {c}
      /\ c \in Range(q) /\ c \in Conns /\ Len(q') <= Len(q)
  BY <1>1, QueueTail DEF Take
<1>3. /\ so_head' = so_head \ {c}
      /\ UNCHANGED <<open, q0, alloc, so_pcb, cantrcv, data, scarce, broken>>
      /\ \/ /\ acc' = [acc EXCEPT ![p] = NotIn]
            /\ files' = [files EXCEPT ![p] = @ \cup {c}]
            /\ fdref' = fdref \cup {c}
         \/ /\ acc' = [acc EXCEPT ![p] = [at |-> "m_get", conn |-> c]]
            /\ UNCHANGED <<files, fdref>>
  BY DEF Take
<1>4. PICK d \in Conns : d = c
  BY <1>2
<1> HIDE DEF c
<1>5. SocketTypes'
  <2>1. /\ acc \in [Procs -> [at : {"no", "wait", "falloc", "m_get"}, conn : Conns \cup {NoConn}]]
        /\ files \in [Procs -> SUBSET Conns] /\ fdref \subseteq Conns
    BY DEF IInv, TypeOK
  <2>2. /\ acc' \in [Procs -> [at : {"no", "wait", "falloc", "m_get"}, conn : Conns \cup {NoConn}]]
        /\ files' \in [Procs -> SUBSET Conns] /\ fdref' \subseteq Conns
    BY <1>2, <1>3, <2>1 DEF NotIn
  <2> QED BY <1>3, <2>2 DEF IInv, TypeOK, SocketTypes
<1>6. Len(q0') + Len(q') <= Limit
  BY <1>1, <1>2, <1>3, ListenAssumption DEF Limit
<1>7. Queues(q0', q', so_head')
  BY <1>1, <1>2, <1>3, <1>6 DEF Queues
<1>8. BookInv'
  BY <1>1, <1>2, <1>3, <1>7 DEF BookInv
<1> SUFFICES FileInv'
  BY <1>5, <1>8, ZenonT(30)
<1>9. /\ d \in so_head /\ d \in alloc /\ d \notin fdref
      /\ \A r \in Procs : ~Holds(r, d) /\ d \notin files[r]
  BY <1>1, <1>2, <1>4 DEF IInv, FileInv
<1>10. /\ acc \in [Procs -> [at : {"no", "wait", "falloc", "m_get"}, conn : Conns \cup {NoConn}]]
       /\ files \in [Procs -> SUBSET Conns]
  BY DEF IInv, TypeOK
<1>11. CASE /\ acc' = [acc EXCEPT ![p] = NotIn]
            /\ files' = [files EXCEPT ![p] = @ \cup {d}]
            /\ fdref' = fdref \cup {d}
  <2>1. \A r \in Procs : /\ acc'[r] = IF r = p THEN NotIn ELSE acc[r]
                         /\ files'[r] = IF r = p THEN files[p] \cup {d} ELSE files[r]
    BY <1>10, <1>11
  <2>2. \A r \in Procs, e \in Conns : Holds(r, e)' <=> r # p /\ Holds(r, e)
    BY <2>1 DEF Holds, NotIn
  <2>3. \A r \in Procs, e \in Conns : Holds(r, e) => e # d
    BY <1>9
  <2>4. \A r \in Procs :
           /\ files'[r] \subseteq fdref'
           /\ acc'[r].at = "falloc" => scarce'
           /\ acc'[r].at = "m_get" => acc'[r].conn \in Conns
    BY <1>3, <1>11, <2>1, SMTT(30) DEF IInv, FileInv, NotIn
  <2>5. \A r, t \in Procs : r # t => files'[r] \cap files'[t] = {}
    BY <1>9, <2>1, SMTT(30) DEF IInv, FileInv
  <2> QED BY <1>3, <1>4, <1>11, <2>2, <2>3, <2>4, <2>5 DEF IInv, FileInv, Working
<1>12. CASE /\ acc' = [acc EXCEPT ![p] = [at |-> "m_get", conn |-> d]]
            /\ UNCHANGED <<files, fdref>>
  <2>1. \A r \in Procs : acc'[r] = IF r = p THEN [at |-> "m_get", conn |-> d] ELSE acc[r]
    BY <1>10, <1>12
  <2>2. \A r \in Procs, e \in Conns :
            Holds(r, e)' <=> (r = p /\ e = d) \/ (r # p /\ Holds(r, e))
    BY <2>1 DEF Holds
  <2>3. \A r \in Procs, e \in Conns : Holds(r, e) => e # d
    BY <1>9
  <2>4. \A r \in Procs : /\ acc'[r].at = "falloc" => scarce'
                         /\ acc'[r].at = "m_get" => acc'[r].conn \in Conns
    BY <1>3, <2>1 DEF IInv, FileInv
  <2>5. /\ broken' = "accept" => scarce'
        /\ \A r \in Procs : files'[r] \subseteq fdref'
        /\ \A r, t \in Procs : r # t => files'[r] \cap files'[t] = {}
    BY <1>3, <1>12 DEF IInv, FileInv
  <2>6. \A r \in Procs, e \in Conns : Holds(r, e)' => e \in alloc' \ (fdref' \cup so_head')
    BY <1>3, <1>4, <1>9, <1>12, <2>2, <2>3, ZenonT(30) DEF IInv, FileInv
  <2>7. \A r, t \in Procs, e \in Conns : r # t => ~(Holds(r, e)' /\ Holds(t, e)')
    BY <2>2, <2>3 DEF IInv, FileInv
  <2> QED BY <2>4, <2>5, <2>6, <2>7 DEF FileInv
<1> QED BY <1>3, <1>4, <1>11, <1>12

\* m_get returns and soaccept clears SS_NOFDREF: the connection has been nobody else's.
LEMMA MgetKeeps ==
    ASSUME IInv, NEW p \in Procs, MgetReturns(p)
    PROVE  SocketTypes' /\ BookInv' /\ FileInv'
<1>1. /\ Working /\ acc[p].at = "m_get" /\ acc' = [acc EXCEPT ![p] = NotIn]
      /\ files' = [files EXCEPT ![p] = @ \cup {acc[p].conn}]
      /\ fdref' = fdref \cup {acc[p].conn}
      /\ UNCHANGED <<open, q0, q, so_head, alloc, so_pcb, cantrcv, data, scarce, broken>>
  BY DEF MgetReturns
<1>2. /\ acc \in [Procs -> [at : {"no", "wait", "falloc", "m_get"}, conn : Conns \cup {NoConn}]]
      /\ files \in [Procs -> SUBSET Conns]
  BY DEF IInv, TypeOK
<1>3. PICK d \in Conns : d = acc[p].conn
  BY <1>1 DEF IInv, FileInv
<1>4. Holds(p, d) /\ d \in alloc \ (fdref \cup so_head)
  BY <1>1, <1>3 DEF IInv, FileInv, Holds
<1>5. \A r \in Procs : /\ acc'[r] = IF r = p THEN NotIn ELSE acc[r]
                       /\ files'[r] = IF r = p THEN files[p] \cup {d} ELSE files[r]
  BY <1>1, <1>2, <1>3
<1>6. \A r \in Procs, e \in Conns : Holds(r, e)' <=> r # p /\ Holds(r, e)
  BY <1>5 DEF Holds, NotIn
<1>7. \A r \in Procs, e \in Conns : r # p /\ Holds(r, e) => e # d
  BY <1>1, <1>4 DEF IInv, FileInv
<1>8. \A r \in Procs : d \notin files[r]
  BY <1>4 DEF IInv, FileInv
<1>9. SocketTypes'
  BY <1>1, <1>3 DEF IInv, TypeOK, SocketTypes, NotIn
<1>10. BookInv'
  BY <1>1, <1>3, <1>4 DEF IInv, BookInv
<1>11. \A r \in Procs :
         /\ files'[r] \subseteq fdref'
         /\ acc'[r].at = "falloc" => scarce'
         /\ acc'[r].at = "m_get" => acc'[r].conn \in Conns
  BY <1>1, <1>3, <1>5 DEF IInv, FileInv, NotIn
<1>12. \A r, t \in Procs : r # t => files'[r] \cap files'[t] = {}
  BY <1>5, <1>8, SMTT(30) DEF IInv, FileInv
<1>13. FileInv'
  BY <1>1, <1>3, <1>6, <1>7, <1>11, <1>12 DEF IInv, FileInv, Working
<1> QED BY <1>9, <1>10, <1>13

\* soclose of a connection: only its own descriptor referred to it.
LEMMA CloseConnKeeps ==
    ASSUME IInv, NEW p \in Procs, NEW c \in Conns, CloseConn(p, c)
    PROVE  SocketTypes' /\ BookInv' /\ FileInv' /\ (q = <<>> => q' = <<>>)
<1>1. /\ Working /\ c \in files[p] /\ files' = [files EXCEPT ![p] = @ \ {c}]
      /\ fdref' = fdref \ {c} /\ Sofree(c, so_pcb, fdref')
      /\ UNCHANGED <<open, so_pcb, cantrcv, data, acc, scarce, broken>>
  BY DEF CloseConn, Free
<1>2. /\ Queues(q0', q', so_head') /\ so_head' \subseteq so_head
      /\ q = <<>> => q' = <<>>
      /\ so_head \ {c} \subseteq so_head'
      /\ \/ UNCHANGED alloc
         \/ alloc' = alloc \ {c} /\ c \notin so_head'
  BY <1>1, SofreeQueues DEF IInv, BookInv
<1>3. /\ files \in [Procs -> SUBSET Conns]
      /\ so_head \subseteq alloc \ fdref /\ fdref \subseteq alloc
      /\ c \in fdref /\ \A r \in Procs \ {p} : c \notin files[r]
  BY <1>1 DEF IInv, TypeOK, BookInv, FileInv
<1>4. SocketTypes'
  BY <1>1, <1>2, <1>3 DEF IInv, TypeOK, SocketTypes
<1>5. BookInv'
  BY <1>1, <1>2, <1>3 DEF BookInv
<1>6. \A r \in Procs : files'[r] = IF r = p THEN files[p] \ {c} ELSE files[r]
  BY <1>1, <1>3, ZenonT(30)
<1>7. \A r \in Procs, e \in Conns : (Holds(r, e)' <=> Holds(r, e)) /\ (Holds(r, e) => e # c)
  BY <1>1, <1>3, ZenonT(30) DEF IInv, FileInv, Holds
<1>8. \A r \in Procs : files'[r] \subseteq fdref'
  BY <1>1, <1>3, <1>6 DEF IInv, FileInv
<1>9. \A r, t \in Procs : r # t => files'[r] \cap files'[t] = {}
  BY <1>6, ZenonT(30) DEF IInv, FileInv
<1>10. FileInv'
  BY <1>1, <1>2, <1>7, <1>8, <1>9, Zenon DEF IInv, FileInv, Working
<1> QED BY <1>2, <1>4, <1>5, <1>10, ZenonT(30)

\* soclose of the listening socket aborts what is queued, while nobody is in accept1.
LEMMA CloseHeadKeeps ==
    ASSUME IInv, CloseHead
    PROVE  SocketTypes' /\ BookInv' /\ FileInv' /\ q' = <<>>
<1>1. /\ \A p \in Procs : acc[p].at = "no"
      /\ open' = FALSE /\ q0' = <<>> /\ q' = <<>>
      /\ so_pcb' = so_pcb \ (Range(q0) \cup Range(q))
      /\ so_head' = so_head \ (Range(q0) \cup Range(q))
      /\ alloc' = alloc \ (Range(q0) \cup Range(q))
      /\ UNCHANGED <<fdref, cantrcv, data, acc, files, scarce, broken>>
  BY DEF CloseHead, Free, accvars
<1>2. /\ Range(q0) \cup Range(q) = so_head
      /\ so_head \subseteq alloc \ fdref /\ fdref \subseteq alloc
  BY DEF IInv, BookInv, Queues
<1>3. SocketTypes'
  BY <1>1, Zenon DEF IInv, TypeOK, SocketTypes
<1>4. /\ <<>> \in Seq(Conns) /\ DOMAIN <<>> = {} /\ Len(<<>>) = 0 /\ 0 <= Limit
  BY ListenAssumption DEF Limit
<1>5. Queues(<<>>, <<>>, {})
  BY <1>4 DEF Queues, Range, IsInjective
<1>6. BookInv'
  BY <1>1, <1>2, <1>5, ZenonT(30) DEF BookInv
<1>7. FileInv'
  BY <1>1 DEF IInv, FileInv, Working, Holds
<1> QED BY <1>1, <1>3, <1>6, <1>7
-----------------------------------------------------------------------------
(***************************************************************************)
(* The steps, and what follows.                                            *)
(***************************************************************************)

\* The parts of the type invariant.
LEMMA TypeParts ==
    /\ TypeOK <=> SelectTypeOK /\ SocketTypes /\ q0 \in Seq(Conns) /\ q \in Seq(Conns)
    /\ BookInv => q0 \in Seq(Conns) /\ q \in Seq(Conns)
BY DEF TypeOK, SocketTypes, BookInv, Queues

\* selwakeup keeps the types of select.
LEMMA SelwakeupType ==
    ASSUME SelectTypeOK, NEW o \in Objs, NEW also, Selwakeup(o, also)
    PROVE  SelectTypeOK'
<1>1. /\ p_select \subseteq Procs /\ p_wchan \in [Procs -> {NoChan, "selwait", "so_timeo"}]
      /\ si_pid \in [Objs -> Procs \cup {NoProc}] /\ si_coll \subseteq Objs /\ collided \in BOOLEAN
  BY DEF SelectTypeOK
<1>2. p_wchan' \in [Procs -> {NoChan, "selwait", "so_timeo"}]
  BY <1>1 DEF Selwakeup
<1>3. si_pid' \in [Objs -> Procs \cup {NoProc}] /\ si_coll' \subseteq Objs /\ p_select' \subseteq Procs
  BY <1>1 DEF Selwakeup
<1>4. collided' \in BOOLEAN
  BY <1>1 DEF Selwakeup
<1> QED BY <1>2, <1>3, <1>4 DEF SelectTypeOK, Selwakeup

\* What the protocol does at interrupt level.
LEMMA ProtocolKeeps ==
    ASSUME IInv, Protocol PROVE IInv'
<1>1. Working /\ SelectTypeOK /\ TypeOK /\ WaitInv
  BY ZenonT(30) DEF Protocol, IInv, TypeOK
<1>2. ASSUME NEW c \in Conns, Sonewconn(c) PROVE IInv'
  <2>1. SocketTypes' /\ BookInv' /\ FileInv'
    BY <1>2, NewSocketKeeps DEF Sonewconn
  <2>2. /\ UNCHANGED <<q, cantrcv, data>>
        /\ UNCHANGED <<p_select, p_wchan, si_pid, si_coll, collided, kern, want>>
    BY <1>2 DEF Sonewconn, NewSocket, selvars
  <2>3. WaitInv' /\ SelectTypeOK'
    BY <1>1, <2>2, QuietWaits, ZenonT(30) DEF SelectTypeOK
  <2> QED BY <2>1, <2>3, TypeParts DEF IInv, TypeOK, SocketTypes, BookInv, Queues
<1>3. ASSUME NEW c \in Conns, SonewconnReady(c) \/ Soisconnected(c) PROVE IInv'
  <2>1. SocketTypes' /\ BookInv' /\ FileInv'
    BY <1>3, NewSocketKeeps, SoisconnectedKeeps DEF SonewconnReady
  <2>2. /\ Selwakeup(Listener, {p \in Procs : p_wchan[p] = "so_timeo"})
        /\ UNCHANGED <<cantrcv, data>>
    BY <1>3 DEF SonewconnReady, Soisconnected, NewSocket, WakeAccepters
  <2>3. \A x \in Objs \ {Listener} : Ready(x)' => Ready(x)
    BY <2>2 DEF Ready
  <2>4. WaitInv'
    BY <1>1, <2>2, <2>3, EventWaits, ListenAssumption
  <2>5. SelectTypeOK'
    BY <1>1, <2>2, SelwakeupType, ListenAssumption
  <2> QED BY <2>1, <2>4, <2>5 DEF IInv, TypeOK, SocketTypes, BookInv, Queues
<1>4. ASSUME NEW c \in Conns, Dropped(c) PROVE IInv'
  <2>1. SocketTypes' /\ BookInv' /\ FileInv' /\ (q = <<>> => q' = <<>>)
    BY <1>1, <1>4, DroppedKeeps
  <2>2. /\ UNCHANGED <<cantrcv, data>>
        /\ UNCHANGED <<p_select, p_wchan, si_pid, si_coll, collided, kern, want>>
    BY <1>4 DEF Dropped, selvars
  <2>3. WaitInv' /\ SelectTypeOK'
    BY <1>1, <2>1, <2>2, QuietWaits, ZenonT(30) DEF SelectTypeOK
  <2> QED BY <2>1, <2>3 DEF IInv, TypeOK, SocketTypes, BookInv, Queues
<1>5. ASSUME NEW o \in Objs, Arrives(o) PROVE IInv'
  <2>1. /\ o # Listener /\ data' = data \cup {o} /\ Selwakeup(o, {})
        /\ UNCHANGED <<open, q0, q, so_head, alloc, so_pcb, fdref, cantrcv>>
        /\ UNCHANGED <<acc, files, scarce, broken>>
    BY <1>5 DEF Arrives, accvars
  <2>2. SocketTypes' /\ BookInv' /\ FileInv'
    <3>1. SocketTypes'
      BY <2>1 DEF IInv, TypeOK, SocketTypes
    <3>2. BookInv'
      BY <2>1 DEF IInv, BookInv
    <3>3. FileInv'
      BY <2>1, SameFiles DEF IInv
    <3> QED BY <3>1, <3>2, <3>3
  <2>3. \A x \in Objs \ {o} : Ready(x)' => Ready(x)
    BY <2>1 DEF Ready
  <2>4. WaitInv'
    BY <1>1, <2>1, <2>3, EventWaits
  <2>5. SelectTypeOK'
    BY <1>1, <2>1, SelwakeupType
  <2> QED BY <2>2, <2>4, <2>5 DEF IInv, TypeOK, SocketTypes, BookInv, Queues
<1> QED BY <1>2, <1>3, <1>4, <1>5 DEF Protocol

\* A step that changes only where p is in accept1, and not to a place that needs a
\* connection, keeps the sockets and the descriptors.
LEMMA MovesKeep ==
    ASSUME IInv, NEW p \in Procs, NEW a, acc' = [acc EXCEPT ![p] = a],
           a \in [at : {"no", "wait", "falloc"}, conn : Conns \cup {NoConn}],
           a.at = "falloc" => scarce', scarce => scarce', scarce' \in BOOLEAN,
           UNCHANGED <<sockvars, files, broken>>
    PROVE  SocketTypes' /\ BookInv' /\ FileInv'
<1>1. acc \in [Procs -> [at : {"no", "wait", "falloc", "m_get"}, conn : Conns \cup {NoConn}]]
  BY DEF IInv, TypeOK
<1>2. \A r \in Procs : acc'[r] = IF r = p THEN a ELSE acc[r]
  BY <1>1
<1>3. acc' \in [Procs -> [at : {"no", "wait", "falloc", "m_get"}, conn : Conns \cup {NoConn}]]
  BY <1>1
<1>4. SocketTypes'
  BY <1>3 DEF IInv, TypeOK, SocketTypes, sockvars
<1>5. BookInv'
  BY DEF IInv, BookInv, sockvars
<1>6. \A r \in Procs, e \in Conns : Holds(r, e)' => Holds(r, e)
  BY <1>2 DEF Holds
<1>7. \A r \in Procs : /\ acc'[r].at = "falloc" => scarce'
                       /\ acc'[r].at = "m_get" => acc'[r].conn \in Conns
  BY <1>2, ZenonT(30) DEF IInv, FileInv
<1>8. FileInv'
  BY <1>6, <1>7 DEF IInv, FileInv, Working, sockvars
<1> QED BY <1>4, <1>5, <1>8

\* The loop of accept1, for a process that is at its start.
LEMMA AcceptLoopKeeps ==
    ASSUME IInv, NEW p \in Procs, Working, acc[p].at # "m_get", acc[p].at # "falloc",
           AcceptLoop(p), UNCHANGED selrest
    PROVE  IInv'
<1>1. /\ TypeOK /\ WaitInv /\ SelectTypeOK
      /\ p_wchan \in [Procs -> {NoChan, "selwait", "so_timeo"}]
      /\ acc[p] \in [at : {"no", "wait", "falloc", "m_get"}, conn : Conns \cup {NoConn}]
      /\ acc \in [Procs -> [at : {"no", "wait", "falloc", "m_get"}, conn : Conns \cup {NoConn}]]
  BY DEF IInv, TypeOK, SelectTypeOK
<1>2. /\ NotIn \in [at : {"no", "wait", "falloc"}, conn : Conns \cup {NoConn}]
      /\ NotIn.at # "falloc"
  BY Zenon DEF NotIn
<1>3. CASE Fails(p) /\ UNCHANGED p_wchan
  <2>1. SocketTypes' /\ BookInv' /\ FileInv'
    BY <1>2, <1>3, MovesKeep, Zenon DEF Fails, IInv, TypeOK
  <2>2. WaitInv' /\ SelectTypeOK'
    BY <1>1, <1>3, QuietWaits DEF SelectTypeOK, Fails, sockvars, selrest
  <2> QED BY <2>1, <2>2 DEF IInv, TypeOK, SocketTypes, BookInv, Queues
<1>4. CASE q # <<>> /\ Take(p) /\ UNCHANGED p_wchan
  <2>1. SocketTypes' /\ BookInv' /\ FileInv'
    BY <1>4, TakeKeeps
  <2>2. WaitInv' /\ SelectTypeOK'
    BY <1>1, <1>4, QuietWaits DEF SelectTypeOK, Take, selrest
  <2> QED BY <2>1, <2>2 DEF IInv, TypeOK, SocketTypes, BookInv, Queues
<1>5. CASE /\ acc' = [acc EXCEPT ![p].at = "falloc"] /\ scarce' = TRUE
           /\ UNCHANGED <<sockvars, files, broken, p_wchan>>
  <2>1. PICK a : a = [acc[p] EXCEPT !.at = "falloc"]
    BY Zenon
  <2>2. acc' = [acc EXCEPT ![p] = a] /\ a \in [at : {"no", "wait", "falloc"}, conn : Conns \cup {NoConn}]
    BY <1>1, <1>5, <2>1
  <2>3. SocketTypes' /\ BookInv' /\ FileInv'
    BY <1>5, <2>2, MovesKeep, ZenonT(30)
  <2>4. WaitInv' /\ SelectTypeOK'
    BY <1>1, <1>5, QuietWaits DEF SelectTypeOK, sockvars, selrest
  <2> QED BY <2>3, <2>4 DEF IInv, TypeOK, SocketTypes, BookInv, Queues
<1>6. CASE /\ q = <<>> /\ acc' = [acc EXCEPT ![p].at = "wait"]
           /\ p_wchan' = [p_wchan EXCEPT ![p] = "so_timeo"]
           /\ UNCHANGED <<sockvars, files, scarce, broken>>
  <2>1. PICK a : a = [acc[p] EXCEPT !.at = "wait"]
    BY Zenon
  <2>2. /\ acc' = [acc EXCEPT ![p] = a] /\ a.at = "wait"
        /\ a \in [at : {"no", "wait", "falloc"}, conn : Conns \cup {NoConn}]
    BY <1>1, <1>6, <2>1
  <2>3. SocketTypes' /\ BookInv' /\ FileInv'
    BY <1>6, <2>2, MovesKeep, Zenon DEF IInv, TypeOK
  <2>4. \A r \in Procs : p_wchan'[r] = p_wchan[r] \/ p_wchan'[r] = "so_timeo"
    BY <1>1, <1>6
  <2>5. WaitInv'
    BY <1>1, <1>6, <2>4, QuietWaits DEF sockvars, selrest
  <2>6. SelectTypeOK'
    BY <1>1, <1>6 DEF SelectTypeOK, selrest
  <2> QED BY <2>3, <2>5, <2>6 DEF IInv, TypeOK, SocketTypes, BookInv, Queues
<1> QED BY <1>3, <1>4, <1>5, <1>6, ZenonT(30) DEF AcceptLoop, Falloc

\* The other steps of accept1, close, shutdown and read.
LEMMA CallsKeep ==
    ASSUME IInv, NEW p \in Procs,
           \/ AcceptCall(p) \/ AcceptWakes(p) \/ AcceptInterrupted(p)
           \/ FallocReturns(p) \/ MgetReturns(p) \/ Shutdown(p)
           \/ \E c \in Conns : CloseConn(p, c)
           \/ \E o \in Objs : Reads(p, o)
    PROVE  IInv'
<1>1. /\ TypeOK /\ WaitInv /\ SelectTypeOK /\ scarce \in BOOLEAN
      /\ p_wchan \in [Procs -> {NoChan, "selwait", "so_timeo"}]
  BY ZenonT(30) DEF IInv, TypeOK, SelectTypeOK
<1>2. CASE AcceptCall(p)
  BY <1>2, AcceptLoopKeeps, ZenonT(30) DEF AcceptCall, Free
<1>3. CASE AcceptWakes(p)
  BY <1>3, AcceptLoopKeeps, ZenonT(30) DEF AcceptWakes
<1>4. CASE AcceptInterrupted(p)
  <2>1. /\ NotIn \in [at : {"no", "wait", "falloc"}, conn : Conns \cup {NoConn}]
        /\ NotIn.at # "falloc"
    BY DEF NotIn
  <2>2. SocketTypes' /\ BookInv' /\ FileInv'
    BY <1>1, <1>4, <2>1, MovesKeep, ZenonT(30) DEF AcceptInterrupted, Fails
  <2>3. \A r \in Procs : p_wchan'[r] \in {p_wchan[r], NoChan}
    BY <1>1, <1>4, Zenon DEF AcceptInterrupted
  <2>4. WaitInv'
    BY <1>1, <1>4, <2>3, QuietWaits, ZenonT(30) DEF AcceptInterrupted, Fails, sockvars, selrest
  <2>5. SelectTypeOK'
    BY <1>1, <1>4, Zenon DEF SelectTypeOK, AcceptInterrupted, selrest
  <2> QED BY <2>2, <2>4, <2>5 DEF IInv, TypeOK, SocketTypes, BookInv, Queues
<1>5. CASE FallocReturns(p)
  <2>1. Working /\ acc[p].at = "falloc" /\ UNCHANGED selvars
    BY <1>5, ZenonT(30) DEF FallocReturns
  <2>2. CASE q = <<>>
    <3>1. broken' = "accept" /\ UNCHANGED <<sockvars, acc, files, scarce>>
      BY <1>5, <2>2, ZenonT(30) DEF FallocReturns
    <3>2. SocketTypes' /\ BookInv' /\ scarce'
      BY <2>1, <3>1, ZenonT(30) DEF IInv, TypeOK, SocketTypes, BookInv, FileInv, sockvars
    <3>3. FileInv'
      BY <3>1, <3>2, ZenonT(30) DEF IInv, FileInv, Working, sockvars
    <3>4. WaitInv' /\ SelectTypeOK'
      BY <1>1, <2>1, <3>1, QuietWaits, ZenonT(30) DEF SelectTypeOK, sockvars, selvars
    <3> QED BY <3>2, <3>3, <3>4, ZenonT(30) DEF IInv, TypeOK, SocketTypes, BookInv, Queues
  <2>3. CASE q # <<>>
    <3>1. Take(p)
      BY <1>5, <2>3, ZenonT(30) DEF FallocReturns
    <3>2. SocketTypes' /\ BookInv' /\ FileInv'
      BY <2>1, <2>3, <3>1, TakeKeeps, ZenonT(30)
    <3>3. WaitInv' /\ SelectTypeOK'
      BY <1>1, <2>1, <2>3, <3>1, QuietWaits, SMTT(30) DEF SelectTypeOK, Take, selvars
    <3> QED BY <3>2, <3>3, ZenonT(30) DEF IInv, TypeOK, SocketTypes, BookInv, Queues
  <2> QED BY <2>2, <2>3, ZenonT(30)
<1>6. CASE MgetReturns(p)
  <2>1. SocketTypes' /\ BookInv' /\ FileInv'
    BY <1>6, MgetKeeps, ZenonT(30)
  <2>2. WaitInv' /\ SelectTypeOK'
    BY <1>1, <1>6, QuietWaits, ZenonT(30) DEF SelectTypeOK, MgetReturns, selvars
  <2> QED BY <2>1, <2>2 DEF IInv, TypeOK, SocketTypes, BookInv, Queues
<1>7. CASE Shutdown(p)
  <2>1. /\ cantrcv' = TRUE /\ Selwakeup(Listener, {})
        /\ UNCHANGED <<open, q0, q, so_head, alloc, so_pcb, fdref, data>>
        /\ UNCHANGED <<acc, files, scarce, broken>>
    BY <1>7 DEF Shutdown, accvars
  <2>2. SocketTypes' /\ BookInv'
    BY <2>1 DEF IInv, TypeOK, SocketTypes, BookInv
  <2>3. FileInv'
    BY <2>1, SameFiles DEF IInv
  <2>4. \A x \in Objs \ {Listener} : Ready(x)' => Ready(x)
    BY <2>1 DEF Ready
  <2>5. WaitInv'
    BY <1>1, <2>1, <2>4, EventWaits, ListenAssumption
  <2>6. SelectTypeOK'
    BY <1>1, <2>1, SelwakeupType, ListenAssumption, ZenonT(30)
  <2> QED BY <2>2, <2>3, <2>5, <2>6, ZenonT(30) DEF IInv, TypeOK, SocketTypes, BookInv, Queues
<1>8. ASSUME NEW c \in Conns, CloseConn(p, c) PROVE IInv'
  <2>1. SocketTypes' /\ BookInv' /\ FileInv' /\ (q = <<>> => q' = <<>>)
    BY <1>8, CloseConnKeeps, ZenonT(30)
  <2>2. WaitInv' /\ SelectTypeOK'
    BY <1>1, <1>8, <2>1, QuietWaits, ZenonT(30) DEF SelectTypeOK, CloseConn, selvars
  <2> QED BY <2>1, <2>2 DEF IInv, TypeOK, SocketTypes, BookInv, Queues
<1>9. ASSUME NEW o \in Objs, Reads(p, o) PROVE IInv'
  <2>1. /\ data' = data \ {o} /\ UNCHANGED selvars
        /\ UNCHANGED <<open, q0, q, so_head, alloc, so_pcb, fdref, cantrcv>>
        /\ UNCHANGED <<acc, files, scarce, broken>>
    BY <1>9 DEF Reads, accvars
  <2>2. SocketTypes' /\ BookInv'
    BY <2>1 DEF IInv, TypeOK, SocketTypes, BookInv
  <2>3. FileInv'
    BY <2>1, SameFiles, ZenonT(30) DEF IInv
  <2>4. WaitInv' /\ SelectTypeOK'
    BY <1>1, <2>1, QuietWaits DEF SelectTypeOK, selvars
  <2> QED BY <2>2, <2>3, <2>4 DEF IInv, TypeOK, SocketTypes, BookInv, Queues
<1> QED BY <1>2, <1>3, <1>4, <1>5, <1>6, <1>7, <1>8, <1>9, ZenonT(30)

\* The strengthened invariant holds before the first system call and after every step of
\* select, of accept1, of the closes and of the protocol.
THEOREM Inductive ==
    /\ Init => IInv
    /\ IInv /\ [Next]_vars => IInv'
<1>1. ASSUME Init PROVE IInv
  <2>1. <<>> \in Seq(Conns) /\ DOMAIN <<>> = {} /\ Len(<<>>) = 0 /\ 0 <= Limit
    BY ListenAssumption DEF Limit
  <2>2. Queues(<<>>, <<>>, {})
    BY <2>1, SMTT(30) DEF Queues, Range, IsInjective
  <2>3. TypeOK
    BY <1>1, <2>1, Zenon DEF Init, SelectInit, TypeOK, SelectTypeOK, NoScan, NotIn
  <2>4. BookInv
    BY <1>1, <2>2 DEF Init, BookInv
  <2>5. FileInv
    BY <1>1 DEF Init, FileInv, Holds, NotIn
  <2>6. WaitInv
    BY <1>1, SelectAssumption DEF Init, SelectInit, WaitInv, NoScan
  <2> QED BY <2>3, <2>4, <2>5, <2>6 DEF IInv
<1>2. ASSUME IInv, [Next]_vars PROVE IInv'
  <2>1. CASE UNCHANGED vars
    <3>1. TypeOK' /\ BookInv'
      BY <1>2, <2>1, Zenon DEF IInv, TypeOK, SelectTypeOK, BookInv, vars, selvars, sockvars, accvars
    <3>2. FileInv'
      BY <1>2, <2>1, SameFiles DEF IInv, vars, sockvars, accvars
    <3>3. WaitInv'
      BY <1>2, <2>1, QuietWaits DEF IInv, vars, selvars, sockvars
    <3> QED BY <3>1, <3>2, <3>3 DEF IInv
  <2>2. CASE CloseHead
    <3>1. SocketTypes' /\ BookInv' /\ FileInv' /\ q' = <<>>
      BY <1>2, <2>2, CloseHeadKeeps
    <3>2. UNCHANGED <<cantrcv, data>> /\ UNCHANGED selvars
      BY <2>2, ZenonT(30) DEF CloseHead
    <3>3. WaitInv' /\ SelectTypeOK'
      BY <1>2, <3>1, <3>2, QuietWaits DEF IInv, TypeOK, SelectTypeOK, selvars
    <3> QED BY <3>1, <3>3 DEF IInv, TypeOK, SocketTypes, BookInv, Queues
  <2>3. ASSUME NEW p \in Procs,
               \/ SelectStep(p)
               \/ /\ UNCHANGED <<sockvars, accvars>>
                  /\ \E objs \in SUBSET Objs \ {{}} : SelectCall(p, objs)
        PROVE  IInv'
    <3>1. UNCHANGED <<sockvars, accvars>>
      BY <2>3 DEF SelectStep
    <3>2. TypeOK' /\ WaitInv'
      BY <1>2, <2>3, <3>1, SelectKeeps DEF SelectStep, IInv
    <3>3. BookInv'
      BY <1>2, <3>1 DEF IInv, BookInv, sockvars
    <3>4. FileInv'
      BY <1>2, <3>1, SameFiles DEF IInv, sockvars, accvars
    <3> QED BY <3>2, <3>3, <3>4 DEF IInv
  <2> QED BY <1>2, <2>1, <2>2, <2>3, ProtocolKeeps, CallsKeep, ZenonT(30) DEF Next, Process
<1> QED BY <1>1, <1>2

\* No process sleeps in select while something it selected is ready, nor in accept1 while
\* so_q holds a connection: selwakeup, P_SELECT and nselcoll between them miss no event,
\* however many processes select the same sockets and whenever the interrupt comes.
THEOREM NoEventIsMissed == Spec => []NoMissedEvent
<1>1. IInv => NoMissedEvent
  BY DEF IInv, WaitInv, Watched, NoMissedEvent, NothingMissed
<1> QED BY <1>1, Inductive, PTL DEF Spec

\* A connection is on one queue, once, exactly while its so_head is set, so sofree finds
\* what it looks for, and the queues keep to the limit of sonewconn1.
THEOREM QueuesStayInOrder == Spec => []QueuesAgree
<1>1. IInv => QueuesAgree
  <2> SUFFICES ASSUME IInv PROVE QueuesAgree
    OBVIOUS
  <2> DEFINE all == q0 \o q
  <2>1. /\ q0 \in Seq(Conns) /\ q \in Seq(Conns) /\ IsInjective(q0) /\ IsInjective(q)
        /\ Range(q0) \cap Range(q) = {} /\ Range(q0) \cup Range(q) = so_head
        /\ Len(q0) + Len(q) <= Limit
    BY DEF IInv, BookInv, Queues
  <2>2. /\ all \in Seq(Conns) /\ Len(all) = Len(q0) + Len(q)
        /\ Len(q0) \in Nat /\ Len(q) \in Nat
        /\ \A i \in 1 .. Len(all) : all[i] = IF i <= Len(q0) THEN q0[i] ELSE q[i - Len(q0)]
    BY <2>1
  <2>3. Len(all) <= (3 * Backlog) \div 2 + 1
    BY <2>1, <2>2 DEF Limit
  <2> HIDE DEF all
  <2>4. \A i \in 1 .. Len(all) : \/ i \in 1 .. Len(q0)
                                 \/ i > Len(q0) /\ i - Len(q0) \in 1 .. Len(q)
    BY <2>2
  <2>5. /\ \A i \in 1 .. Len(q0) : i \in 1 .. Len(all) /\ all[i] = q0[i]
        /\ \A i \in 1 .. Len(q) : i + Len(q0) \in 1 .. Len(all) /\ all[i + Len(q0)] = q[i]
    BY <2>2
  <2>6. Range(all) = so_head
    <3>1. ASSUME NEW d \in Range(all) PROVE d \in Range(q0) \cup Range(q)
      <4>1. PICK i \in 1 .. Len(all) : d = all[i]
        BY <2>2 DEF Range
      <4> QED BY <2>1, <2>2, <2>4, <4>1 DEF Range
    <3>2. ASSUME NEW d \in Range(q0) PROVE d \in Range(all)
      <4>1. PICK i \in 1 .. Len(q0) : d = q0[i]
        BY <2>1 DEF Range
      <4>2. i \in 1 .. Len(all) /\ all[i] = d
        BY <2>5, <4>1
      <4> QED BY <2>2, <4>2 DEF Range
    <3>3. ASSUME NEW d \in Range(q) PROVE d \in Range(all)
      <4>1. PICK i \in 1 .. Len(q) : d = q[i]
        BY <2>1 DEF Range
      <4>2. i + Len(q0) \in 1 .. Len(all) /\ all[i + Len(q0)] = d
        BY <2>5, <4>1
      <4> QED BY <2>2, <4>2 DEF Range
    <3> QED BY <2>1, <3>1, <3>2, <3>3, Zenon
  <2>7. IsInjective(all)
    <3> SUFFICES ASSUME NEW i \in 1 .. Len(all), NEW j \in 1 .. Len(all), all[i] = all[j]
                 PROVE  i = j
      BY <2>2, SMTT(30) DEF IsInjective
    <3>1. CASE i \in 1 .. Len(q0) /\ j \in 1 .. Len(q0)
      BY <2>1, <2>5, <3>1 DEF IsInjective
    <3>2. CASE i \notin 1 .. Len(q0) /\ j \notin 1 .. Len(q0)
      <4>1. i - Len(q0) \in 1 .. Len(q) /\ j - Len(q0) \in 1 .. Len(q)
            /\ q[i - Len(q0)] = q[j - Len(q0)]
        BY <2>2, <2>4, <3>2
      <4>2. i - Len(q0) = j - Len(q0)
        BY <2>1, <4>1 DEF IsInjective
      <4> QED BY <2>2, <4>2
    <3>3. ASSUME NEW x \in 1 .. Len(all), NEW y \in 1 .. Len(all), all[x] = all[y],
                 x \in 1 .. Len(q0), y \notin 1 .. Len(q0)
          PROVE  FALSE
      <4>1. all[x] \in Range(q0)
        BY <2>1, <2>5, <3>3 DEF Range
      <4>2. y - Len(q0) \in 1 .. Len(q) /\ all[y] = q[y - Len(q0)]
        BY <2>2, <2>4, <3>3
      <4>3. all[y] \in Range(q)
        <5>1. DOMAIN q = 1 .. Len(q)
          BY <2>1
        <5> QED BY <4>2, <5>1, Zenon DEF Range
      <4> QED BY <2>1, <3>3, <4>1, <4>3
    <3> QED BY <3>1, <3>2, <3>3
  <2> QED BY <2>3, <2>6, <2>7 DEF QueuesAgree, IInv, BookInv, all
<1> QED BY <1>1, Inductive, PTL DEF Spec

\* A descriptor that accept1 hands out refers to a socket that exists until it is closed,
\* and to no other process's; so_q is found empty after its test only when falloc slept.
THEOREM NoFileDangles == Spec => []NoDanglingFile
<1>1. IInv => NoDanglingFile
  BY DEF IInv, BookInv, FileInv, NoDanglingFile
<1> QED BY <1>1, Inductive, PTL DEF Spec
=============================================================================
