---------------------------- MODULE LockmgrProofs ---------------------------
(***************************************************************************)
(* Proofs about Lockmgr, for any number of processes, requests, options and*)
(* any depth of recursion: the books of the lock agree with what its       *)
(* callers hold, exclusive locks exclude, a drained lock is quiet, an      *)
(* upgrade lets no writer pass, and lockmgr implements ReadWriteLock.      *)
(* Without upgrades it does not panic, and with plain calls nobody sleeps  *)
(* whom nobody will wake.                                                  *)
(*                                                                         *)
(* A step of lockmgr is followed from the state in which it finds the lock *)
(* to the outcome it ends with (Return, Sleep, Panic).  In between p runs  *)
(* with the lock l, s shared locks to its name and perhaps a flag that will*)
(* be its own: InMiddle says that the books are right with that put in.    *)
(***************************************************************************)
EXTENDS Lockmgr, FiniteSetTheorems, TLAPS

\* Steps are proved by Zenon unless they name another prover.
USE Zenon

Counted(n, S) == IsFiniteSet(S) /\ Cardinality(S) = n

\* The shared locks, numbered for each process, and the processes inside ACQUIRE.
Held(s) == {h \in Procs \X (Nat \ {0}) : h[2] <= s[h[1]]}
Waiting(c) == {q \in Procs : c[q] \in OnLock}

Locks == [flags : SUBSET Flags, sharecount : Nat, waitcount : Nat,
          exclusivecount : Nat, lockholder : Procs \cup {NoProc}]
Places == OnLock \cup {"idle", "drain"}

\* Each of the flags LK_WANT_UPGRADE and LK_WANT_EXCL belongs to one process, and one
\* process at most waits to drain.
Owned(l, c) ==
    /\ "WANT_UPGRADE" \in l.flags <=> \E q \in Procs : c[q] = "upgrade"
    /\ "WANT_EXCL" \in l.flags <=> \E q \in Procs : c[q] = "excl"
    /\ \A q, r \in Procs : c[q] = c[r] /\ c[q] \in {"upgrade", "excl", "drain"} => q = r

\* The holder of the exclusive lock shares it with nobody, nor does an upgrade wait then.
Granted(l, e) ==
    /\ \A q \in Procs : e[q] = IF l.lockholder = q THEN l.exclusivecount ELSE 0
    /\ l.lockholder = NoProc <=> l.exclusivecount = 0
    /\ "HAVE_EXCL" \in l.flags <=> l.exclusivecount # 0
    /\ l.exclusivecount # 0 => l.sharecount = 0 /\ "WANT_UPGRADE" \notin l.flags

Undrained(l) == "DRAINING" \notin l.flags /\ "DRAINED" \notin l.flags

\* Nobody is inside lockmgr for a drained lock, and one process holds it or none does.
Quiet(l, w) ==
    ~Undrained(l) =>
        /\ l.sharecount = 0
        /\ \A q \in Procs : w[q] = "idle"
        /\ l.exclusivecount = IF "DRAINING" \in l.flags THEN 1 ELSE 0
        /\ "DRAINED" \in l.flags <=> "DRAINING" \notin l.flags

\* The lock l is in order when the processes wait at w, the flags are those of processes
\* at c, and s and e are the locks they hold.
Ordered(l, w, c, s, e) ==
    /\ l \in Locks /\ w \in [Procs -> Places] /\ c \in [Procs -> Places]
    /\ s \in [Procs -> Nat] /\ e \in [Procs -> Nat]
    /\ Counted(l.sharecount, Held(s))
    /\ Counted(l.waitcount, Waiting(w))
    /\ Owned(l, c)
    /\ Granted(l, e)
    /\ Quiet(l, w)

\* The inductive invariant.
LockInv ==
    /\ Ordered(lk, pc, pc, shares, excls)
    /\ asleep \in [Procs -> BOOLEAN]
    /\ ext \in [Procs -> SUBSET {"NOWAIT", "SLEEPFAIL"}]
    /\ panicked \in BOOLEAN

InMiddle(p, l, s, at) ==
    Ordered(l, [pc EXCEPT ![p] = "idle"], [pc EXCEPT ![p] = at],
            [shares EXCEPT ![p] = s], excls)

\* What p holds becomes s shared and e exclusive locks: what the abstract lock allows,
\* and no new writer while another process waits to be upgraded.
Allowed(p, s, e) ==
    \/ s = shares[p] /\ e = excls[p]
    \/ s = shares[p] + 1 /\ e = excls[p] /\ \A q \in Procs : excls[q] = 0
    \/ shares[p] > 0 /\ s = shares[p] - 1 /\ e = excls[p]
    \/ excls[p] > 0 /\ s = shares[p] /\ e = excls[p] - 1
    \/ /\ excls[p] > 0 /\ e = 0
       /\ s = shares[p] + excls[p] \/ s = shares[p] + excls[p] + 1
    \/ /\ \A q \in Procs \ {p} : shares[q] = 0 /\ excls[q] = 0 /\ pc[q] # "upgrade"
       /\ s = 0
       /\ \/ shares[p] = 0 /\ e = excls[p] + 1
          \/ shares[p] = 1 /\ e = 1

\* A step that keeps the invariant and does what the abstract lock allows.
Sound ==
    /\ LockInv'
    /\ RW!Next \/ UNCHANGED <<shares, excls>>
    /\ \A a, q \in Procs : pc[a] = "upgrade" /\ q # a => excls'[q] <= excls[q]

-----------------------------------------------------------------------------
(***************************************************************************)
(* Counting.                                                               *)
(***************************************************************************)

\* One process more inside ACQUIRE (lk_waitcount++).
LEMMA WaitEnter ==
    ASSUME NEW c \in [Procs -> Places], NEW p \in Procs, c[p] \notin OnLock,
           NEW at \in OnLock, NEW n \in Nat, Counted(n, Waiting(c))
    PROVE  Counted(n + 1, Waiting([c EXCEPT ![p] = at]))
<1>1. Waiting([c EXCEPT ![p] = at]) = Waiting(c) \cup {p} /\ p \notin Waiting(c)
  BY DEF Waiting
<1>2. Counted(n + 1, Waiting(c) \cup {p})
  BY <1>1, FS_AddElement DEF Counted
<1> QED BY <1>1, <1>2, Zenon

\* One process less inside ACQUIRE (lk_waitcount--).
LEMMA WaitLeave ==
    ASSUME NEW c \in [Procs -> Places], NEW p \in Procs, c[p] \in OnLock,
           NEW n \in Nat, Counted(n, Waiting(c))
    PROVE  n - 1 \in Nat /\ Counted(n - 1, Waiting([c EXCEPT ![p] = "idle"]))
<1>1. Waiting([c EXCEPT ![p] = "idle"]) = Waiting(c) \ {p} /\ p \in Waiting(c)
  BY DEF Waiting, OnLock
<1>2. Counted(n - 1, Waiting(c) \ {p})
  BY <1>1, FS_RemoveElement DEF Counted
<1>3. n - 1 \in Nat
  <2>1. n # 0
    BY <1>1, FS_EmptySet DEF Counted
  <2> QED BY <2>1, SMT
<1> QED BY <1>1, <1>2, <1>3, Zenon

\* Nobody waits when nothing is counted.
LEMMA WaitNone ==
    ASSUME NEW c, Counted(0, Waiting(c)), NEW p \in Procs
    PROVE  c[p] \notin OnLock
<1>1. Waiting(c) = {}
  BY FS_EmptySet DEF Counted
<1> QED BY <1>1 DEF Waiting

\* One shared lock more.
LEMMA HeldMore ==
    ASSUME NEW s \in [Procs -> Nat], NEW p \in Procs, NEW n \in Nat, Counted(n, Held(s))
    PROVE  Counted(n + 1, Held([s EXCEPT ![p] = s[p] + 1]))
<1> DEFINE new == <<p, s[p] + 1>>
<1>1. Held([s EXCEPT ![p] = s[p] + 1]) = Held(s) \cup {new}
  BY SMT DEF Held
<1>2. new \notin Held(s)
  BY SMT DEF Held
<1> HIDE DEF new
<1>3. Counted(n + 1, Held(s) \cup {new})
  BY <1>2, FS_AddElement DEF Counted
<1> QED BY <1>1, <1>3, Zenon

\* One shared lock less.
LEMMA HeldLess ==
    ASSUME NEW s \in [Procs -> Nat], NEW p \in Procs, s[p] > 0,
           NEW n \in Nat, Counted(n, Held(s))
    PROVE  n - 1 \in Nat /\ Counted(n - 1, Held([s EXCEPT ![p] = s[p] - 1]))
<1> DEFINE old == <<p, s[p]>>
<1>1. Held([s EXCEPT ![p] = s[p] - 1]) = Held(s) \ {old}
  BY SMT DEF Held
<1>2. old \in Held(s)
  BY SMT DEF Held
<1> HIDE DEF old
<1>3. Counted(n - 1, Held(s) \ {old})
  BY <1>2, FS_RemoveElement DEF Counted
<1>4. n - 1 \in Nat
  <2>1. n # 0
    BY <1>2, FS_EmptySet DEF Counted
  <2> QED BY <2>1, SMT
<1> QED BY <1>1, <1>3, <1>4, Zenon

\* No shared lock is held when none is counted.
LEMMA HeldNone ==
    ASSUME NEW s \in [Procs -> Nat], Counted(0, Held(s)), NEW q \in Procs
    PROVE  s[q] = 0
<1>1. Held(s) = {}
  BY FS_EmptySet DEF Counted
<1>2. s[q] # 0 => <<q, s[q]>> \in Held(s)
  BY SMT DEF Held
<1> QED BY <1>1, <1>2

\* The locks of one process are as many as it holds.
LEMMA OnesLocks ==
    ASSUME NEW p \in Procs, NEW n \in Nat
    PROVE  Counted(n, {p} \X (1 .. n))
<1> DEFINE f == [i \in 1 .. n |-> <<p, i>>]
<1>1. f \in Bijection(1 .. n, {p} \X (1 .. n))
  <2>1. f \in [1 .. n -> {p} \X (1 .. n)]
    OBVIOUS
  <2>2. \A i, j \in 1 .. n : f[i] = f[j] => i = j
    OBVIOUS
  <2>3. \A t \in {p} \X (1 .. n) : \E i \in 1 .. n : f[i] = t
    <3> TAKE t \in {p} \X (1 .. n)
    <3>1. t[2] \in 1 .. n /\ t = <<p, t[2]>>
      BY SMT
    <3> QED BY <3>1
  <2> HIDE DEF f
  <2>4. DOMAIN f = 1 .. n
    BY <2>1
  <2> QED BY <2>1, <2>2, <2>3, <2>4 DEF Bijection, Injection, Surjection, IsInjective
<1>2. ExistsBijection(1 .. n, {p} \X (1 .. n))
  BY <1>1 DEF ExistsBijection
<1> QED BY <1>2, FS_CountingElements, FS_NatBijection DEF Counted

\* A downgrade turns all locks of the only holder into shared ones.
LEMMA HeldAll ==
    ASSUME NEW s \in [Procs -> Nat], \A q \in Procs : s[q] = 0, NEW p \in Procs, NEW n \in Nat
    PROVE  Counted(n, Held([s EXCEPT ![p] = n]))
<1>1. Held([s EXCEPT ![p] = n]) = {p} \X (1 .. n)
  BY SMT DEF Held
<1> QED BY <1>1, OnesLocks

\* No process holds more shared locks than there are.
LEMMA HeldBound ==
    ASSUME NEW s \in [Procs -> Nat], NEW n \in Nat, Counted(n, Held(s)), NEW p \in Procs
    PROVE  s[p] <= n
<1>1. {p} \X (1 .. s[p]) \in SUBSET Held(s)
  BY SMT DEF Held
<1>2. Cardinality({p} \X (1 .. s[p])) <= Cardinality(Held(s))
  BY <1>1, FS_Subset DEF Counted
<1> QED BY <1>2, OnesLocks DEF Counted

-----------------------------------------------------------------------------
(***************************************************************************)
(* The outcomes of a step.                                                 *)
(***************************************************************************)

\* A change of p's locks that Allowed names is a step of the abstract lock.
LEMMA AllowedStep ==
    ASSUME LockInv, NEW p \in Procs, NEW s \in Nat, NEW e \in Nat, Allowed(p, s, e),
           shares' = [shares EXCEPT ![p] = s], excls' = [excls EXCEPT ![p] = e]
    PROVE  /\ RW!Next \/ UNCHANGED <<shares, excls>>
           /\ \A a, q \in Procs : pc[a] = "upgrade" /\ q # a => excls'[q] <= excls[q]
<1>0. shares \in [Procs -> Nat] /\ excls \in [Procs -> Nat]
  BY DEF LockInv, Ordered
<1>1. \A a, q \in Procs : pc[a] = "upgrade" /\ q # a => excls'[q] <= excls[q]
  BY <1>0, SMT DEF Allowed
<1>2. CASE s = shares[p] /\ e = excls[p]
  BY <1>0, <1>1, <1>2
<1>3. CASE s = shares[p] + 1 /\ e = excls[p] /\ \A q \in Procs : excls[q] = 0
  <2>1. RW!Read(p)
    BY <1>0, <1>3 DEF RW!Read
  <2> QED BY <1>1, <2>1 DEF RW!Next
<1>4. CASE shares[p] > 0 /\ s = shares[p] - 1 /\ e = excls[p]
  <2>1. RW!Release(p)
    BY <1>0, <1>4 DEF RW!Release
  <2> QED BY <1>1, <2>1 DEF RW!Next
<1>5. CASE excls[p] > 0 /\ s = shares[p] /\ e = excls[p] - 1
  <2>1. RW!Release(p)
    BY <1>0, <1>5 DEF RW!Release
  <2> QED BY <1>1, <2>1 DEF RW!Next
<1>6. CASE /\ excls[p] > 0 /\ e = 0
           /\ s = shares[p] + excls[p] \/ s = shares[p] + excls[p] + 1
  <2>1. \E extra \in {0, 1} : shares' = [shares EXCEPT ![p] = @ + excls[p] + extra]
    <3>1. CASE s = shares[p] + excls[p]
      <4>1. shares' = [shares EXCEPT ![p] = @ + excls[p] + 0]
        <5>1. s = shares[p] + excls[p] + 0
          BY <1>0, <3>1, SMT
        <5> QED BY <1>0, <5>1
      <4> QED BY <4>1
    <3>2. CASE s = shares[p] + excls[p] + 1
      <4>1. shares' = [shares EXCEPT ![p] = @ + excls[p] + 1]
        BY <1>0, <3>2
      <4> QED BY <4>1
    <3> QED BY <1>6, <3>1, <3>2
  <2>2. RW!Downgrade(p)
    BY <1>6, <2>1 DEF RW!Downgrade
  <2> QED BY <1>1, <2>2 DEF RW!Next
<1>7. CASE /\ \A q \in Procs \ {p} : shares[q] = 0 /\ excls[q] = 0 /\ pc[q] # "upgrade"
           /\ s = 0
           /\ \/ shares[p] = 0 /\ e = excls[p] + 1
              \/ shares[p] = 1 /\ e = 1
  <2>1. RW!NobodyBut(p)
    BY <1>7 DEF RW!NobodyBut
  <2>2. CASE shares[p] = 0 /\ e = excls[p] + 1
    <3>1. RW!Write(p)
      BY <1>0, <1>7, <2>1, <2>2 DEF RW!Write
    <3> QED BY <1>1, <3>1 DEF RW!Next
  <2>3. CASE shares[p] = 1 /\ e = 1
    <3>1. RW!Convert(p)
      BY <1>0, <1>7, <2>1, <2>3 DEF RW!Convert
    <3> QED BY <1>1, <3>1 DEF RW!Next
  <2> QED BY <1>7, <2>2, <2>3
<1> QED BY <1>2, <1>3, <1>4, <1>5, <1>6, <1>7 DEF Allowed

\* wakeup changes nothing but the sleep queues.
LEMMA WokenType ==
    ASSUME NEW wake, NEW drained
    PROVE  Woken(wake, drained) \in [Procs -> BOOLEAN]
BY DEF Woken

\* A panic changes nothing of the lock.
LEMMA PanicSound ==
    ASSUME LockInv, Panic
    PROVE  Sound
<1>1. LockInv'
  BY DEF LockInv, Panic
<1>2. \A a, q \in Procs : pc[a] = "upgrade" /\ q # a => excls'[q] <= excls[q]
  BY SMT DEF Panic, LockInv, Ordered
<1> QED BY <1>1, <1>2 DEF Panic, Sound

\* lockmgr's return keeps the lock in order.
LEMMA ReturnSound ==
    ASSUME LockInv, NEW p \in Procs, NEW l, NEW wake, NEW s \in Nat, NEW e \in Nat,
           Ordered(l, [pc EXCEPT ![p] = "idle"], [pc EXCEPT ![p] = "idle"],
                   [shares EXCEPT ![p] = s], [excls EXCEPT ![p] = e]),
           Allowed(p, s, e),
           Return(p, l, wake, s, e)
    PROVE  Sound
<1> DEFINE c == [pc EXCEPT ![p] = "idle"]
<1>1. /\ lk' = l \/ lk' = [l EXCEPT !.flags = @ \ {"WAITDRAIN"}]
      /\ pc' = c
      /\ shares' = [shares EXCEPT ![p] = s]
      /\ excls' = [excls EXCEPT ![p] = e]
      /\ ext' = [ext EXCEPT ![p] = {}]
      /\ asleep' \in [Procs -> BOOLEAN]
      /\ panicked' = panicked
  BY WokenType DEF Return
<1>2. l \in Locks
  BY DEF Ordered
<1>3. /\ lk' \in Locks
      /\ lk'.sharecount = l.sharecount /\ lk'.waitcount = l.waitcount
      /\ lk'.exclusivecount = l.exclusivecount /\ lk'.lockholder = l.lockholder
      /\ \A f \in Flags \ {"WAITDRAIN"} : f \in lk'.flags <=> f \in l.flags
  BY <1>1, <1>2 DEF Locks
<1>4. Owned(lk', c) /\ Granted(lk', excls') /\ Quiet(lk', c)
  <2>1. /\ "WANT_UPGRADE" \in lk'.flags <=> "WANT_UPGRADE" \in l.flags
        /\ "WANT_EXCL" \in lk'.flags <=> "WANT_EXCL" \in l.flags
        /\ "HAVE_EXCL" \in lk'.flags <=> "HAVE_EXCL" \in l.flags
        /\ "DRAINING" \in lk'.flags <=> "DRAINING" \in l.flags
        /\ "DRAINED" \in lk'.flags <=> "DRAINED" \in l.flags
    BY <1>3 DEF Flags, Busy
  <2>2. Owned(l, c) /\ Granted(l, excls') /\ Quiet(l, c)
    BY <1>1 DEF Ordered
  <2>3. Owned(lk', c)
    BY <2>1, <2>2 DEF Owned
  <2>4. Granted(lk', excls')
    BY <1>3, <2>1, <2>2 DEF Granted
  <2>5. Quiet(lk', c)
    BY <1>3, <2>1, <2>2 DEF Quiet, Undrained
  <2> QED BY <2>3, <2>4, <2>5
<1>5. Ordered(lk', c, c, shares', excls')
  BY <1>1, <1>3, <1>4 DEF Ordered
<1>6. LockInv'
  BY <1>1, <1>5 DEF LockInv
<1> QED BY <1>1, <1>6, AllowedStep DEF Sound

\* A process that sleeps inside ACQUIRE is counted, and owns the flag of its place.
LEMMA SleepSound ==
    ASSUME LockInv, NEW p \in Procs, NEW l, NEW wake, NEW at \in OnLock, NEW s \in Nat,
           NEW opts \in SUBSET {"NOWAIT", "SLEEPFAIL"},
           InMiddle(p, l, s, IF at \in {"upgrade", "excl"} THEN at ELSE "idle"),
           Undrained(l),
           s = shares[p] \/ (shares[p] > 0 /\ s = shares[p] - 1),
           Sleep(p, l, wake, at, opts, s)
    PROVE  Sound
<1> DEFINE w == [pc EXCEPT ![p] = "idle"]
           from == IF at \in {"upgrade", "excl"} THEN at ELSE "idle"
           c == [pc EXCEPT ![p] = from]
           new == [pc EXCEPT ![p] = at]
<1>1. /\ lk' = [l EXCEPT !.waitcount = @ + 1]
      /\ pc' = new
      /\ shares' = [shares EXCEPT ![p] = s]
      /\ excls' = excls
      /\ ext' = [ext EXCEPT ![p] = opts]
      /\ asleep' \in [Procs -> BOOLEAN]
      /\ panicked' = panicked
  BY WokenType DEF Sleep
<1>2. /\ l \in Locks /\ w \in [Procs -> Places] /\ pc \in [Procs -> Places]
      /\ shares' \in [Procs -> Nat] /\ excls \in [Procs -> Nat]
      /\ Counted(l.sharecount, Held(shares')) /\ Counted(l.waitcount, Waiting(w))
      /\ Owned(l, c) /\ Granted(l, excls)
  BY <1>1 DEF InMiddle, Ordered, LockInv
<1>3. /\ lk' \in Locks
      /\ lk'.sharecount = l.sharecount /\ lk'.waitcount = l.waitcount + 1
      /\ lk'.exclusivecount = l.exclusivecount /\ lk'.lockholder = l.lockholder
      /\ lk'.flags = l.flags
  BY <1>1, <1>2, SMT DEF Locks
<1>4. Counted(lk'.waitcount, Waiting(new))
  <2>1. new = [w EXCEPT ![p] = at] /\ w[p] \notin OnLock /\ l.waitcount \in Nat
    BY <1>2 DEF OnLock, Locks
  <2> QED BY <1>2, <1>3, <2>1, WaitEnter, SMT
<1>5. Owned(lk', new)
  BY <1>2, <1>3, SMT DEF Owned, OnLock
<1>6. Granted(lk', excls') /\ Quiet(lk', new)
  BY <1>1, <1>2, <1>3, SMT DEF Granted, Quiet, Undrained
<1>7. new \in [Procs -> Places]
  BY <1>2 DEF Places
<1>8. Ordered(lk', pc', pc', shares', excls')
  BY <1>1, <1>2, <1>3, <1>4, <1>5, <1>6, <1>7 DEF Ordered
<1>9. LockInv'
  BY <1>1, <1>8 DEF LockInv
<1>10. excls' = [excls EXCEPT ![p] = excls[p]] /\ Allowed(p, s, excls[p]) /\ excls[p] \in Nat
  BY <1>1, <1>2 DEF Allowed
<1> QED BY <1>1, <1>9, <1>10, AllowedStep DEF Sound

\* A return that gives p nothing, or takes a shared lock from it.
LEMMA LessSound ==
    ASSUME LockInv, NEW p \in Procs, NEW l, NEW wake, NEW s \in Nat,
           InMiddle(p, l, s, "idle"),
           s = shares[p] \/ (shares[p] > 0 /\ s = shares[p] - 1),
           Return(p, l, wake, s, excls[p])
    PROVE  Sound
<1>1. excls[p] \in Nat /\ [excls EXCEPT ![p] = excls[p]] = excls
  BY DEF LockInv, Ordered
<1>2. Allowed(p, s, excls[p])
  BY DEF Allowed
<1> QED BY <1>1, <1>2, ReturnSound DEF InMiddle

-----------------------------------------------------------------------------
(***************************************************************************)
(* That the waits of Lockmgr, entered by a call or after tsleep, keep the  *)
(* lock in order.                                                          *)
(***************************************************************************)

\* A shared lock is granted only while nobody holds the lock exclusively.
LEMMA AcquireSharedSound ==
    ASSUME LockInv, NEW p \in Procs, NEW l, NEW opts \in SUBSET {"NOWAIT", "SLEEPFAIL"},
           InMiddle(p, l, shares[p], "idle"), Undrained(l), AcquireShared(p, l, opts)
    PROVE  Sound
<1> DEFINE c == [pc EXCEPT ![p] = "idle"]
           m == [l EXCEPT !.sharecount = @ + 1]
           s == shares[p] + 1
<1>1. /\ l \in Locks /\ c \in [Procs -> Places]
      /\ shares \in [Procs -> Nat] /\ excls \in [Procs -> Nat]
      /\ [shares EXCEPT ![p] = shares[p]] = shares
      /\ [excls EXCEPT ![p] = excls[p]] = excls
      /\ Counted(l.sharecount, Held(shares)) /\ Counted(l.waitcount, Waiting(c))
      /\ Owned(l, c) /\ Granted(l, excls)
  BY DEF InMiddle, Ordered, LockInv
<1>2. CASE Wanted(l, "share")
  <2>1. Sleep(p, l, FALSE, "share", opts, shares[p])
    BY <1>2 DEF AcquireShared
  <2>2. "share" \in OnLock /\ "share" \notin {"upgrade", "excl"} /\ shares[p] \in Nat
    BY <1>1 DEF OnLock
  <2> QED BY <2>1, <2>2, SleepSound
<1>3. CASE ~Wanted(l, "share")
  <2>1. Return(p, m, FALSE, s, excls[p])
    BY <1>3 DEF AcquireShared
  <2>2. /\ m \in Locks /\ m.flags = l.flags /\ m.sharecount = l.sharecount + 1
        /\ m.waitcount = l.waitcount /\ m.exclusivecount = l.exclusivecount
        /\ m.lockholder = l.lockholder /\ l.sharecount \in Nat
    BY <1>1, SMT DEF Locks
  <2>3. l.exclusivecount = 0
    BY <1>1, <1>3 DEF Granted, Wanted, Busy
  <2>4. Counted(m.sharecount, Held([shares EXCEPT ![p] = s]))
    <3>1. Counted(l.sharecount + 1, Held([shares EXCEPT ![p] = s]))
      BY <1>1, <2>2, HeldMore
    <3> QED BY <2>2, <3>1
  <2>5. Owned(m, c) /\ Granted(m, excls) /\ Quiet(m, c)
    BY <1>1, <2>2, <2>3 DEF Owned, Granted, Quiet, Undrained
  <2>6. s \in Nat /\ excls[p] \in Nat /\ [shares EXCEPT ![p] = s] \in [Procs -> Nat]
    BY <1>1, SMT
  <2>7. Ordered(m, c, c, [shares EXCEPT ![p] = s], [excls EXCEPT ![p] = excls[p]])
    BY <1>1, <2>2, <2>4, <2>5, <2>6 DEF Ordered
  <2>8. Allowed(p, s, excls[p])
    BY <1>1, <2>3 DEF Granted, Allowed
  <2> QED BY <2>1, <2>6, <2>7, <2>8, ReturnSound
<1> QED BY <1>2, <1>3

\* The exclusive lock is granted when nobody shares the lock or has it.
LEMMA GrantSound ==
    ASSUME LockInv, NEW p \in Procs, NEW l, NEW wake, NEW s \in Nat,
           NEW at \in {"upgrade", "excl"}, NEW flag,
           flag = IF at = "upgrade" THEN "WANT_UPGRADE" ELSE "WANT_EXCL",
           InMiddle(p, l, s, at), Undrained(l), l.sharecount = 0,
           at = "excl" => "WANT_UPGRADE" \notin l.flags,
           s = shares[p] \/ (shares[p] = 1 /\ s = 0),
           GrantExclusive(p, l, wake, flag, s)
    PROVE  Sound
<1> DEFINE c == [pc EXCEPT ![p] = "idle"]
           d == [pc EXCEPT ![p] = at]
           m == [l EXCEPT !.flags = (@ \ {flag}) \cup {"HAVE_EXCL"},
                          !.lockholder = p, !.exclusivecount = 1]
           t == [shares EXCEPT ![p] = s]
           e == [excls EXCEPT ![p] = 1]
<1>1. /\ l \in Locks /\ c \in [Procs -> Places] /\ pc \in [Procs -> Places]
      /\ t \in [Procs -> Nat] /\ excls \in [Procs -> Nat] /\ shares \in [Procs -> Nat]
      /\ Counted(l.sharecount, Held(t)) /\ Counted(l.waitcount, Waiting(c))
      /\ Owned(l, d) /\ Granted(l, excls)
  BY DEF InMiddle, Ordered, LockInv
<1>2. CASE l.exclusivecount # 0
  BY <1>2, PanicSound DEF GrantExclusive
<1>3. CASE l.exclusivecount = 0
  <2>1. Return(p, m, wake, s, 1)
    BY <1>3 DEF GrantExclusive
  <2>2. /\ m \in Locks /\ m.sharecount = l.sharecount /\ m.waitcount = l.waitcount
        /\ m.exclusivecount = 1 /\ m.lockholder = p
        /\ m.flags = (l.flags \ {flag}) \cup {"HAVE_EXCL"}
    BY <1>1 DEF Locks, Flags, Busy
  <2>3. \A q \in Procs : excls[q] = 0
    BY <1>1, <1>3 DEF Granted
  <2>4. \A q \in Procs : t[q] = 0
    BY <1>1, HeldNone
  <2>5. \A q \in Procs \ {p} : pc[q] # "upgrade"
    BY <1>1 DEF Owned
  <2>6. Owned(m, c)
    BY <1>1, <2>2, SMT DEF Owned
  <2>7. "WANT_UPGRADE" \notin m.flags
    BY <2>2
  <2>8. p # NoProc
    BY ProcsAssumption
  <2>9. Granted(m, e)
    BY <1>1, <2>2, <2>3, <2>7, <2>8, SMT DEF Granted
  <2>10. Quiet(m, c)
    BY <2>2 DEF Quiet, Undrained
  <2>11. Ordered(m, c, c, t, e)
    BY <1>1, <2>2, <2>6, <2>9, <2>10 DEF Ordered
  <2>12. Allowed(p, s, 1)
    BY <1>1, <2>3, <2>4, <2>5, SMT DEF Allowed
  <2> QED BY <2>1, <2>11, <2>12, ReturnSound
<1> QED BY <1>2, <1>3

\* LK_UPGRADE with LK_WANT_UPGRADE set waits for the other shared locks to go.
LEMMA AcquireUpgradeSound ==
    ASSUME LockInv, NEW p \in Procs, NEW l, NEW s \in Nat,
           NEW opts \in SUBSET {"NOWAIT", "SLEEPFAIL"},
           InMiddle(p, l, s, "upgrade"), Undrained(l),
           s = shares[p] \/ (shares[p] = 1 /\ s = 0),
           AcquireUpgrade(p, l, opts, s)
    PROVE  Sound
<1>1. CASE Wanted(l, "upgrade")
  <2>1. Sleep(p, l, FALSE, "upgrade", opts, s)
    BY <1>1 DEF AcquireUpgrade
  <2>2. "upgrade" \in OnLock /\ "upgrade" \in {"upgrade", "excl"}
    BY DEF OnLock
  <2>3. s = shares[p] \/ (shares[p] > 0 /\ s = shares[p] - 1)
    BY SMT
  <2> QED BY <2>1, <2>2, <2>3, SleepSound
<1>2. CASE ~Wanted(l, "upgrade")
  <2>1. GrantExclusive(p, l, FALSE, "WANT_UPGRADE", s)
    BY <1>2 DEF AcquireUpgrade
  <2>2. l.sharecount = 0
    BY <1>2 DEF Wanted
  <2> QED BY <2>1, <2>2, GrantSound
<1> QED BY <1>1, <1>2

\* LK_EXCLUSIVE with LK_WANT_EXCL set waits for shared locks and an upgrade to go.
LEMMA AwaitSharersSound ==
    ASSUME LockInv, NEW p \in Procs, NEW l, NEW wake, NEW s \in Nat,
           NEW opts \in SUBSET {"NOWAIT", "SLEEPFAIL"},
           InMiddle(p, l, s, "excl"), Undrained(l),
           s = shares[p] \/ (shares[p] = 1 /\ s = 0),
           AwaitSharers(p, l, wake, opts, s)
    PROVE  Sound
<1>1. CASE Wanted(l, "excl")
  <2>1. Sleep(p, l, wake, "excl", opts, s)
    BY <1>1 DEF AwaitSharers
  <2>2. "excl" \in OnLock /\ "excl" \in {"upgrade", "excl"}
    BY DEF OnLock
  <2>3. s = shares[p] \/ (shares[p] > 0 /\ s = shares[p] - 1)
    BY SMT
  <2> QED BY <2>1, <2>2, <2>3, SleepSound
<1>2. CASE ~Wanted(l, "excl")
  <2>1. GrantExclusive(p, l, wake, "WANT_EXCL", s)
    BY <1>2 DEF AwaitSharers
  <2>2. l.sharecount = 0 /\ "WANT_UPGRADE" \notin l.flags
    BY <1>2 DEF Wanted
  <2> QED BY <2>1, <2>2, GrantSound
<1> QED BY <1>1, <1>2

\* LK_EXCLUSIVE sets LK_WANT_EXCL only when no other process has it set.
LEMMA AcquireExclusiveSound ==
    ASSUME LockInv, NEW p \in Procs, NEW l, NEW wake, NEW s \in Nat,
           NEW opts \in SUBSET {"NOWAIT", "SLEEPFAIL"},
           InMiddle(p, l, s, "idle"), Undrained(l),
           s = shares[p] \/ (shares[p] = 1 /\ s = 0),
           AcquireExclusive(p, l, wake, opts, s)
    PROVE  Sound
<1>1. CASE Wanted(l, "want")
  <2>1. Sleep(p, l, wake, "want", opts, s)
    BY <1>1 DEF AcquireExclusive
  <2>2. "want" \in OnLock /\ "want" \notin {"upgrade", "excl"}
    BY DEF OnLock
  <2>3. s = shares[p] \/ (shares[p] > 0 /\ s = shares[p] - 1)
    BY SMT
  <2> QED BY <2>1, <2>2, <2>3, SleepSound
<1>2. CASE ~Wanted(l, "want")
  <2> DEFINE m == [l EXCEPT !.flags = @ \cup {"WANT_EXCL"}]
             c == [pc EXCEPT ![p] = "idle"]
             d == [pc EXCEPT ![p] = "excl"]
             t == [shares EXCEPT ![p] = s]
  <2>1. AwaitSharers(p, m, wake, opts, s)
    BY <1>2 DEF AcquireExclusive
  <2>2. /\ l \in Locks /\ c \in [Procs -> Places] /\ pc \in [Procs -> Places]
        /\ t \in [Procs -> Nat] /\ excls \in [Procs -> Nat]
        /\ Counted(l.sharecount, Held(t)) /\ Counted(l.waitcount, Waiting(c))
        /\ Owned(l, c) /\ Granted(l, excls)
    BY DEF InMiddle, Ordered, LockInv
  <2>3. /\ m \in Locks /\ m.sharecount = l.sharecount /\ m.waitcount = l.waitcount
        /\ m.exclusivecount = l.exclusivecount /\ m.lockholder = l.lockholder
        /\ m.flags = l.flags \cup {"WANT_EXCL"}
    BY <2>2 DEF Locks, Flags, Busy
  <2>4. "WANT_EXCL" \notin l.flags
    BY <1>2 DEF Wanted
  <2>5. Owned(m, d)
    BY <2>2, <2>3, <2>4, SMT DEF Owned
  <2>6. Granted(m, excls) /\ Quiet(m, c) /\ Undrained(m)
    BY <2>2, <2>3 DEF Granted, Quiet, Undrained
  <2>7. d \in [Procs -> Places]
    BY <2>2 DEF Places, OnLock
  <2>8. InMiddle(p, m, s, "excl")
    BY <2>2, <2>3, <2>5, <2>6, <2>7 DEF InMiddle, Ordered
  <2> HIDE DEF m
  <2> QED BY <2>1, <2>6, <2>8, AwaitSharersSound
<1> QED BY <1>1, <1>2

\* case LK_EXCLUSIVE, with the lock held already, busy, or to be waited for.
LEMMA ExclusiveSound ==
    ASSUME LockInv, NEW p \in Procs, NEW l, NEW wake, NEW s \in Nat,
           NEW opts \in SUBSET {"NOWAIT", "SLEEPFAIL"},
           InMiddle(p, l, s, "idle"), Undrained(l),
           s = shares[p] \/ (shares[p] = 1 /\ s = 0 /\ l.lockholder # p),
           Exclusive(p, l, wake, opts, s)
    PROVE  Sound
<1> DEFINE c == [pc EXCEPT ![p] = "idle"]
           t == [shares EXCEPT ![p] = s]
<1>1. /\ l \in Locks /\ c \in [Procs -> Places]
      /\ t \in [Procs -> Nat] /\ excls \in [Procs -> Nat] /\ shares \in [Procs -> Nat]
      /\ Counted(l.sharecount, Held(t)) /\ Counted(l.waitcount, Waiting(c))
      /\ Owned(l, c) /\ Granted(l, excls) /\ Quiet(l, c)
      /\ [excls EXCEPT ![p] = excls[p]] = excls /\ excls[p] \in Nat
  BY DEF InMiddle, Ordered, LockInv
<1>2. CASE l.lockholder = p /\ ~CanRecurse
  BY <1>2, PanicSound DEF Exclusive
<1>3. CASE l.lockholder = p /\ CanRecurse
  <2> DEFINE m == [l EXCEPT !.exclusivecount = @ + 1]
             e == excls[p] + 1
  <2>1. Return(p, m, wake, s, e)
    BY <1>3 DEF Exclusive
  <2>2. /\ m \in Locks /\ m.sharecount = l.sharecount /\ m.waitcount = l.waitcount
        /\ m.exclusivecount = l.exclusivecount + 1 /\ m.lockholder = l.lockholder
        /\ m.flags = l.flags /\ l.exclusivecount \in Nat
    BY <1>1, SMT DEF Locks
  <2>3. l.exclusivecount # 0 /\ l.sharecount = 0 /\ "WANT_UPGRADE" \notin l.flags
    BY <1>1, <1>3, ProcsAssumption DEF Granted
  <2>4. \A q \in Procs : t[q] = 0
    BY <1>1, <2>3, HeldNone
  <2>5. Granted(m, [excls EXCEPT ![p] = e])
    BY <1>1, <1>3, <2>2, <2>3, ProcsAssumption, SMT DEF Granted
  <2>6. Owned(m, c) /\ Quiet(m, c)
    BY <1>1, <2>2 DEF Owned, Quiet, Undrained
  <2>7. e \in Nat /\ [excls EXCEPT ![p] = e] \in [Procs -> Nat]
    BY <1>1, SMT
  <2>8. Ordered(m, c, c, t, [excls EXCEPT ![p] = e])
    BY <1>1, <2>2, <2>5, <2>6, <2>7 DEF Ordered
  <2>9. Allowed(p, s, e)
    <3>1. s = 0 /\ shares[p] = 0
      BY <1>1, <1>3, <2>4
    <3>2. \A q \in Procs \ {p} : shares[q] = 0 /\ excls[q] = 0 /\ pc[q] # "upgrade"
      BY <1>1, <1>3, <2>3, <2>4 DEF Granted, Owned
    <3> QED BY <3>1, <3>2 DEF Allowed
  <2> HIDE DEF m, e
  <2> QED BY <2>1, <2>7, <2>8, <2>9, ReturnSound
<1>4. CASE /\ l.lockholder # p
           /\ "NOWAIT" \in opts /\ (l.flags \cap Busy # {} \/ l.sharecount # 0)
  <2>1. Return(p, l, wake, s, excls[p])
    BY <1>4 DEF Exclusive
  <2>2. Ordered(l, c, c, t, [excls EXCEPT ![p] = excls[p]])
    BY <1>1 DEF Ordered
  <2>3. Allowed(p, s, excls[p])
    BY SMT DEF Allowed
  <2> QED BY <1>1, <2>1, <2>2, <2>3, ReturnSound
<1>5. CASE /\ l.lockholder # p
           /\ ~("NOWAIT" \in opts /\ (l.flags \cap Busy # {} \/ l.sharecount # 0))
  <2>1. AcquireExclusive(p, l, wake, opts, s)
    BY <1>5 DEF Exclusive
  <2> QED BY <2>1, AcquireExclusiveSound
<1> QED BY <1>2, <1>3, <1>4, <1>5

\* LK_DRAIN is granted when nobody holds the lock or waits for it.
LEMMA AcquireDrainSound ==
    ASSUME LockInv, NEW p \in Procs, NEW opts \in SUBSET {"NOWAIT", "SLEEPFAIL"},
           pc[p] \notin OnLock, Undrained(lk),
           \A q \in Procs \ {p} : pc[q] # "drain",
           AcquireDrain(p, lk, opts)
    PROVE  Sound
<1>1. /\ lk \in Locks /\ pc \in [Procs -> Places]
      /\ shares \in [Procs -> Nat] /\ excls \in [Procs -> Nat]
      /\ Counted(lk.sharecount, Held(shares)) /\ Counted(lk.waitcount, Waiting(pc))
      /\ Owned(lk, pc) /\ Granted(lk, excls)
  BY DEF Ordered, LockInv
<1>2. CASE InUse(lk)
  <2>1. /\ lk' = [lk EXCEPT !.flags = @ \cup {"WAITDRAIN"}]
        /\ pc' = [pc EXCEPT ![p] = "drain"]
        /\ asleep' = [asleep EXCEPT ![p] = TRUE]
        /\ ext' = [ext EXCEPT ![p] = opts]
        /\ UNCHANGED <<shares, excls, panicked>>
    BY <1>2 DEF AcquireDrain
  <2>2. /\ lk' \in Locks /\ lk'.sharecount = lk.sharecount /\ lk'.waitcount = lk.waitcount
        /\ lk'.exclusivecount = lk.exclusivecount /\ lk'.lockholder = lk.lockholder
        /\ lk'.flags = lk.flags \cup {"WAITDRAIN"}
    BY <1>1, <2>1 DEF Locks, Flags
  <2>3. Waiting(pc') = Waiting(pc) /\ pc' \in [Procs -> Places]
    BY <1>1, <2>1 DEF Waiting, OnLock, Places
  <2>4. Owned(lk', pc')
    BY <1>1, <2>1, <2>2, SMT DEF Owned, OnLock, Places
  <2>5. Granted(lk', excls') /\ Quiet(lk', pc')
    BY <1>1, <2>1, <2>2 DEF Granted, Quiet, Undrained
  <2>6. Ordered(lk', pc', pc', shares', excls')
    BY <1>1, <2>1, <2>2, <2>3, <2>4, <2>5 DEF Ordered
  <2>7. LockInv'
    BY <2>1, <2>6 DEF LockInv
  <2>8. \A a, q \in Procs : pc[a] = "upgrade" /\ q # a => excls'[q] <= excls[q]
    BY <1>1, <2>1, SMT
  <2> QED BY <2>1, <2>7, <2>8 DEF Sound
<1>3. CASE ~InUse(lk)
  <2> DEFINE c == [pc EXCEPT ![p] = "idle"]
             m == [lk EXCEPT !.flags = @ \cup {"DRAINING", "HAVE_EXCL"},
                             !.lockholder = p, !.exclusivecount = 1]
             e == [excls EXCEPT ![p] = 1]
  <2>1. Return(p, m, FALSE, shares[p], 1)
    BY <1>3 DEF AcquireDrain
  <2>2. /\ m \in Locks /\ m.sharecount = lk.sharecount /\ m.waitcount = lk.waitcount
        /\ m.exclusivecount = 1 /\ m.lockholder = p
        /\ m.flags = lk.flags \cup {"DRAINING", "HAVE_EXCL"}
    BY <1>1 DEF Locks, Flags, Busy
  <2>3. /\ lk.sharecount = 0 /\ lk.waitcount = 0 /\ "HAVE_EXCL" \notin lk.flags
        /\ "WANT_EXCL" \notin lk.flags /\ "WANT_UPGRADE" \notin lk.flags
    BY <1>3 DEF InUse, Busy
  <2>4. \A q \in Procs : shares[q] = 0 /\ excls[q] = 0 /\ pc[q] \notin OnLock
    BY <1>1, <2>3, HeldNone, WaitNone DEF Granted
  <2>5. \A q \in Procs : c[q] = "idle"
    BY <1>1, <2>4 DEF Places
  <2>6. Waiting(c) = Waiting(pc) /\ c \in [Procs -> Places]
    BY <1>1, <2>4, <2>5 DEF Waiting, OnLock, Places
  <2>7. Owned(m, c) /\ Quiet(m, c)
    <3>1. Owned(m, c)
      BY <2>2, <2>3, <2>5 DEF Owned
    <3>2. Quiet(m, c)
      BY <2>2, <2>3, <2>5 DEF Quiet, Undrained
    <3> QED BY <3>1, <3>2
  <2>8. Granted(m, e)
    BY <1>1, <2>2, <2>3, <2>4, ProcsAssumption, SMT DEF Granted
  <2>9. [shares EXCEPT ![p] = shares[p]] = shares /\ e \in [Procs -> Nat] /\ shares[p] \in Nat
    BY <1>1
  <2>10. Ordered(m, c, c, [shares EXCEPT ![p] = shares[p]], e)
    BY <1>1, <2>2, <2>6, <2>7, <2>8, <2>9 DEF Ordered
  <2>11. Allowed(p, shares[p], 1)
    BY <2>4, SMT DEF Allowed, OnLock
  <2> HIDE DEF m
  <2> QED BY <2>1, <2>9, <2>10, <2>11, ReturnSound
<1> QED BY <1>2, <1>3

-----------------------------------------------------------------------------
(***************************************************************************)
(* The returns from tsleep.                                                *)
(***************************************************************************)

\* A process that sleeps inside ACQUIRE finds the lock with itself not counted; the flag
\* of its place is still its own, or it takes the flag away.
LEMMA SleeperInMiddle ==
    ASSUME LockInv, NEW p \in Procs, pc[p] \in OnLock
    PROVE  LET l == [lk EXCEPT !.waitcount = @ - 1]
               own == CASE pc[p] = "upgrade" -> {"WANT_UPGRADE"}
                        [] pc[p] = "excl" -> {"WANT_EXCL"}
                        [] OTHER -> {}
           IN  /\ InMiddle(p, l, shares[p], pc[p])
               /\ pc[p] \in {"share", "want"} => InMiddle(p, l, shares[p], "idle")
               /\ InMiddle(p, [l EXCEPT !.flags = @ \ own], shares[p], "idle")
               /\ Undrained(l)
               /\ shares[p] \in Nat
<1> DEFINE l == [lk EXCEPT !.waitcount = @ - 1]
           own == CASE pc[p] = "upgrade" -> {"WANT_UPGRADE"}
                    [] pc[p] = "excl" -> {"WANT_EXCL"}
                    [] OTHER -> {}
           m == [l EXCEPT !.flags = @ \ own]
           w == [pc EXCEPT ![p] = "idle"]
<1>1. /\ lk \in Locks /\ pc \in [Procs -> Places]
      /\ shares \in [Procs -> Nat] /\ excls \in [Procs -> Nat]
      /\ Counted(lk.sharecount, Held(shares)) /\ Counted(lk.waitcount, Waiting(pc))
      /\ Owned(lk, pc) /\ Granted(lk, excls) /\ Quiet(lk, pc)
      /\ [pc EXCEPT ![p] = pc[p]] = pc /\ [shares EXCEPT ![p] = shares[p]] = shares
      /\ w \in [Procs -> Places]
  BY DEF Ordered, LockInv, Places
<1>2. lk.waitcount - 1 \in Nat /\ Counted(lk.waitcount - 1, Waiting(w))
  BY <1>1, WaitLeave DEF Locks
<1>3. /\ l \in Locks /\ l.sharecount = lk.sharecount /\ l.waitcount = lk.waitcount - 1
      /\ l.exclusivecount = lk.exclusivecount /\ l.lockholder = lk.lockholder
      /\ l.flags = lk.flags
  BY <1>1, <1>2 DEF Locks
<1>4. Undrained(lk)
  BY <1>1 DEF Quiet, OnLock
<1>5. Owned(l, pc) /\ Granted(l, excls) /\ Quiet(l, w) /\ Undrained(l)
  BY <1>1, <1>3, <1>4, SMT DEF Owned, Granted, Quiet, Undrained
<1>6. InMiddle(p, l, shares[p], pc[p])
  BY <1>1, <1>2, <1>3, <1>5 DEF InMiddle, Ordered
<1>7. ASSUME pc[p] \in {"share", "want"} PROVE InMiddle(p, l, shares[p], "idle")
  <2>1. Owned(l, w)
    BY <1>1, <1>5, <1>7 DEF Owned
  <2> QED BY <1>1, <1>2, <1>3, <1>5, <2>1 DEF InMiddle, Ordered
<1>8. InMiddle(p, m, shares[p], "idle")
  <2> HIDE DEF l, own
  <2>1. /\ m \in Locks /\ m.sharecount = l.sharecount /\ m.waitcount = l.waitcount
        /\ m.exclusivecount = l.exclusivecount /\ m.lockholder = l.lockholder
        /\ m.flags = l.flags \ own
    BY <1>3 DEF Locks
  <2>2. /\ "HAVE_EXCL" \notin own
        /\ "WANT_UPGRADE" \in own <=> pc[p] = "upgrade"
        /\ "WANT_EXCL" \in own <=> pc[p] = "excl"
    BY DEF own, OnLock
  <2>3. Owned(m, w)
    BY <1>1, <1>5, <2>1, <2>2, SMT DEF Owned
  <2>4. Granted(m, excls) /\ Quiet(m, w)
    BY <1>5, <2>1, <2>2 DEF Granted, Quiet, Undrained
  <2> QED BY <1>1, <1>2, <1>3, <2>1, <2>3, <2>4 DEF InMiddle, Ordered
<1> HIDE DEF l, own
<1>9. shares[p] \in Nat
  BY <1>1
<1> QED BY <1>5, <1>6, <1>7, <1>8, <1>9 DEF l, own

\* A sleep that fails takes the process and its flag from the lock.
LEMMA FailSleepSound ==
    ASSUME LockInv, NEW p \in Procs, FailSleep(p)
    PROVE  Sound
<1>1. CASE pc[p] = "drain"
  <2>1. /\ lk \in Locks /\ pc \in [Procs -> Places]
        /\ shares \in [Procs -> Nat] /\ excls \in [Procs -> Nat]
        /\ Counted(lk.sharecount, Held(shares)) /\ Counted(lk.waitcount, Waiting(pc))
        /\ Owned(lk, pc) /\ Granted(lk, excls) /\ Quiet(lk, pc)
    BY DEF Ordered, LockInv
  <2>2. /\ pc' = [pc EXCEPT ![p] = "idle"]
        /\ asleep' = [asleep EXCEPT ![p] = FALSE]
        /\ ext' = [ext EXCEPT ![p] = {}]
        /\ UNCHANGED <<lk, shares, excls, panicked>>
    BY <1>1 DEF FailSleep, OnLock
  <2>3. pc' \in [Procs -> Places] /\ Waiting(pc') = Waiting(pc)
    BY <1>1, <2>1, <2>2 DEF Places, Waiting, OnLock
  <2>4. Owned(lk, pc') /\ Quiet(lk, pc')
    BY <1>1, <2>1, <2>2 DEF Owned, Quiet, Undrained
  <2>5. Ordered(lk', pc', pc', shares', excls')
    BY <2>1, <2>2, <2>3, <2>4 DEF Ordered
  <2>6. LockInv'
    BY <2>2, <2>5 DEF LockInv
  <2>7. \A a, q \in Procs : pc[a] = "upgrade" /\ q # a => excls'[q] <= excls[q]
    BY <2>1, <2>2, SMT
  <2> QED BY <2>2, <2>6, <2>7 DEF Sound
<1>2. CASE pc[p] \in OnLock
  <2> DEFINE own == CASE pc[p] = "upgrade" -> {"WANT_UPGRADE"}
                      [] pc[p] = "excl" -> {"WANT_EXCL"}
                      [] OTHER -> {}
             l == [lk EXCEPT !.waitcount = @ - 1, !.flags = @ \ own]
  <2>1. Return(p, l, FALSE, shares[p], excls[p])
    BY <1>2 DEF FailSleep, OnLock
  <2>2. l = [[lk EXCEPT !.waitcount = @ - 1] EXCEPT !.flags = @ \ own]
    <3>1. lk \in Locks
      BY SMTT(30) DEF LockInv, Ordered
    <3> HIDE DEF own
    <3> QED BY <3>1 DEF Locks
  <2>3. InMiddle(p, l, shares[p], "idle") /\ shares[p] \in Nat
    BY <1>2, <2>2, SleeperInMiddle
  <2> HIDE DEF l
  <2> QED BY <2>1, <2>3, LessSound
<1> QED BY <1>1, <1>2 DEF FailSleep

\* A process that has been woken looks at the lock again.
LEMMA ResumeSound ==
    ASSUME LockInv, NEW p \in Procs, Resume(p)
    PROVE  Sound
<1> DEFINE l == [lk EXCEPT !.waitcount = @ - 1]
<1>1. ext[p] \in SUBSET {"NOWAIT", "SLEEPFAIL"}
  BY DEF LockInv
<1>2. CASE FailSleep(p)
  BY <1>2, FailSleepSound
<1>3. CASE pc[p] = "share" /\ AcquireShared(p, l, ext[p])
  <2>1. InMiddle(p, l, shares[p], "idle") /\ Undrained(l)
    BY <1>3, SleeperInMiddle DEF OnLock
  <2> HIDE DEF l
  <2> QED BY <1>1, <1>3, <2>1, AcquireSharedSound
<1>4. CASE pc[p] = "upgrade" /\ AcquireUpgrade(p, l, ext[p], shares[p])
  <2>1. InMiddle(p, l, shares[p], "upgrade") /\ Undrained(l) /\ shares[p] \in Nat
    BY <1>4, SleeperInMiddle DEF OnLock
  <2> HIDE DEF l
  <2> QED BY <1>1, <1>4, <2>1, AcquireUpgradeSound, SMTT(30)
<1>5. CASE pc[p] = "want" /\ AcquireExclusive(p, l, FALSE, ext[p], shares[p])
  <2>1. InMiddle(p, l, shares[p], "idle") /\ Undrained(l) /\ shares[p] \in Nat
    BY <1>5, SleeperInMiddle DEF OnLock
  <2> HIDE DEF l
  <2> QED BY <1>1, <1>5, <2>1, AcquireExclusiveSound
<1>6. CASE pc[p] = "excl" /\ AwaitSharers(p, l, FALSE, ext[p], shares[p])
  <2>1. InMiddle(p, l, shares[p], "excl") /\ Undrained(l) /\ shares[p] \in Nat
    BY <1>6, SleeperInMiddle DEF OnLock
  <2> HIDE DEF l
  <2> QED BY <1>1, <1>6, <2>1, AwaitSharersSound
<1>7. CASE pc[p] = "drain" /\ AcquireDrain(p, lk, ext[p])
  <2>1. Undrained(lk) /\ \A q \in Procs \ {p} : pc[q] # "drain"
    BY <1>7 DEF LockInv, Ordered, Quiet, Owned
  <2>2. pc[p] \notin OnLock
    BY <1>7 DEF OnLock
  <2> QED BY <1>1, <1>7, <2>1, <2>2, AcquireDrainSound
<1> QED BY <1>2, <1>3, <1>4, <1>5, <1>6, <1>7 DEF Resume

-----------------------------------------------------------------------------
(***************************************************************************)
(* The calls of Lockmgr keep the lock in order, and what follows from that.*)
(***************************************************************************)

\* A process that calls lockmgr finds the lock in order.
LEMMA CallInMiddle ==
    ASSUME LockInv, NEW p \in Procs, pc[p] = "idle"
    PROVE  InMiddle(p, lk, shares[p], "idle") /\ shares[p] \in Nat /\ excls[p] \in Nat
<1>1. /\ pc \in [Procs -> Places] /\ shares \in [Procs -> Nat] /\ excls \in [Procs -> Nat]
  BY DEF LockInv, Ordered
<1>2. [pc EXCEPT ![p] = "idle"] = pc /\ [shares EXCEPT ![p] = shares[p]] = shares
  BY <1>1
<1> QED BY <1>1, <1>2 DEF LockInv, InMiddle

\* The lock without one shared lock of p, as LK_UPGRADE leaves it.
LEMMA DropInMiddle ==
    ASSUME LockInv, NEW p \in Procs, pc[p] = "idle", shares[p] > 0
    PROVE  /\ InMiddle(p, [lk EXCEPT !.sharecount = @ - 1], shares[p] - 1, "idle")
           /\ shares[p] - 1 \in Nat /\ lk.exclusivecount = 0
<1> DEFINE l == [lk EXCEPT !.sharecount = @ - 1]
           s == [shares EXCEPT ![p] = shares[p] - 1]
<1>1. /\ lk \in Locks /\ pc \in [Procs -> Places]
      /\ shares \in [Procs -> Nat] /\ excls \in [Procs -> Nat]
      /\ Counted(lk.sharecount, Held(shares)) /\ Counted(lk.waitcount, Waiting(pc))
      /\ Owned(lk, pc) /\ Granted(lk, excls) /\ Quiet(lk, pc)
      /\ [pc EXCEPT ![p] = "idle"] = pc
  BY DEF Ordered, LockInv
<1>2. lk.sharecount - 1 \in Nat /\ Counted(lk.sharecount - 1, Held(s))
  BY <1>1, HeldLess DEF Locks
<1>3. /\ l \in Locks /\ l.sharecount = lk.sharecount - 1 /\ l.waitcount = lk.waitcount
      /\ l.exclusivecount = lk.exclusivecount /\ l.lockholder = lk.lockholder
      /\ l.flags = lk.flags
  BY <1>1, <1>2 DEF Locks
<1>4. lk.sharecount # 0
  BY <1>1, HeldNone, SMT
<1>5. lk.exclusivecount = 0
  BY <1>1, <1>4 DEF Granted
<1>6. Owned(l, pc) /\ Granted(l, excls) /\ Quiet(l, pc)
  BY <1>1, <1>3, <1>4, <1>5 DEF Owned, Granted, Quiet, Undrained
<1>7. s \in [Procs -> Nat] /\ shares[p] - 1 \in Nat
  BY <1>1, SMT
<1>8. Ordered(l, pc, pc, s, excls)
  BY <1>1, <1>2, <1>3, <1>6, <1>7 DEF Ordered
<1> QED BY <1>1, <1>5, <1>7, <1>8 DEF InMiddle

\* case LK_DOWNGRADE turns the k locks of the holder, or k + 1, into shared ones.
LEMMA DowngradeSound ==
    ASSUME LockInv, NEW p \in Procs, pc[p] = "idle", Undrained(lk), NEW k \in {0, 1},
           NEW l \in Locks, l.sharecount = lk.sharecount + k, l.flags = lk.flags,
           l.waitcount = lk.waitcount, l.exclusivecount = lk.exclusivecount,
           l.lockholder = lk.lockholder, NEW s, s = shares[p] + k, Downgrade(p, l, s)
    PROVE  Sound
<1>1. /\ lk \in Locks /\ pc \in [Procs -> Places]
      /\ shares \in [Procs -> Nat] /\ excls \in [Procs -> Nat]
      /\ Counted(lk.sharecount, Held(shares)) /\ Counted(lk.waitcount, Waiting(pc))
      /\ Owned(lk, pc) /\ Granted(lk, excls)
      /\ [pc EXCEPT ![p] = "idle"] = pc
  BY DEF Ordered, LockInv
<1>2. CASE l.lockholder # p \/ l.exclusivecount = 0
  BY <1>2, PanicSound DEF Downgrade
<1>3. CASE ~(l.lockholder # p \/ l.exclusivecount = 0)
  <2> DEFINE m == [l EXCEPT !.flags = @ \ {"HAVE_EXCL"}, !.lockholder = NoProc,
                            !.sharecount = @ + l.exclusivecount, !.exclusivecount = 0]
             n == s + l.exclusivecount
             e == [excls EXCEPT ![p] = 0]
  <2>1. Return(p, m, l.waitcount # 0, n, 0)
    BY <1>3 DEF Downgrade
  <2>2. /\ m \in Locks /\ m.sharecount = l.sharecount + l.exclusivecount
        /\ m.waitcount = l.waitcount /\ m.exclusivecount = 0 /\ m.lockholder = NoProc
        /\ m.flags = l.flags \ {"HAVE_EXCL"} /\ l.exclusivecount \in Nat
    <3>1. l.exclusivecount \in Nat /\ l.sharecount + l.exclusivecount \in Nat
      BY SMT DEF Locks
    <3> DEFINE m1 == [l EXCEPT !.flags = @ \ {"HAVE_EXCL"}, !.lockholder = NoProc]
               m2 == [m1 EXCEPT !.sharecount = @ + l.exclusivecount]
    <3>2. /\ m1 \in Locks /\ m1.flags = l.flags \ {"HAVE_EXCL"} /\ m1.lockholder = NoProc
          /\ m1.sharecount = l.sharecount /\ m1.waitcount = l.waitcount
      BY DEF Locks
    <3>3. m = [m2 EXCEPT !.exclusivecount = 0]
      OBVIOUS
    <3> HIDE DEF m1, m
    <3>4. /\ m2 \in Locks /\ m2.flags = m1.flags /\ m2.lockholder = m1.lockholder
          /\ m2.sharecount = l.sharecount + l.exclusivecount /\ m2.waitcount = m1.waitcount
      BY <3>1, <3>2 DEF Locks
    <3> HIDE DEF m2
    <3> QED BY <3>1, <3>2, <3>3, <3>4 DEF Locks
  <2>3. lk.sharecount = 0 /\ excls[p] = l.exclusivecount
    BY <1>1, <1>3 DEF Granted
  <2>4. \A q \in Procs : shares[q] = 0
    BY <1>1, <2>3, HeldNone
  <2>5. n \in Nat /\ n = m.sharecount
    BY <1>1, <2>2, <2>3, <2>4, SMT
  <2>6. Counted(m.sharecount, Held([shares EXCEPT ![p] = n]))
    <3>1. Counted(n, Held([shares EXCEPT ![p] = n]))
      <4> HIDE DEF n
      <4> QED BY <1>1, <2>4, <2>5, HeldAll
    <3> QED BY <2>5, <3>1
  <2>7. \A q \in Procs : e[q] = 0
    BY <1>1, <1>3 DEF Granted
  <2>8. Granted(m, e)
    BY <2>2, <2>7, ProcsAssumption DEF Granted
  <2>9. Owned(m, pc) /\ Quiet(m, pc)
    BY <1>1, <2>2 DEF Owned, Quiet, Undrained
  <2>10. e \in [Procs -> Nat] /\ [shares EXCEPT ![p] = n] \in [Procs -> Nat]
    BY <1>1, <2>5
  <2>11. Ordered(m, pc, pc, [shares EXCEPT ![p] = n], e)
    BY <1>1, <2>2, <2>6, <2>8, <2>9, <2>10 DEF Ordered
  <2>12. Allowed(p, n, 0)
    BY <1>1, <1>3, <2>2, <2>3, <2>4, SMT DEF Allowed
  <2> HIDE DEF m, n
  <2> QED BY <1>1, <2>1, <2>5, <2>11, <2>12, ReturnSound
<1> QED BY <1>2, <1>3

\* The options of a call, and what else a caller finds.
LEMMA CallFacts ==
    ASSUME NEW p \in Procs, NEW type, MayCall(p, type)
    PROVE  /\ pc[p] = "idle" /\ Undrained(lk)
           /\ \A opts \in Options : opts \in SUBSET {"NOWAIT", "SLEEPFAIL"}
BY RequestsAssumption DEF MayCall, Undrained

\* case LK_SHARED
LEMMA LockSharedSound ==
    ASSUME LockInv, NEW p \in Procs, NEW opts \in Options, LockShared(p, opts)
    PROVE  Sound
<1>1. /\ pc[p] = "idle" /\ Undrained(lk) /\ opts \in SUBSET {"NOWAIT", "SLEEPFAIL"}
  BY CallFacts DEF LockShared
<1>2. InMiddle(p, lk, shares[p], "idle") /\ shares[p] \in Nat
  BY <1>1, CallInMiddle
<1>3. CASE Return(p, lk, FALSE, shares[p], excls[p])
  BY <1>2, <1>3, LessSound
<1>4. CASE AcquireShared(p, lk, opts)
  BY <1>1, <1>2, <1>4, AcquireSharedSound
<1>5. CASE Downgrade(p, [lk EXCEPT !.sharecount = @ + 1], shares[p] + 1)
  <2> DEFINE l == [lk EXCEPT !.sharecount = @ + 1]
             s == shares[p] + 1
  <2>1. lk \in Locks
    BY DEF LockInv, Ordered
  <2>2. /\ l \in Locks /\ l.sharecount = lk.sharecount + 1 /\ l.flags = lk.flags
        /\ l.waitcount = lk.waitcount /\ l.exclusivecount = lk.exclusivecount
        /\ l.lockholder = lk.lockholder
    BY <2>1, SMT DEF Locks
  <2>3. Downgrade(p, l, s) /\ s = shares[p] + 1
    BY <1>5
  <2> HIDE DEF l, s
  <2> QED BY <1>1, <2>2, <2>3, DowngradeSound
<1> QED BY <1>3, <1>4, <1>5 DEF LockShared

\* case LK_DOWNGRADE
LEMMA LockDowngradeSound ==
    ASSUME LockInv, NEW p \in Procs, LockDowngrade(p)
    PROVE  Sound
<1>1. pc[p] = "idle" /\ Undrained(lk) /\ Downgrade(p, lk, shares[p])
  BY CallFacts DEF LockDowngrade
<1>2. /\ lk \in Locks /\ lk.sharecount = lk.sharecount + 0 /\ shares[p] = shares[p] + 0
  BY SMT DEF LockInv, Ordered, Locks
<1> QED BY <1>1, <1>2, DowngradeSound

\* case LK_EXCLUSIVE
LEMMA LockExclusiveSound ==
    ASSUME LockInv, NEW p \in Procs, NEW opts \in Options, LockExclusive(p, opts)
    PROVE  Sound
<1>1. /\ pc[p] = "idle" /\ Undrained(lk) /\ opts \in SUBSET {"NOWAIT", "SLEEPFAIL"}
  BY CallFacts DEF LockExclusive
<1>2. InMiddle(p, lk, shares[p], "idle") /\ shares[p] \in Nat
  BY <1>1, CallInMiddle
<1> QED BY <1>1, <1>2, ExclusiveSound DEF LockExclusive

\* case LK_UPGRADE, which gives up the shared lock before it does anything else.
LEMMA UpgradeSound ==
    ASSUME LockInv, NEW p \in Procs, NEW opts \in SUBSET {"NOWAIT", "SLEEPFAIL"},
           pc[p] = "idle", Undrained(lk), shares[p] = 1, Upgrade(p, opts)
    PROVE  Sound
<1> DEFINE l == [lk EXCEPT !.sharecount = @ - 1]
           s == shares[p] - 1
<1>1. InMiddle(p, l, s, "idle") /\ s = 0 /\ lk.exclusivecount = 0
  BY DropInMiddle, SMT
<1>2. /\ l \in Locks /\ l.flags = lk.flags /\ l.lockholder = lk.lockholder
      /\ l.exclusivecount = lk.exclusivecount
  <2>1. lk \in Locks /\ l \in Locks
    BY <1>1 DEF LockInv, InMiddle, Ordered
  <2> QED BY <2>1 DEF Locks
<1>3. Undrained(l)
  BY <1>2 DEF Undrained
<1>4. CASE Panic
  BY <1>4, PanicSound
<1>5. CASE Return(p, l, FALSE, s, excls[p])
  <2>1. s \in Nat /\ shares[p] > 0 /\ s = shares[p] - 1
    BY <1>1, SMT
  <2> HIDE DEF l, s
  <2> QED BY <1>1, <1>5, <2>1, LessSound
<1>6. CASE /\ "WANT_UPGRADE" \notin l.flags
           /\ AcquireUpgrade(p, [l EXCEPT !.flags = @ \cup {"WANT_UPGRADE"}], opts, s)
  <2> DEFINE m == [l EXCEPT !.flags = @ \cup {"WANT_UPGRADE"}]
             c == [pc EXCEPT ![p] = "idle"]
             d == [pc EXCEPT ![p] = "upgrade"]
             t == [shares EXCEPT ![p] = s]
  <2>1. /\ c \in [Procs -> Places] /\ pc \in [Procs -> Places]
        /\ t \in [Procs -> Nat] /\ excls \in [Procs -> Nat]
        /\ Counted(l.sharecount, Held(t)) /\ Counted(l.waitcount, Waiting(c))
        /\ Owned(l, c) /\ Granted(l, excls)
    BY <1>1 DEF InMiddle, Ordered, LockInv
  <2> HIDE DEF l, s
  <2>2. /\ m \in Locks /\ m.sharecount = l.sharecount /\ m.waitcount = l.waitcount
        /\ m.exclusivecount = l.exclusivecount /\ m.lockholder = l.lockholder
        /\ m.flags = l.flags \cup {"WANT_UPGRADE"}
    BY <1>2 DEF Locks, Flags, Busy
  <2>3. Owned(m, d)
    BY <1>6, <2>1, <2>2, SMT DEF Owned
  <2>4. Granted(m, excls)
    BY <1>1, <1>2, <2>1, <2>2 DEF Granted
  <2>5. Quiet(m, c) /\ Undrained(m)
    BY <1>3, <2>2 DEF Quiet, Undrained
  <2>6. d \in [Procs -> Places]
    BY <2>1 DEF Places, OnLock
  <2>7. InMiddle(p, m, s, "upgrade")
    BY <2>1, <2>2, <2>3, <2>4, <2>5, <2>6 DEF InMiddle, Ordered
  <2>8. AcquireUpgrade(p, m, opts, s)
    BY <1>6
  <2> HIDE DEF m
  <2> QED BY <1>1, <2>5, <2>7, <2>8, AcquireUpgradeSound, SMT
<1>7. CASE lk.lockholder # p /\ Exclusive(p, l, l.sharecount = 0 /\ l.waitcount # 0, opts, s)
  <2> DEFINE wake == l.sharecount = 0 /\ l.waitcount # 0
  <2>1. Exclusive(p, l, wake, opts, s) /\ l.lockholder # p
    BY <1>2, <1>7
  <2> HIDE DEF l, s, wake
  <2> QED BY <1>1, <1>3, <2>1, ExclusiveSound, SMT
<1> QED BY <1>4, <1>5, <1>6, <1>7 DEF Upgrade

\* LK_UPGRADE and LK_EXCLUPGRADE
LEMMA LockUpgradeSound ==
    ASSUME LockInv, NEW p \in Procs, NEW opts \in Options,
           LockUpgrade(p, opts) \/ LockExclUpgrade(p, opts)
    PROVE  Sound
<1>1. /\ pc[p] = "idle" /\ Undrained(lk) /\ opts \in SUBSET {"NOWAIT", "SLEEPFAIL"}
      /\ shares[p] = 1
  BY CallFacts DEF LockUpgrade, LockExclUpgrade
<1>2. CASE Upgrade(p, opts)
  BY <1>1, <1>2, UpgradeSound
<1>3. CASE Return(p, [lk EXCEPT !.sharecount = @ - 1], FALSE, 0, excls[p])
  <2>1. InMiddle(p, [lk EXCEPT !.sharecount = @ - 1], 0, "idle")
    BY <1>1, DropInMiddle, SMT
  <2>2. shares[p] > 0 /\ 0 = shares[p] - 1
    BY <1>1, SMT
  <2> DEFINE l == [lk EXCEPT !.sharecount = @ - 1]
  <2> HIDE DEF l
  <2> QED BY <1>3, <2>1, <2>2, LessSound DEF l
<1> QED BY <1>2, <1>3 DEF LockUpgrade, LockExclUpgrade

\* case LK_DRAIN
LEMMA LockDrainSound ==
    ASSUME LockInv, NEW p \in Procs, NEW opts \in Options, LockDrain(p, opts)
    PROVE  Sound
<1>1. /\ pc[p] = "idle" /\ Undrained(lk) /\ opts \in SUBSET {"NOWAIT", "SLEEPFAIL"}
      /\ \A q \in Procs : pc[q] # "drain"
  BY CallFacts DEF LockDrain
<1>2. CASE Panic
  BY <1>2, PanicSound
<1>3. CASE Return(p, lk, FALSE, shares[p], excls[p])
  BY <1>1, <1>3, CallInMiddle, LessSound
<1>4. CASE AcquireDrain(p, lk, opts)
  BY <1>1, <1>4, AcquireDrainSound DEF OnLock
<1> QED BY <1>2, <1>3, <1>4 DEF LockDrain

\* case LK_RELEASE, also of a drained lock.
LEMMA LockReleaseSound ==
    ASSUME LockInv, NEW p \in Procs, NEW reenable \in BOOLEAN, LockRelease(p, reenable)
    PROVE  Sound
<1> DEFINE l == Decommissioned(reenable)
<1>1. /\ lk \in Locks /\ pc \in [Procs -> Places]
      /\ shares \in [Procs -> Nat] /\ excls \in [Procs -> Nat]
      /\ Counted(lk.sharecount, Held(shares)) /\ Counted(lk.waitcount, Waiting(pc))
      /\ Owned(lk, pc) /\ Granted(lk, excls) /\ Quiet(lk, pc)
      /\ pc[p] = "idle" /\ [pc EXCEPT ![p] = "idle"] = pc
      /\ shares[p] + excls[p] > 0
  BY DEF Ordered, LockInv, LockRelease
<1>2. /\ l \in Locks /\ l.sharecount = lk.sharecount /\ l.waitcount = lk.waitcount
      /\ l.exclusivecount = lk.exclusivecount /\ l.lockholder = lk.lockholder
      /\ "WANT_UPGRADE" \in l.flags <=> "WANT_UPGRADE" \in lk.flags
      /\ "WANT_EXCL" \in l.flags <=> "WANT_EXCL" \in lk.flags
      /\ "HAVE_EXCL" \in l.flags <=> "HAVE_EXCL" \in lk.flags
      /\ "DRAINING" \notin l.flags
      /\ "DRAINED" \in l.flags => ~Undrained(lk)
      /\ "DRAINING" \notin lk.flags => l = lk
  BY <1>1 DEF Decommissioned, Locks, Flags, Busy, Undrained
<1>3. CASE Panic
  BY <1>3, PanicSound
<1>4. CASE /\ l.exclusivecount # 0 /\ p = l.lockholder
           /\ Return(p, [l EXCEPT !.exclusivecount = @ - 1,
                                  !.flags = IF l.exclusivecount = 1 THEN @ \ {"HAVE_EXCL"} ELSE @,
                                  !.lockholder = IF l.exclusivecount = 1 THEN NoProc ELSE @],
                     l.waitcount # 0, shares[p], excls[p] - 1)
  <2> HIDE DEF l
  <2> DEFINE m == [l EXCEPT !.exclusivecount = @ - 1,
                            !.flags = IF l.exclusivecount = 1 THEN @ \ {"HAVE_EXCL"} ELSE @,
                            !.lockholder = IF l.exclusivecount = 1 THEN NoProc ELSE @]
             e == [excls EXCEPT ![p] = excls[p] - 1]
  <2>1. /\ m \in Locks /\ m.sharecount = l.sharecount /\ m.waitcount = l.waitcount
        /\ m.exclusivecount = l.exclusivecount - 1
        /\ m.lockholder = IF l.exclusivecount = 1 THEN NoProc ELSE l.lockholder
        /\ m.flags = IF l.exclusivecount = 1 THEN l.flags \ {"HAVE_EXCL"} ELSE l.flags
        /\ l.exclusivecount \in Nat
    <3>1. l.exclusivecount \in Nat /\ l.exclusivecount - 1 \in Nat
      BY <1>2, <1>4, SMT DEF Locks
    <3> DEFINE m1 == [l EXCEPT !.exclusivecount = @ - 1]
               m2 == [m1 EXCEPT !.flags = IF l.exclusivecount = 1 THEN @ \ {"HAVE_EXCL"} ELSE @]
    <3>2. /\ m1 \in Locks /\ m1.flags = l.flags /\ m1.lockholder = l.lockholder
          /\ m1.sharecount = l.sharecount /\ m1.waitcount = l.waitcount
          /\ m1.exclusivecount = l.exclusivecount - 1
      BY <1>2, <3>1 DEF Locks
    <3>3. m = [m2 EXCEPT !.lockholder = IF l.exclusivecount = 1 THEN NoProc ELSE @]
      OBVIOUS
    <3> HIDE DEF m1, m
    <3>4. /\ m2 \in Locks /\ m2.lockholder = l.lockholder
          /\ m2.sharecount = l.sharecount /\ m2.waitcount = l.waitcount
          /\ m2.exclusivecount = l.exclusivecount - 1
          /\ m2.flags = IF l.exclusivecount = 1 THEN l.flags \ {"HAVE_EXCL"} ELSE l.flags
      BY <3>2 DEF Locks
    <3> HIDE DEF m2
    <3> QED BY <3>1, <3>3, <3>4 DEF Locks
  <2>2. excls[p] = l.exclusivecount /\ excls[p] - 1 \in Nat /\ e \in [Procs -> Nat]
    BY <1>1, <1>2, <1>4, <2>1, SMT DEF Granted
  <2>3. Owned(m, pc)
    BY <1>1, <1>2, <2>1, SMT DEF Owned
  <2>4. Granted(m, e)
    BY <1>1, <1>2, <1>4, <2>1, <2>2, ProcsAssumption, SMT DEF Granted
  <2>5. Quiet(m, pc)
    BY <1>1, <1>2, <1>4, <2>1, SMT DEF Quiet, Undrained
  <2>6. [shares EXCEPT ![p] = shares[p]] = shares /\ shares[p] \in Nat
    BY <1>1
  <2>7. Ordered(m, pc, pc, shares, e)
    BY <1>1, <1>2, <2>1, <2>2, <2>3, <2>4, <2>5 DEF Ordered
  <2>8. Allowed(p, shares[p], excls[p] - 1)
    BY <1>4, <2>1, <2>2, SMT DEF Allowed
  <2>9. Return(p, m, l.waitcount # 0, shares[p], excls[p] - 1)
    BY <1>4
  <2> HIDE DEF m
  <2> QED BY <1>1, <2>2, <2>6, <2>7, <2>8, <2>9, ReturnSound
<1>5. CASE /\ l.exclusivecount = 0 /\ l.sharecount # 0
           /\ Return(p, [l EXCEPT !.sharecount = @ - 1], l.waitcount # 0,
                     shares[p] - 1, excls[p])
  <2>1. excls[p] = 0 /\ shares[p] > 0
    BY <1>1, <1>2, <1>5, SMT DEF Granted
  <2>2. "DRAINING" \notin lk.flags
    BY <1>1, <1>2, <1>5 DEF Quiet, Undrained
  <2>3. Return(p, [lk EXCEPT !.sharecount = @ - 1], lk.waitcount # 0, shares[p] - 1, excls[p])
    BY <1>2, <1>5, <2>2
  <2>4. InMiddle(p, [lk EXCEPT !.sharecount = @ - 1], shares[p] - 1, "idle") /\ shares[p] - 1 \in Nat
    BY <1>1, <2>1, DropInMiddle
  <2> QED BY <2>1, <2>3, <2>4, LessSound
<1> QED BY <1>3, <1>4, <1>5 DEF LockRelease

\* lockinit of a decommissioned lock.
LEMMA lockinitSound ==
    ASSUME LockInv, lockinit
    PROVE  Sound
<1>1. /\ lk \in Locks /\ pc \in [Procs -> Places]
      /\ shares \in [Procs -> Nat] /\ excls \in [Procs -> Nat]
      /\ Counted(lk.sharecount, Held(shares)) /\ Counted(lk.waitcount, Waiting(pc))
      /\ Granted(lk, excls) /\ Quiet(lk, pc) /\ "DRAINED" \in lk.flags
  BY DEF Ordered, LockInv, lockinit
<1>2. lk' = Fresh /\ UNCHANGED <<pc, asleep, ext, shares, excls, panicked>>
  BY DEF lockinit
<1>3. lk.sharecount = 0 /\ \A q \in Procs : pc[q] = "idle"
  BY <1>1 DEF Quiet, Undrained
<1>4. Waiting(pc) = {}
  BY <1>3 DEF Waiting, OnLock
<1>5. lk.exclusivecount = 0
  BY <1>1 DEF Quiet, Undrained
<1>6. \A q \in Procs : excls[q] = 0
  BY <1>1, <1>5 DEF Granted
<1>7. Fresh \in Locks /\ Owned(Fresh, pc) /\ Granted(Fresh, excls) /\ Quiet(Fresh, pc)
  BY <1>3, <1>6, ProcsAssumption DEF Fresh, Locks, Owned, Granted, Quiet, Undrained
<1>8. Counted(Fresh.waitcount, Waiting(pc))
  BY <1>4, FS_EmptySet DEF Fresh, Counted
<1>9. Counted(Fresh.sharecount, Held(shares))
  BY <1>1, <1>3 DEF Fresh
<1>10. Ordered(lk', pc', pc', shares', excls')
  BY <1>1, <1>2, <1>7, <1>8, <1>9 DEF Ordered
<1>11. LockInv'
  BY <1>2, <1>10 DEF LockInv
<1>12. \A a, q \in Procs : pc[a] = "upgrade" /\ q # a => excls'[q] <= excls[q]
  BY <1>1, <1>2, SMT
<1> QED BY <1>2, <1>11, <1>12 DEF Sound

-----------------------------------------------------------------------------
(***************************************************************************)
(* The theorems.                                                           *)
(***************************************************************************)

\* The lock is in order as lockinit leaves it.
LEMMA LockInit == Init => LockInv
<1> SUFFICES ASSUME Init PROVE LockInv
  OBVIOUS
<1>1. /\ lk = Fresh /\ \A q \in Procs : pc[q] = "idle" /\ shares[q] = 0 /\ excls[q] = 0
      /\ pc \in [Procs -> Places] /\ shares \in [Procs -> Nat] /\ excls \in [Procs -> Nat]
  BY DEF Init, Places
<1>2. Held(shares) = {} /\ Waiting(pc) = {}
  BY <1>1, SMT DEF Held, Waiting, OnLock
<1>3. Counted(lk.sharecount, Held(shares)) /\ Counted(lk.waitcount, Waiting(pc))
  BY <1>1, <1>2, FS_EmptySet DEF Counted, Fresh
<1>4. lk \in Locks /\ Owned(lk, pc) /\ Granted(lk, excls) /\ Quiet(lk, pc)
  BY <1>1, ProcsAssumption DEF Fresh, Locks, Owned, Granted, Quiet, Undrained
<1>5. Ordered(lk, pc, pc, shares, excls)
  BY <1>1, <1>3, <1>4 DEF Ordered
<1> QED BY <1>5 DEF LockInv, Init

\* Every call of lockmgr and every return from tsleep inside one keeps it in order.
LEMMA StepSound ==
    ASSUME LockInv, [Next]_vars
    PROVE  Sound
<1>1. CASE UNCHANGED vars
  <2>1. LockInv'
    BY <1>1 DEF vars, LockInv
  <2>2. \A a, q \in Procs : pc[a] = "upgrade" /\ q # a => excls'[q] <= excls[q]
    BY <1>1, SMT DEF vars, LockInv, Ordered
  <2> QED BY <1>1, <2>1, <2>2 DEF vars, Sound
<1>2. ASSUME NEW p \in Procs, NEW opts \in Options,
             \/ LockShared(p, opts) \/ LockExclusive(p, opts) \/ LockUpgrade(p, opts)
             \/ LockExclUpgrade(p, opts) \/ LockDrain(p, opts)
      PROVE  Sound
  BY <1>2, LockSharedSound, LockExclusiveSound, LockUpgradeSound, LockDrainSound
<1>3. ASSUME NEW p \in Procs, LockDowngrade(p)
      PROVE  Sound
  BY <1>3, LockDowngradeSound
<1>4. ASSUME NEW p \in Procs, Release(p)
      PROVE  Sound
  BY <1>4, LockReleaseSound DEF Release
<1>5. ASSUME NEW p \in Procs, Resume(p)
      PROVE  Sound
  BY <1>5, ResumeSound
<1>6. ASSUME NEW p \in Procs, Interrupted(p)
      PROVE  Sound
  BY <1>6, FailSleepSound DEF Interrupted
<1>7. CASE lockinit
  BY <1>7, lockinitSound
<1> QED BY <1>1, <1>2, <1>3, <1>4, <1>5, <1>6, <1>7 DEF Next

\* Whatever is called, lockmgr leaves the lock in order, with one owner for each flag.
THEOREM LockInvariant == Spec => []LockInv
<1>1. LockInv /\ [Next]_vars => LockInv'
  BY StepSound DEF Sound
<1> QED BY LockInit, <1>1, PTL DEF Spec

\* lk_sharecount, lk_exclusivecount, lk_waitcount and the internal flags agree with what
\* the callers of lockmgr were granted and where they sleep.
THEOREM BooksAlwaysMatch == Spec => []BooksMatch
<1>1. LockInv => BooksMatch
  <2> SUFFICES ASSUME LockInv PROVE BooksMatch
    OBVIOUS
  <2>1. /\ lk \in Locks /\ pc \in [Procs -> Places]
        /\ shares \in [Procs -> Nat] /\ excls \in [Procs -> Nat]
        /\ Counted(lk.sharecount, Held(shares)) /\ Counted(lk.waitcount, Waiting(pc))
        /\ Owned(lk, pc) /\ Granted(lk, excls)
    BY DEF Ordered, LockInv
  <2>2. TypeOK
    BY <2>1 DEF TypeOK, Locks, Places, LockInv
  <2>3. SharedLocks = Held(shares)
    <3>1. lk.sharecount \in Nat /\ \A q \in Procs : shares[q] \in Nat /\ shares[q] <= lk.sharecount
      BY <2>1, HeldBound DEF Locks
    <3> QED BY <3>1, SMT DEF SharedLocks, Held
  <2>4. lk.waitcount = Cardinality({p \in Procs : pc[p] \in OnLock})
    BY <2>1 DEF Counted, Waiting
  <2>5. "HAVE_EXCL" \in lk.flags <=> \E p \in Procs : excls[p] > 0
    BY <2>1, SMT DEF Granted, Locks
  <2> QED BY <2>1, <2>2, <2>3, <2>4, <2>5 DEF BooksMatch, Counted, Owned, Granted
<1> QED BY LockInvariant, <1>1, PTL

\* Whoever was granted an exclusive lock shares the resource with nobody.
THEOREM ExclusionAlways == Spec => []Exclusion
<1>1. LockInv => Exclusion
  <2> SUFFICES ASSUME LockInv PROVE Exclusion
    OBVIOUS
  <2>1. /\ shares \in [Procs -> Nat] /\ excls \in [Procs -> Nat]
        /\ Counted(lk.sharecount, Held(shares)) /\ Granted(lk, excls)
    BY DEF Ordered, LockInv
  <2>2. ASSUME NEW p \in Procs, NEW q \in Procs, excls[p] > 0
        PROVE  shares[q] = 0 /\ (q # p => excls[q] = 0)
    <3>1. lk.lockholder = p /\ lk.sharecount = 0
      BY <2>1, <2>2, SMT DEF Granted
    <3>2. shares[q] = 0
      BY <2>1, <3>1, HeldNone
    <3> QED BY <2>1, <3>1, <3>2 DEF Granted
  <2> QED BY <2>2 DEF Exclusion
<1> QED BY LockInvariant, <1>1, PTL

\* When LK_DRAIN has been granted nobody else holds the lock or is inside lockmgr for it.
THEOREM DrainedIsAlwaysQuiet == Spec => []DrainedIsQuiet
<1>1. LockInv => DrainedIsQuiet
  <2> SUFFICES ASSUME LockInv, lk.flags \cap {"DRAINING", "DRAINED"} # {}
               PROVE  /\ \A p \in Procs : pc[p] \notin OnLock /\ shares[p] = 0
                      /\ Cardinality({p \in Procs : excls[p] > 0}) <= 1
    BY DEF DrainedIsQuiet
  <2>1. /\ shares \in [Procs -> Nat] /\ Counted(lk.sharecount, Held(shares))
        /\ Granted(lk, excls) /\ Quiet(lk, pc) /\ ~Undrained(lk)
    BY DEF Ordered, LockInv, Undrained
  <2>2. \A p \in Procs : pc[p] \notin OnLock /\ shares[p] = 0
    BY <2>1, HeldNone DEF Quiet, OnLock
  <2>3. {p \in Procs : excls[p] > 0} \in SUBSET {lk.lockholder}
    BY <2>1, SMT DEF Granted
  <2>4. Cardinality({p \in Procs : excls[p] > 0}) <= Cardinality({lk.lockholder})
    BY <2>3, FS_Singleton, FS_Subset
  <2> QED BY <2>2, <2>4, FS_Singleton
<1> QED BY LockInvariant, <1>1, PTL

\* While one process waits to be upgraded no other one is granted an exclusive lock.
THEOREM UpgradeAlwaysExcludes == Spec => UpgradeExcludesWriters
<1>1. LockInv /\ [Next]_vars =>
        [\A p, q \in Procs : pc[p] = "upgrade" /\ q # p => excls'[q] <= excls[q]]_vars
  BY StepSound DEF Sound
<1> QED BY LockInvariant, <1>1, PTL DEF Spec, UpgradeExcludesWriters

\* lockmgr implements the abstract lock of readers and writers.
THEOREM ImplementsTheLock == Spec => ImplementsReadWriteLock
<1>1. Init => RW!Init
  BY DEF Init, RW!Init
<1>2. LockInv /\ [Next]_vars => [RW!Next]_<<shares, excls>>
  BY StepSound DEF Sound
<1> QED BY LockInvariant, <1>1, <1>2, PTL DEF Spec, ImplementsReadWriteLock, RW!Spec

-----------------------------------------------------------------------------
(***************************************************************************)
(* Without upgrades lockmgr does not panic.                                *)
(***************************************************************************)

NoUpgrades == Requests \cap {"UPGRADE", "EXCLUPGRADE"} = {}

\* Nobody is granted the lock while a process waits with LK_WANT_EXCL set.
PlainInv ==
    /\ \A p \in Procs : pc[p] # "upgrade"
    /\ \A p \in Procs : pc[p] = "excl" => lk.exclusivecount = 0
    /\ ~panicked

\* A process stops at a place of ACQUIRE, or returns.
LEMMA StopsPlain ==
    ASSUME LockInv, PlainInv, NEW p \in Procs, NEW at \in Places, at # "upgrade",
           pc' = [pc EXCEPT ![p] = at], UNCHANGED panicked,
           at = "excl" \/ (\E q \in Procs \ {p} : pc[q] = "excl") => lk'.exclusivecount = 0
    PROVE  PlainInv'
<1>1. pc \in [Procs -> Places]
  BY DEF LockInv, Ordered
<1>2. \A q \in Procs : pc'[q] = IF q = p THEN at ELSE pc[q]
  BY <1>1
<1> QED BY <1>2 DEF PlainInv

\* lockmgr returns.
LEMMA ReturnPlain ==
    ASSUME LockInv, PlainInv, NEW p \in Procs, NEW l \in Locks, NEW wake, NEW s, NEW e,
           Return(p, l, wake, s, e),
           (\E q \in Procs \ {p} : pc[q] = "excl") => l.exclusivecount = 0
    PROVE  PlainInv'
<1>1. lk'.exclusivecount = l.exclusivecount
  BY DEF Return, Locks
<1>2. pc' = [pc EXCEPT ![p] = "idle"] /\ UNCHANGED panicked
  BY DEF Return
<1> QED BY <1>1, <1>2, StopsPlain DEF Places

\* tsleep on the lock.
LEMMA SleepPlain ==
    ASSUME LockInv, PlainInv, NEW p \in Procs, NEW l \in Locks, NEW wake, NEW at \in OnLock,
           NEW opts, NEW s, Sleep(p, l, wake, at, opts, s), at # "upgrade",
           at = "excl" \/ (\E q \in Procs \ {p} : pc[q] = "excl") => l.exclusivecount = 0
    PROVE  PlainInv'
<1>1. lk'.exclusivecount = l.exclusivecount
  BY DEF Sleep, Locks
<1>2. pc' = [pc EXCEPT ![p] = at] /\ UNCHANGED panicked
  BY DEF Sleep
<1> QED BY <1>1, <1>2, StopsPlain DEF Places

\* The lock with p taken out of lk_waitcount, or as p finds it in its call.
SameLock(l) ==
    l \in Locks /\ l.flags = lk.flags /\ l.exclusivecount = lk.exclusivecount
    /\ l.sharecount = lk.sharecount /\ l.lockholder = lk.lockholder

\* A shared lock is granted, or waited for.
LEMMA AcquireSharedPlain ==
    ASSUME LockInv, PlainInv, NEW p \in Procs, NEW l, SameLock(l), NEW opts,
           AcquireShared(p, l, opts)
    PROVE  PlainInv'
<1>1. l \in Locks /\ [l EXCEPT !.sharecount = @ + 1] \in Locks
      /\ [l EXCEPT !.sharecount = @ + 1].exclusivecount = l.exclusivecount
      /\ "share" \in OnLock /\ "share" # "upgrade" /\ "share" # "excl"
  BY SMT DEF SameLock, Locks, OnLock
<1>2. (\E q \in Procs \ {p} : pc[q] = "excl") => l.exclusivecount = 0
  BY DEF PlainInv, SameLock
<1> QED BY <1>1, <1>2, SleepPlain, ReturnPlain DEF AcquireShared

\* The second ACQUIRE of LK_EXCLUSIVE: nobody has been granted the lock since the first.
LEMMA AwaitSharersPlain ==
    ASSUME LockInv, PlainInv, NEW p \in Procs, NEW l \in Locks, NEW wake, NEW opts, NEW s,
           l.exclusivecount = 0, \A q \in Procs \ {p} : pc[q] # "excl",
           AwaitSharers(p, l, wake, opts, s)
    PROVE  PlainInv'
<1>1. "excl" \in OnLock /\ "excl" # "upgrade"
  BY DEF OnLock
<1>2. CASE Wanted(l, "excl")
  BY <1>1, <1>2, SleepPlain DEF AwaitSharers
<1>3. CASE ~Wanted(l, "excl")
  <2> DEFINE m == [l EXCEPT !.flags = (@ \ {"WANT_EXCL"}) \cup {"HAVE_EXCL"},
                            !.lockholder = p, !.exclusivecount = 1]
  <2>1. m \in Locks
    BY DEF Locks, Flags, Busy
  <2>2. Return(p, m, wake, s, 1)
    BY <1>3 DEF AwaitSharers, GrantExclusive
  <2> HIDE DEF m
  <2> QED BY <2>1, <2>2, ReturnPlain
<1> QED BY <1>2, <1>3

\* LK_EXCLUSIVE from its first ACQUIRE on.
LEMMA AcquireExclusivePlain ==
    ASSUME LockInv, PlainInv, NEW p \in Procs, NEW l, SameLock(l), NEW opts, NEW s, NEW wake,
           AcquireExclusive(p, l, wake, opts, s)
    PROVE  PlainInv'
<1>1. /\ l \in Locks /\ "want" \in OnLock /\ "want" # "upgrade" /\ "want" # "excl"
      /\ (\E q \in Procs \ {p} : pc[q] = "excl") => l.exclusivecount = 0
  BY DEF SameLock, OnLock, PlainInv
<1>2. CASE Wanted(l, "want")
  BY <1>1, <1>2, SleepPlain DEF AcquireExclusive
<1>3. CASE ~Wanted(l, "want")
  <2> DEFINE m == [l EXCEPT !.flags = @ \cup {"WANT_EXCL"}]
  <2>1. m \in Locks /\ m.exclusivecount = l.exclusivecount
    BY <1>1 DEF Locks, Flags, Busy
  <2>2. "HAVE_EXCL" \notin lk.flags /\ "WANT_EXCL" \notin lk.flags
    BY <1>3 DEF Wanted, SameLock
  <2>3. l.exclusivecount = 0 /\ \A q \in Procs : pc[q] # "excl"
    BY <2>2 DEF LockInv, Ordered, Granted, Owned, SameLock
  <2>4. AwaitSharers(p, m, wake, opts, s)
    BY <1>3 DEF AcquireExclusive
  <2> HIDE DEF m
  <2> QED BY <2>1, <2>3, <2>4, AwaitSharersPlain
<1> QED BY <1>2, <1>3

\* LK_DRAIN is granted only when nobody is inside lockmgr.
LEMMA AcquireDrainPlain ==
    ASSUME LockInv, PlainInv, NEW p \in Procs, NEW opts, AcquireDrain(p, lk, opts)
    PROVE  PlainInv'
<1>1. lk \in Locks
  BY DEF LockInv, Ordered
<1>2. CASE InUse(lk)
  <2>1. /\ pc' = [pc EXCEPT ![p] = "drain"] /\ UNCHANGED panicked
        /\ lk'.exclusivecount = lk.exclusivecount
    BY <1>1, <1>2 DEF AcquireDrain, Locks
  <2>2. (\E q \in Procs \ {p} : pc[q] = "excl") => lk.exclusivecount = 0
    BY DEF PlainInv
  <2> QED BY <2>1, <2>2, StopsPlain DEF Places
<1>3. CASE ~InUse(lk)
  <2> DEFINE m == [lk EXCEPT !.flags = @ \cup {"DRAINING", "HAVE_EXCL"},
                             !.lockholder = p, !.exclusivecount = 1]
  <2>1. m \in Locks /\ Return(p, m, FALSE, shares[p], 1)
    BY <1>1, <1>3 DEF AcquireDrain, Locks, Flags, Busy
  <2>2. \A q \in Procs : pc[q] # "excl"
    BY <1>3 DEF InUse, Busy, LockInv, Ordered, Owned
  <2> HIDE DEF m
  <2> QED BY <2>1, <2>2, ReturnPlain
<1> QED BY <1>2, <1>3

\* Where the process that holds the lock exclusively stands.
LEMMA HolderFacts ==
    ASSUME LockInv, NEW p \in Procs
    PROVE  /\ lk \in Locks /\ shares[p] \in Nat /\ excls[p] \in Nat
           /\ lk.lockholder = p <=> excls[p] > 0
           /\ lk.lockholder = p => lk.exclusivecount = excls[p]
           /\ lk.exclusivecount # 0 /\ shares[p] + excls[p] > 0 => lk.lockholder = p
<1>1. /\ lk \in Locks /\ shares \in [Procs -> Nat] /\ excls \in [Procs -> Nat]
      /\ Counted(lk.sharecount, Held(shares)) /\ Granted(lk, excls)
  BY DEF LockInv, Ordered
<1>2. lk.lockholder = p <=> excls[p] > 0
  BY <1>1, ProcsAssumption, SMT DEF Granted, Locks
<1>3. lk.lockholder = p => lk.exclusivecount = excls[p]
  BY <1>1 DEF Granted
<1>4. lk.exclusivecount # 0 => shares[p] = 0
  <2>1. shares[p] <= lk.sharecount /\ lk.sharecount \in Nat /\ shares[p] \in Nat
    BY <1>1, HeldBound DEF Locks
  <2> QED BY <1>1, <2>1, SMT DEF Granted
<1> QED BY <1>1, <1>2, <1>3, <1>4, SMT

\* No step panics, when nobody asks for an upgrade.
LEMMA PlainStep ==
    ASSUME NoUpgrades, LockInv, PlainInv, [Next]_vars
    PROVE  PlainInv'
<1>1. /\ lk \in Locks /\ SameLock(lk)
      /\ \A q \in Procs : pc[q] = "excl" => lk.exclusivecount = 0
  BY DEF LockInv, Ordered, SameLock, PlainInv
<1>2. CASE UNCHANGED vars
  BY <1>2 DEF vars, PlainInv
<1>3. ASSUME NEW p \in Procs, NEW l \in Locks, NEW s, Downgrade(p, l, s),
             l.lockholder = p, l.exclusivecount # 0
      PROVE  PlainInv'
  <2> DEFINE m == [l EXCEPT !.flags = @ \ {"HAVE_EXCL"}, !.lockholder = NoProc,
                            !.sharecount = @ + l.exclusivecount, !.exclusivecount = 0]
  <2>1. m \in Locks /\ m.exclusivecount = 0
    <3>1. /\ l.flags \ {"HAVE_EXCL"} \in SUBSET Flags
          /\ l.sharecount + l.exclusivecount \in Nat
      BY SMT DEF Locks
    <3> QED BY <3>1 DEF Locks
  <2>2. Return(p, m, l.waitcount # 0, s + l.exclusivecount, 0)
    BY <1>3 DEF Downgrade
  <2> HIDE DEF m
  <2> QED BY <2>1, <2>2, ReturnPlain
<1>4. ASSUME NEW p \in Procs, NEW opts \in Options, LockShared(p, opts) PROVE PlainInv'
  <2>1. CASE Return(p, lk, FALSE, shares[p], excls[p])
    BY <1>1, <2>1, ReturnPlain
  <2>2. CASE AcquireShared(p, lk, opts)
    BY <1>1, <2>2, AcquireSharedPlain
  <2>3. CASE lk.lockholder = p /\ Downgrade(p, [lk EXCEPT !.sharecount = @ + 1], shares[p] + 1)
    <3> DEFINE l == [lk EXCEPT !.sharecount = @ + 1]
    <3>1. /\ l \in Locks /\ l.lockholder = lk.lockholder
          /\ l.exclusivecount = lk.exclusivecount
      BY <1>1, SMT DEF Locks
    <3>2. Downgrade(p, l, shares[p] + 1)
      BY <2>3
    <3>3. lk.exclusivecount # 0
      BY <2>3, HolderFacts, SMT
    <3> HIDE DEF l
    <3> QED BY <1>3, <2>3, <3>1, <3>2, <3>3
  <2> QED BY <1>4, <2>1, <2>2, <2>3 DEF LockShared
<1>5. ASSUME NEW p \in Procs, LockDowngrade(p) PROVE PlainInv'
  <2>1. lk.lockholder = p /\ lk.exclusivecount # 0
    BY <1>5, HolderFacts, SMT DEF LockDowngrade
  <2> QED BY <1>1, <1>3, <1>5, <2>1 DEF LockDowngrade
<1>6. ASSUME NEW p \in Procs, NEW opts \in Options, LockExclusive(p, opts) PROVE PlainInv'
  <2>1. CASE lk.lockholder = p
    <3> DEFINE m == [lk EXCEPT !.exclusivecount = @ + 1]
    <3>1. m \in Locks
      BY <1>1, SMT DEF Locks
    <3>2. CanRecurse /\ lk.exclusivecount # 0
      BY <1>6, <2>1, HolderFacts, SMT DEF LockExclusive
    <3>3. Return(p, m, FALSE, shares[p], excls[p] + 1)
      BY <1>6, <2>1, <3>2 DEF LockExclusive, Exclusive
    <3> HIDE DEF m
    <3> QED BY <1>1, <3>1, <3>2, <3>3, ReturnPlain
  <2>2. CASE Return(p, lk, FALSE, shares[p], excls[p])
    BY <1>1, <2>2, ReturnPlain
  <2>3. CASE AcquireExclusive(p, lk, FALSE, opts, shares[p])
    BY <1>1, <2>3, AcquireExclusivePlain
  <2> QED BY <1>6, <2>1, <2>2, <2>3 DEF LockExclusive, Exclusive
<1>7. ASSUME NEW p \in Procs, NEW opts \in Options, LockUpgrade(p, opts) \/ LockExclUpgrade(p, opts)
      PROVE  PlainInv'
  BY <1>7 DEF NoUpgrades, LockUpgrade, LockExclUpgrade, MayCall
<1>8. ASSUME NEW p \in Procs, NEW opts \in Options, LockDrain(p, opts) PROVE PlainInv'
  <2>1. lk.lockholder # p
    BY <1>8, HolderFacts, SMT DEF LockDrain
  <2>2. CASE Return(p, lk, FALSE, shares[p], excls[p])
    BY <1>1, <2>2, ReturnPlain
  <2>3. CASE AcquireDrain(p, lk, opts)
    BY <2>3, AcquireDrainPlain
  <2> QED BY <1>8, <2>1, <2>2, <2>3 DEF LockDrain
<1>9. ASSUME NEW p \in Procs, NEW reenable \in BOOLEAN, LockRelease(p, reenable) PROVE PlainInv'
  <2>1. PICK l : l = Decommissioned(reenable)
    OBVIOUS
  <2>2. /\ l \in Locks /\ l.exclusivecount = lk.exclusivecount /\ l.lockholder = lk.lockholder
        /\ l.sharecount = lk.sharecount
    BY <1>1, <2>1 DEF Decommissioned, Locks, Flags
  <2>3. CASE l.exclusivecount # 0
    <3> DEFINE last == l.exclusivecount = 1
               m == [l EXCEPT !.exclusivecount = @ - 1,
                              !.flags = IF last THEN @ \ {"HAVE_EXCL"} ELSE @,
                              !.lockholder = IF last THEN NoProc ELSE @]
    <3>1. p = l.lockholder
      BY <1>9, <2>2, <2>3, HolderFacts DEF LockRelease
    <3>2. m \in Locks
      <4>1. PICK f : f = IF last THEN l.flags \ {"HAVE_EXCL"} ELSE l.flags
        OBVIOUS
      <4>2. PICK h : h = IF last THEN NoProc ELSE l.lockholder
        OBVIOUS
      <4>3. f \in SUBSET Flags /\ h \in Procs \cup {NoProc} /\ l.exclusivecount - 1 \in Nat
        BY <2>2, <2>3, <4>1, <4>2, SMT DEF Locks
      <4>4. m = [l EXCEPT !.exclusivecount = @ - 1, !.flags = f, !.lockholder = h]
        BY <4>1, <4>2
      <4> HIDE DEF m
      <4> QED BY <2>2, <4>3, <4>4 DEF Locks
    <3>3. Return(p, m, l.waitcount # 0, shares[p], excls[p] - 1)
      BY <1>9, <2>1, <2>3, <3>1 DEF LockRelease
    <3> HIDE DEF m
    <3> QED BY <1>1, <2>2, <2>3, <3>2, <3>3, ReturnPlain
  <2>4. CASE l.exclusivecount = 0
    <3> DEFINE m == [l EXCEPT !.sharecount = @ - 1]
    <3>1. l.sharecount # 0 /\ Return(p, m, l.waitcount # 0, shares[p] - 1, excls[p])
      BY <1>9, <2>1, <2>4 DEF LockRelease
    <3>2. m \in Locks /\ m.exclusivecount = 0
      BY <2>2, <2>4, <3>1, SMTT(30) DEF Locks
    <3> HIDE DEF m
    <3> QED BY <3>1, <3>2, ReturnPlain
  <2> QED BY <2>3, <2>4
<1>10. ASSUME NEW p \in Procs, pc[p] \in OnLock
       PROVE  /\ SameLock([lk EXCEPT !.waitcount = @ - 1])
              /\ \A f : [lk EXCEPT !.waitcount = @ - 1, !.flags = @ \ f] \in Locks
              /\ \A f : [lk EXCEPT !.waitcount = @ - 1, !.flags = @ \ f].exclusivecount
                           = lk.exclusivecount
  <2>1. lk.waitcount # 0
    <3>1. Counted(lk.waitcount, Waiting(pc)) /\ p \in Waiting(pc)
      BY <1>10 DEF LockInv, Ordered, Waiting
    <3> QED BY <3>1, FS_EmptySet DEF Counted
  <2>2. lk.waitcount - 1 \in Nat /\ \A f : lk.flags \ f \in SUBSET Flags
    BY <1>1, <2>1, SMT DEF Locks
  <2>3. SameLock([lk EXCEPT !.waitcount = @ - 1])
    BY <1>1, <2>2 DEF SameLock, Locks
  <2>4. ASSUME NEW f
        PROVE  /\ [lk EXCEPT !.waitcount = @ - 1, !.flags = @ \ f] \in Locks
               /\ [lk EXCEPT !.waitcount = @ - 1, !.flags = @ \ f].exclusivecount
                     = lk.exclusivecount
    <3>1. lk.flags \ f \in SUBSET Flags
      BY <2>2
    <3> QED BY <1>1, <2>2, <3>1 DEF Locks
  <2> QED BY <2>3, <2>4
<1>11. ASSUME NEW p \in Procs, FailSleep(p) PROVE PlainInv'
  <2>1. CASE pc[p] = "drain"
    <3>1. pc' = [pc EXCEPT ![p] = "idle"] /\ UNCHANGED <<lk, panicked>>
      BY <1>11, <2>1 DEF FailSleep, OnLock
    <3> QED BY <1>1, <3>1, StopsPlain DEF Places
  <2>2. CASE pc[p] \in OnLock
    <3> DEFINE f == CASE pc[p] = "upgrade" -> {"WANT_UPGRADE"}
                      [] pc[p] = "excl" -> {"WANT_EXCL"}
                      [] OTHER -> {}
               m == [lk EXCEPT !.waitcount = @ - 1, !.flags = @ \ f]
    <3>1. Return(p, m, FALSE, shares[p], excls[p])
      BY <1>11, <2>2 DEF FailSleep, OnLock
    <3>2. m \in Locks /\ m.exclusivecount = lk.exclusivecount
      BY <1>10, <2>2
    <3> HIDE DEF m
    <3> QED BY <1>1, <3>1, <3>2, ReturnPlain
  <2> QED BY <1>11, <2>1, <2>2 DEF FailSleep
<1>12. ASSUME NEW p \in Procs, Resume(p), ~FailSleep(p) PROVE PlainInv'
  <2> DEFINE l == [lk EXCEPT !.waitcount = @ - 1]
  <2>1. CASE pc[p] = "share" /\ AcquireShared(p, l, ext[p])
    BY <1>10, <2>1, AcquireSharedPlain DEF OnLock
  <2>2. CASE pc[p] = "want" /\ AcquireExclusive(p, l, FALSE, ext[p], shares[p])
    BY <1>10, <2>2, AcquireExclusivePlain DEF OnLock
  <2>3. CASE pc[p] = "excl" /\ AwaitSharers(p, l, FALSE, ext[p], shares[p])
    <3>1. \A q \in Procs \ {p} : pc[q] # "excl"
      BY <2>3 DEF LockInv, Ordered, Owned
    <3>2. SameLock(l)
      BY <1>10, <2>3 DEF OnLock
    <3>3. l \in Locks /\ l.exclusivecount = 0
      BY <1>1, <2>3, <3>2 DEF SameLock
    <3> HIDE DEF l
    <3> QED BY <2>3, <3>1, <3>3, AwaitSharersPlain
  <2>4. CASE pc[p] = "drain" /\ AcquireDrain(p, lk, ext[p])
    BY <2>4, AcquireDrainPlain
  <2> QED BY <1>12, <2>1, <2>2, <2>3, <2>4 DEF Resume, PlainInv
<1>13. CASE lockinit
  BY <1>13 DEF lockinit, Fresh, PlainInv
<1> QED BY <1>2, <1>4, <1>5, <1>6, <1>7, <1>8, <1>9, <1>11, <1>12, <1>13, ZenonT(30)
     DEF Next, Release, Resume, Interrupted

\* lockmgr panics for no caller that keeps to the rules of lock.h, when nobody upgrades: the
\* exclusive lock is free whenever a request that waited for it gets it.
THEOREM NoPanicWithoutUpgrades == ASSUME NoUpgrades PROVE Spec => []NoPanic
<1>1. Init => PlainInv
  BY DEF Init, PlainInv
<1>2. NoUpgrades /\ LockInv /\ PlainInv /\ [Next]_vars => PlainInv'
  BY PlainStep
<1>3. PlainInv => NoPanic
  BY DEF PlainInv, NoPanic
<1> QED BY <1>1, <1>2, <1>3, LockInvariant, PTL DEF Spec

-----------------------------------------------------------------------------
(***************************************************************************)
(* Nobody is left asleep, when nobody upgrades or is interrupted.          *)
(***************************************************************************)

\* Nobody upgrades, asks for a second shared lock, is interrupted or passes LK_SLEEPFAIL.
PlainCalls ==
    /\ NoUpgrades
    /\ ~Nested
    /\ ~Interruptible
    /\ \A opts \in Options : "SLEEPFAIL" \notin opts

\* The processes that can do something for those who sleep.
HoldsLock(q) == shares[q] + excls[q] > 0
AboutToLook(q) == pc[q] \in OnLock /\ ~asleep[q]

\* A process inside lockmgr holds nothing.  One that waits with LK_WANT_EXCL waits for a
\* shared lock, one that drains has left LK_WAITDRAIN, and while one sleeps inside ACQUIRE
\* another holds the lock or has been woken there.
SleepInv ==
    /\ \A p \in Procs :
          /\ pc[p] # "idle" => shares[p] = 0 /\ excls[p] = 0
          /\ pc[p] = "idle" => ~asleep[p]
          /\ asleep[p] /\ pc[p] = "excl" => lk.sharecount # 0
          /\ asleep[p] /\ pc[p] = "drain" => InUse(lk) /\ "WAITDRAIN" \in lk.flags
          /\ "SLEEPFAIL" \notin ext[p]
    /\ (\E p \in Procs : asleep[p] /\ pc[p] \in OnLock) =>
          \E q \in Procs : HoldsLock(q) \/ AboutToLook(q)

AllInv == LockInv /\ PlainInv /\ SleepInv

\* The types, and what the invariants say of the lock at the start of a step.
LEMMA AllTypes ==
    ASSUME AllInv
    PROVE  /\ lk \in Locks /\ pc \in [Procs -> Places] /\ asleep \in [Procs -> BOOLEAN]
           /\ ext \in [Procs -> SUBSET {"NOWAIT", "SLEEPFAIL"}]
           /\ shares \in [Procs -> Nat] /\ excls \in [Procs -> Nat]
           /\ "WANT_UPGRADE" \notin lk.flags
           /\ SameLock(lk)
BY DEF AllInv, LockInv, Ordered, Owned, PlainInv, SameLock

\* Another process does something for the lock.
Another(p) == \E q \in Procs \ {p} : HoldsLock(q) \/ AboutToLook(q)

\* A shared lock is somebody's.
LEMMA SomeSharer ==
    ASSUME AllInv, lk.sharecount # 0
    PROVE  \E q \in Procs : shares[q] > 0
<1>1. Counted(lk.sharecount, Held(shares)) /\ shares \in [Procs -> Nat]
  BY DEF AllInv, LockInv, Ordered
<1>2. Held(shares) # {}
  BY <1>1, FS_EmptySet DEF Counted
<1>3. PICK h \in Held(shares) : TRUE
  BY <1>2
<1>4. h[1] \in Procs /\ h[2] \in Nat \ {0} /\ h[2] <= shares[h[1]]
  BY <1>3 DEF Held
<1>5. shares[h[1]] \in Nat
  BY <1>1, <1>4
<1> QED BY <1>4, <1>5, SMT

\* lk_waitcount is 0 only if nobody is inside ACQUIRE.
LEMMA NobodyWaits ==
    ASSUME AllInv, lk.waitcount = 0, NEW q \in Procs
    PROVE  pc[q] \notin OnLock
<1>1. Counted(lk.waitcount, Waiting(pc))
  BY DEF AllInv, LockInv, Ordered
<1>2. Waiting(pc) = {}
  BY <1>1, FS_EmptySet DEF Counted
<1> QED BY <1>2 DEF Waiting

\* For the flags LK_HAVE_EXCL and LK_WANT_EXCL of others there is another process that will
\* clear them, or that they wait for.
LEMMA SomebodyElse ==
    ASSUME AllInv, NEW p \in Procs, shares[p] = 0, excls[p] = 0
    PROVE  /\ lk.sharecount # 0 => Another(p)
           /\ lk.exclusivecount # 0 => Another(p)
           /\ pc[p] # "excl" /\ "WANT_EXCL" \in lk.flags => Another(p)
           /\ pc[p] # "excl" /\ lk.flags \cap Busy # {} => Another(p)
<1>1. /\ lk \in Locks /\ shares \in [Procs -> Nat] /\ excls \in [Procs -> Nat]
      /\ "WANT_UPGRADE" \notin lk.flags /\ pc \in [Procs -> Places]
      /\ Granted(lk, excls) /\ Owned(lk, pc)
  BY AllTypes DEF AllInv, LockInv, Ordered
<1>2. ASSUME lk.sharecount # 0 PROVE Another(p)
  <2>1. PICK q \in Procs : shares[q] > 0
    BY <1>2, SomeSharer
  <2>2. q # p /\ shares[q] \in Nat /\ excls[q] \in Nat
    BY <1>1, <2>1, SMT
  <2> QED BY <2>1, <2>2, SMT DEF Another, HoldsLock
<1>3. ASSUME lk.exclusivecount # 0 PROVE Another(p)
  <2>1. PICK q \in Procs : q = lk.lockholder
    BY <1>1, <1>3 DEF Granted, Locks
  <2>2. excls[q] = lk.exclusivecount /\ excls[q] \in Nat /\ shares[q] \in Nat
    BY <1>1, <2>1 DEF Granted
  <2> QED BY <1>3, <2>2, SMT DEF Another, HoldsLock
<1>4. ASSUME pc[p] # "excl", "WANT_EXCL" \in lk.flags PROVE Another(p)
  <2>1. PICK q \in Procs : pc[q] = "excl"
    BY <1>1, <1>4 DEF Owned
  <2>2. CASE asleep[q]
    BY <1>2, <2>1, <2>2 DEF AllInv, SleepInv
  <2>3. CASE ~asleep[q]
    BY <1>4, <2>1, <2>3 DEF Another, AboutToLook, OnLock
  <2> QED BY <2>2, <2>3
<1> QED BY <1>1, <1>2, <1>3, <1>4, SMTT(30) DEF Busy, Granted

\* lockmgr returns to p: those who sleep have been woken, or somebody else, perhaps p
\* itself, will wake them.
LEMMA ReturnAwaited ==
    ASSUME AllInv, NEW p \in Procs, ~asleep[p], NEW l \in Locks, NEW wake \in BOOLEAN,
           NEW s \in Nat, NEW e \in Nat, Return(p, l, wake, s, e),
           "WAITDRAIN" \in lk.flags => "WAITDRAIN" \in l.flags,
           \/ wake
           \/ \A q \in Procs : pc[q] \notin OnLock
           \/ /\ lk.sharecount # 0 => l.sharecount # 0
              /\ s + e > 0 \/ Another(p)
    PROVE  SleepInv'
<1>1. /\ pc \in [Procs -> Places] /\ asleep \in [Procs -> BOOLEAN]
      /\ shares \in [Procs -> Nat] /\ excls \in [Procs -> Nat]
      /\ ext \in [Procs -> SUBSET {"NOWAIT", "SLEEPFAIL"}]
  BY AllTypes
<1> DEFINE drained == "WAITDRAIN" \in l.flags /\ ~InUse(l)
<1>2. /\ \A q \in Procs : /\ pc'[q] = IF q = p THEN "idle" ELSE pc[q]
                          /\ shares'[q] = IF q = p THEN s ELSE shares[q]
                          /\ excls'[q] = IF q = p THEN e ELSE excls[q]
                          /\ ext'[q] = IF q = p THEN {} ELSE ext[q]
      /\ \A q \in Procs : asleep'[q] <=> /\ asleep[q]
                                         /\ ~(wake /\ pc[q] \in OnLock)
                                         /\ ~(drained /\ pc[q] = "drain")
  BY <1>1 DEF Return, Woken
<1>3. lk'.sharecount = l.sharecount /\ (~drained => lk' = l)
  BY DEF Return, Locks
<1> HIDE DEF drained
<1>4. ASSUME NEW q \in Procs
      PROVE  /\ pc'[q] # "idle" => shares'[q] = 0 /\ excls'[q] = 0
             /\ pc'[q] = "idle" => ~asleep'[q]
             /\ "SLEEPFAIL" \notin ext'[q]
  BY <1>2 DEF AllInv, SleepInv
<1>5. ASSUME NEW q \in Procs, asleep'[q], pc'[q] = "excl" PROVE lk'.sharecount # 0
  BY <1>2, <1>3, <1>5 DEF AllInv, SleepInv, OnLock
<1>6. ASSUME NEW q \in Procs, asleep'[q], pc'[q] = "drain"
      PROVE  InUse(lk') /\ "WAITDRAIN" \in lk'.flags
  <2>1. asleep[q] /\ pc[q] = "drain" /\ ~drained
    BY <1>2, <1>6
  <2>2. "WAITDRAIN" \in l.flags
    BY <2>1 DEF AllInv, SleepInv
  <2> QED BY <1>3, <2>1, <2>2 DEF drained
<1>7. ASSUME NEW q \in Procs, asleep'[q], pc'[q] \in OnLock
      PROVE  \E r \in Procs : HoldsLock(r)' \/ AboutToLook(r)'
  <2>1. ~wake /\ pc[q] \in OnLock
    BY <1>2, <1>7 DEF OnLock
  <2>2. CASE s + e > 0
    <3>1. shares'[p] = s /\ excls'[p] = e
      BY <1>2, SMTT(30)
    <3> QED BY <2>2, <3>1, SMTT(30) DEF HoldsLock
  <2>3. CASE Another(p)
    <3>1. PICK r \in Procs \ {p} : HoldsLock(r) \/ AboutToLook(r)
      BY <2>3 DEF Another
    <3>2. /\ shares'[r] = shares[r] /\ excls'[r] = excls[r] /\ pc'[r] = pc[r]
          /\ asleep'[r] => asleep[r]
      BY <1>2
    <3> QED BY <3>1, <3>2 DEF HoldsLock, AboutToLook
  <2> QED BY <2>1, <2>2, <2>3
<1>8. \A q \in Procs : asleep'[q] /\ pc'[q] = "drain" => InUse(lk)' /\ "WAITDRAIN" \in lk'.flags
  BY <1>6 DEF InUse
<1> QED BY <1>4, <1>5, <1>7, <1>8 DEF SleepInv

\* tsleep inside ACQUIRE, while another process will wake this one.
LEMMA SleepAwaited ==
    ASSUME AllInv, NEW p \in Procs, NEW l \in Locks, NEW at \in OnLock, NEW opts,
           Sleep(p, l, FALSE, at, opts, shares[p]), "SLEEPFAIL" \notin opts,
           shares[p] = 0, excls[p] = 0, l.sharecount = lk.sharecount,
           "WAITDRAIN" \in lk.flags => "WAITDRAIN" \in l.flags,
           at = "excl" => lk.sharecount # 0, Another(p)
    PROVE  SleepInv'
<1>1. /\ pc \in [Procs -> Places] /\ asleep \in [Procs -> BOOLEAN]
      /\ shares \in [Procs -> Nat] /\ excls \in [Procs -> Nat]
      /\ ext \in [Procs -> SUBSET {"NOWAIT", "SLEEPFAIL"}]
  BY AllTypes
<1>2. /\ \A q \in Procs : /\ pc'[q] = IF q = p THEN at ELSE pc[q]
                          /\ shares'[q] = shares[q] /\ excls'[q] = excls[q]
                          /\ ext'[q] = IF q = p THEN opts ELSE ext[q]
      /\ \A q \in Procs : asleep'[q] <=> q = p \/ asleep[q]
  BY <1>1 DEF Sleep, Woken
<1>3. lk'.sharecount = lk.sharecount /\ lk'.flags = l.flags /\ lk'.waitcount # 0
  BY SMT DEF Sleep, Locks
<1>4. at # "idle" /\ at # "drain" /\ InUse(lk)'
  BY <1>3 DEF OnLock, InUse
<1>5. ASSUME NEW q \in Procs
      PROVE  /\ pc'[q] # "idle" => shares'[q] = 0 /\ excls'[q] = 0
             /\ pc'[q] = "idle" => ~asleep'[q]
             /\ asleep'[q] /\ pc'[q] = "excl" => lk'.sharecount # 0
             /\ asleep'[q] /\ pc'[q] = "drain" => InUse(lk)' /\ "WAITDRAIN" \in lk'.flags
             /\ "SLEEPFAIL" \notin ext'[q]
  <2>1. CASE q = p
    BY <1>2, <1>3, <1>4, <2>1, SMTT(30)
  <2>2. CASE q # p
    BY <1>2, <1>3, <1>4, <2>2, SMT DEF AllInv, SleepInv
  <2> QED BY <2>1, <2>2
<1>6. \E r \in Procs : HoldsLock(r)' \/ AboutToLook(r)'
  <2>1. PICK r \in Procs \ {p} : HoldsLock(r) \/ AboutToLook(r)
    BY DEF Another
  <2>2. /\ shares'[r] = shares[r] /\ excls'[r] = excls[r] /\ pc'[r] = pc[r]
        /\ asleep'[r] => asleep[r]
    BY <1>2
  <2> QED BY <2>1, <2>2 DEF HoldsLock, AboutToLook
<1> QED BY <1>5, <1>6 DEF SleepInv

\* A request for a shared lock waits for a holder or for a process with LK_WANT_EXCL.
LEMMA AcquireSharedAwaited ==
    ASSUME AllInv, NEW p \in Procs, ~asleep[p], pc[p] # "excl", NEW l, SameLock(l), NEW opts,
           "SLEEPFAIL" \notin opts, shares[p] = 0, excls[p] = 0, AcquireShared(p, l, opts)
    PROVE  SleepInv'
<1>1. l \in Locks /\ l.sharecount = lk.sharecount /\ l.flags = lk.flags /\ "share" \in OnLock
      /\ "share" # "excl" /\ lk \in Locks
  BY AllTypes DEF SameLock, OnLock
<1>2. CASE Wanted(l, "share")
  <2>1. Another(p)
    BY <1>1, <1>2, SomebodyElse DEF Wanted
  <2> QED BY <1>1, <1>2, <2>1, SleepAwaited DEF AcquireShared
<1>3. CASE ~Wanted(l, "share")
  <2> DEFINE m == [l EXCEPT !.sharecount = @ + 1]
  <2>1. m \in Locks /\ m.flags = lk.flags /\ m.sharecount # 0
    BY <1>1, SMT DEF Locks
  <2>2. Return(p, m, FALSE, shares[p] + 1, excls[p])
    BY <1>3 DEF AcquireShared
  <2>3. shares[p] + 1 \in Nat /\ excls[p] \in Nat /\ shares[p] + 1 + excls[p] > 0
    BY SMT
  <2> HIDE DEF m
  <2> QED BY <2>1, <2>2, <2>3, ReturnAwaited
<1> QED BY <1>2, <1>3

\* With LK_WANT_EXCL set, a process waits for the shared locks only.
LEMMA AwaitSharersAwaited ==
    ASSUME AllInv, NEW p \in Procs, ~asleep[p], NEW l \in Locks,
           l.sharecount = lk.sharecount, l.exclusivecount = 0,
           "WANT_UPGRADE" \notin l.flags, "WAITDRAIN" \in lk.flags => "WAITDRAIN" \in l.flags,
           \A q \in Procs \ {p} : pc[q] # "excl",
           NEW opts, "SLEEPFAIL" \notin opts, shares[p] = 0, excls[p] = 0,
           AwaitSharers(p, l, FALSE, opts, shares[p])
    PROVE  SleepInv'
<1>1. CASE Wanted(l, "excl")
  <2>1. lk.sharecount # 0 /\ "excl" \in OnLock
    BY <1>1 DEF Wanted, OnLock
  <2>2. Another(p)
    BY <2>1, SomebodyElse
  <2> QED BY <1>1, <2>1, <2>2, SleepAwaited DEF AwaitSharers
<1>2. CASE ~Wanted(l, "excl")
  <2> DEFINE m == [l EXCEPT !.flags = (@ \ {"WANT_EXCL"}) \cup {"HAVE_EXCL"},
                            !.lockholder = p, !.exclusivecount = 1]
  <2>1. /\ m \in Locks /\ m.sharecount = lk.sharecount
        /\ "WAITDRAIN" \in lk.flags => "WAITDRAIN" \in m.flags
    BY DEF Locks, Flags, Busy
  <2>2. Return(p, m, FALSE, shares[p], 1)
    BY <1>2 DEF AwaitSharers, GrantExclusive
  <2>3. shares[p] \in Nat /\ 1 \in Nat /\ shares[p] + 1 > 0
    BY SMT
  <2> HIDE DEF m
  <2> QED BY <2>1, <2>2, <2>3, ReturnAwaited
<1> QED BY <1>1, <1>2

\* An exclusive request waits for a holder or for a process with LK_WANT_EXCL.
LEMMA AcquireExclusiveAwaited ==
    ASSUME AllInv, NEW p \in Procs, ~asleep[p], pc[p] # "excl", NEW l, SameLock(l), NEW opts,
           "SLEEPFAIL" \notin opts, shares[p] = 0, excls[p] = 0,
           AcquireExclusive(p, l, FALSE, opts, shares[p])
    PROVE  SleepInv'
<1>1. /\ l \in Locks /\ l.sharecount = lk.sharecount /\ l.flags = lk.flags
      /\ l.exclusivecount = lk.exclusivecount /\ "want" \in OnLock /\ "want" # "excl"
      /\ "WANT_UPGRADE" \notin lk.flags
  BY AllTypes DEF SameLock, OnLock
<1>2. CASE Wanted(l, "want")
  <2>1. Another(p)
    BY <1>1, <1>2, SomebodyElse DEF Wanted, Busy
  <2> QED BY <1>1, <1>2, <2>1, SleepAwaited DEF AcquireExclusive
<1>3. CASE ~Wanted(l, "want")
  <2> DEFINE m == [l EXCEPT !.flags = @ \cup {"WANT_EXCL"}]
  <2>1. /\ m \in Locks /\ m.exclusivecount = l.exclusivecount /\ m.sharecount = l.sharecount
        /\ m.flags = lk.flags \cup {"WANT_EXCL"}
    BY <1>1 DEF Locks, Flags, Busy
  <2>2. "HAVE_EXCL" \notin lk.flags /\ "WANT_EXCL" \notin lk.flags
    BY <1>1, <1>3 DEF Wanted
  <2>3. l.exclusivecount = 0 /\ \A q \in Procs : pc[q] # "excl"
    BY <1>1, <2>2 DEF AllInv, LockInv, Ordered, Granted, Owned
  <2>4. AwaitSharers(p, m, FALSE, opts, shares[p])
    BY <1>3 DEF AcquireExclusive
  <2>5. "WANT_UPGRADE" \notin m.flags /\ ("WAITDRAIN" \in lk.flags => "WAITDRAIN" \in m.flags)
    BY <1>1, <2>1
  <2> HIDE DEF m
  <2> QED BY <1>1, <2>1, <2>3, <2>4, <2>5, AwaitSharersAwaited
<1> QED BY <1>2, <1>3

\* LK_DRAIN sleeps while the lock is in use, and nobody waits for it.
LEMMA AcquireDrainAwaited ==
    ASSUME AllInv, NEW p \in Procs, ~asleep[p], pc[p] \notin OnLock, NEW opts,
           "SLEEPFAIL" \notin opts, shares[p] = 0, excls[p] = 0, AcquireDrain(p, lk, opts)
    PROVE  SleepInv'
<1>1. /\ lk \in Locks /\ pc \in [Procs -> Places] /\ asleep \in [Procs -> BOOLEAN]
      /\ shares \in [Procs -> Nat] /\ excls \in [Procs -> Nat]
      /\ ext \in [Procs -> SUBSET {"NOWAIT", "SLEEPFAIL"}]
  BY AllTypes
<1>2. CASE InUse(lk)
  <2>1. /\ \A q \in Procs : /\ pc'[q] = IF q = p THEN "drain" ELSE pc[q]
                            /\ shares'[q] = shares[q] /\ excls'[q] = excls[q]
                            /\ ext'[q] = IF q = p THEN opts ELSE ext[q]
        /\ \A q \in Procs : asleep'[q] <=> q = p \/ asleep[q]
    BY <1>1, <1>2 DEF AcquireDrain
  <2>2. /\ lk'.sharecount = lk.sharecount /\ lk'.waitcount = lk.waitcount
        /\ lk'.flags = lk.flags \cup {"WAITDRAIN"}
    BY <1>1, <1>2 DEF AcquireDrain, Locks
  <2>3. InUse(lk)'
    BY <1>2, <2>2 DEF InUse
  <2>4. ASSUME NEW q \in Procs
        PROVE  /\ pc'[q] # "idle" => shares'[q] = 0 /\ excls'[q] = 0
               /\ pc'[q] = "idle" => ~asleep'[q]
               /\ asleep'[q] /\ pc'[q] = "excl" => lk'.sharecount # 0
               /\ asleep'[q] /\ pc'[q] = "drain" => InUse(lk)' /\ "WAITDRAIN" \in lk'.flags
               /\ "SLEEPFAIL" \notin ext'[q]
    <3>1. CASE q = p
      BY <2>1, <2>2, <2>3, <3>1, SMTT(30)
    <3>2. CASE q # p
      BY <2>1, <2>2, <2>3, <3>2 DEF AllInv, SleepInv
    <3> QED BY <3>1, <3>2
  <2>5. ASSUME NEW q \in Procs, asleep'[q], pc'[q] \in OnLock
        PROVE  \E r \in Procs : HoldsLock(r)' \/ AboutToLook(r)'
    <3>1. asleep[q] /\ pc[q] \in OnLock
      BY <2>1, <2>5 DEF OnLock
    <3>2. PICK r \in Procs : HoldsLock(r) \/ AboutToLook(r)
      BY <3>1 DEF AllInv, SleepInv
    <3>3. r # p
      BY <3>2, SMT DEF HoldsLock, AboutToLook
    <3> QED BY <2>1, <3>2, <3>3 DEF HoldsLock, AboutToLook
  <2> QED BY <2>4, <2>5 DEF SleepInv
<1>3. CASE ~InUse(lk)
  <2> DEFINE m == [lk EXCEPT !.flags = @ \cup {"DRAINING", "HAVE_EXCL"},
                             !.lockholder = p, !.exclusivecount = 1]
  <2>1. /\ m \in Locks /\ Return(p, m, FALSE, shares[p], 1)
        /\ "WAITDRAIN" \in lk.flags => "WAITDRAIN" \in m.flags
    BY <1>1, <1>3 DEF AcquireDrain, Locks, Flags, Busy
  <2>2. \A q \in Procs : pc[q] \notin OnLock
    BY <1>3, NobodyWaits DEF InUse
  <2>3. shares[p] \in Nat /\ 1 \in Nat
    BY SMT
  <2> HIDE DEF m
  <2> QED BY <2>1, <2>2, <2>3, ReturnAwaited
<1> QED BY <1>2, <1>3

\* A call that returns at once, leaving the lock as it was (LK_NOWAIT).
LEMMA NothingDone ==
    ASSUME AllInv, NEW p \in Procs, pc[p] = "idle", Return(p, lk, FALSE, shares[p], excls[p])
    PROVE  SleepInv'
<1>1. /\ lk \in Locks /\ shares[p] \in Nat /\ excls[p] \in Nat /\ ~asleep[p]
  BY AllTypes DEF AllInv, SleepInv
<1>2. CASE \A q \in Procs : ~(asleep[q] /\ pc[q] \in OnLock)
  <2>1. Return(p, lk, TRUE, shares[p], excls[p])
    <3>1. asleep \in [Procs -> BOOLEAN]
      BY AllTypes
    <3>2. \A d : Woken(FALSE, d) = Woken(TRUE, d)
      BY <1>2, <3>1 DEF Woken
    <3> QED BY <3>2 DEF Return
  <2> QED BY <1>1, <2>1, ReturnAwaited
<1>3. CASE \E q \in Procs : asleep[q] /\ pc[q] \in OnLock
  <2>1. PICK r \in Procs : HoldsLock(r) \/ AboutToLook(r)
    BY <1>3 DEF AllInv, SleepInv
  <2>2. shares[p] + excls[p] > 0 \/ Another(p)
    <3>1. CASE r = p
      BY <2>1, <3>1 DEF HoldsLock, AboutToLook, OnLock
    <3>2. CASE r # p
      BY <2>1, <3>2 DEF Another
    <3> QED BY <3>1, <3>2
  <2> QED BY <1>1, <2>2, ReturnAwaited
<1> QED BY <1>2, <1>3

\* A release or a downgrade wakes everybody inside ACQUIRE.
LEMMA WakingReturn ==
    ASSUME AllInv, NEW p \in Procs, pc[p] = "idle", NEW l \in Locks, NEW s \in Nat, NEW e \in Nat,
           Return(p, l, lk.waitcount # 0, s, e),
           "WAITDRAIN" \in lk.flags => "WAITDRAIN" \in l.flags
    PROVE  SleepInv'
<1>1. ~asleep[p]
  BY DEF AllInv, SleepInv
<1>2. CASE lk.waitcount = 0
  BY <1>1, <1>2, NobodyWaits, ReturnAwaited
<1>3. CASE lk.waitcount # 0
  BY <1>1, <1>3, ReturnAwaited
<1> QED BY <1>2, <1>3

\* LK_DOWNGRADE, also when reached from LK_SHARED.
LEMMA DowngradeAwaited ==
    ASSUME AllInv, NEW p \in Procs, pc[p] = "idle", NEW l \in Locks, NEW s \in Nat,
           l.flags = lk.flags, l.waitcount = lk.waitcount, Downgrade(p, l, s),
           l.lockholder = p, l.exclusivecount # 0
    PROVE  SleepInv'
<1> DEFINE m == [l EXCEPT !.flags = @ \ {"HAVE_EXCL"}, !.lockholder = NoProc,
                          !.sharecount = @ + l.exclusivecount, !.exclusivecount = 0]
<1>1. m \in Locks /\ m.flags = lk.flags \ {"HAVE_EXCL"}
  <2>1. /\ l.flags \ {"HAVE_EXCL"} \in SUBSET Flags
        /\ l.sharecount + l.exclusivecount \in Nat
    BY SMT DEF Locks
  <2> QED BY <2>1 DEF Locks
<1>2. Return(p, m, lk.waitcount # 0, s + l.exclusivecount, 0)
  BY DEF Downgrade
<1>3. s + l.exclusivecount \in Nat /\ 0 \in Nat
  BY SMT DEF Locks
<1> HIDE DEF m
<1> QED BY <1>1, <1>2, <1>3, WakingReturn

\* LK_RELEASE.
LEMMA ReleaseAwaited ==
    ASSUME AllInv, NEW p \in Procs, NEW reenable \in BOOLEAN, LockRelease(p, reenable)
    PROVE  SleepInv'
<1>1. /\ lk \in Locks /\ pc[p] = "idle" /\ shares[p] + excls[p] > 0
      /\ shares[p] \in Nat /\ excls[p] \in Nat
  BY AllTypes DEF LockRelease
<1>2. PICK l : l = Decommissioned(reenable)
  OBVIOUS
<1>3. /\ l \in Locks /\ l.exclusivecount = lk.exclusivecount /\ l.lockholder = lk.lockholder
      /\ l.sharecount = lk.sharecount /\ l.waitcount = lk.waitcount
      /\ "WAITDRAIN" \in lk.flags => "WAITDRAIN" \in l.flags
  BY <1>1, <1>2 DEF Decommissioned, Locks, Flags
<1>4. CASE l.exclusivecount # 0
  <2> DEFINE last == l.exclusivecount = 1
             m == [l EXCEPT !.exclusivecount = @ - 1,
                            !.flags = IF last THEN @ \ {"HAVE_EXCL"} ELSE @,
                            !.lockholder = IF last THEN NoProc ELSE @]
  <2>1. p = l.lockholder /\ excls[p] > 0
    BY <1>1, <1>3, <1>4, HolderFacts, SMT DEF AllInv
  <2>2. m \in Locks /\ ("WAITDRAIN" \in l.flags => "WAITDRAIN" \in m.flags)
    <3>1. PICK f : f = IF last THEN l.flags \ {"HAVE_EXCL"} ELSE l.flags
      OBVIOUS
    <3>2. PICK h : h = IF last THEN NoProc ELSE l.lockholder
      OBVIOUS
    <3>3. /\ f \in SUBSET Flags /\ h \in Procs \cup {NoProc} /\ l.exclusivecount - 1 \in Nat
          /\ "WAITDRAIN" \in l.flags => "WAITDRAIN" \in f
      BY <1>3, <1>4, <3>1, <3>2, SMT DEF Locks
    <3>4. m = [l EXCEPT !.exclusivecount = @ - 1, !.flags = f, !.lockholder = h]
      BY <3>1, <3>2
    <3> HIDE DEF m
    <3> QED BY <1>3, <3>3, <3>4 DEF Locks
  <2>3. Return(p, m, l.waitcount # 0, shares[p], excls[p] - 1)
    BY <1>2, <1>4, <2>1 DEF LockRelease
  <2>4. excls[p] - 1 \in Nat
    BY <1>1, <2>1, SMT
  <2> HIDE DEF m
  <2> QED BY <1>1, <1>3, <2>2, <2>3, <2>4, WakingReturn
<1>5. CASE l.exclusivecount = 0
  <2> DEFINE m == [l EXCEPT !.sharecount = @ - 1]
  <2>1. l.sharecount # 0 /\ Return(p, m, l.waitcount # 0, shares[p] - 1, excls[p])
    BY <1>2, <1>5 DEF LockRelease
  <2>2. m \in Locks /\ m.flags = l.flags
    BY <1>3, <2>1, SMT DEF Locks
  <2>3. shares[p] - 1 \in Nat
    BY <1>1, <1>3, <1>5, HolderFacts, SMT DEF AllInv
  <2> HIDE DEF m
  <2> QED BY <1>1, <1>3, <2>1, <2>2, <2>3, WakingReturn
<1> QED BY <1>4, <1>5

\* Every step leaves somebody to wake those it leaves asleep.
LEMMA SleepStep ==
    ASSUME PlainCalls, AllInv, [Next]_vars
    PROVE  SleepInv'
<1>1. /\ lk \in Locks /\ SameLock(lk) /\ LockInv
      /\ shares \in [Procs -> Nat] /\ excls \in [Procs -> Nat]
      /\ \A q \in Procs : pc[q] = "idle" => ~asleep[q]
      /\ \A opts \in Options : "SLEEPFAIL" \notin opts
      /\ NoUpgrades /\ ~Nested /\ ~Interruptible
  BY AllTypes DEF AllInv, SleepInv, PlainCalls
<1>2. CASE UNCHANGED vars
  BY <1>2 DEF vars, AllInv, SleepInv, HoldsLock, AboutToLook, InUse
<1>3. ASSUME NEW p \in Procs, NEW opts \in Options, LockShared(p, opts) PROVE SleepInv'
  <2>1. pc[p] = "idle" /\ shares[p] = 0 /\ "SLEEPFAIL" \notin opts
    BY <1>1, <1>3 DEF LockShared, MayCall
  <2>2. CASE Return(p, lk, FALSE, shares[p], excls[p])
    BY <2>1, <2>2, NothingDone
  <2>3. CASE lk.lockholder # p /\ AcquireShared(p, lk, opts)
    <3>1. excls[p] = 0
      BY <1>1, <2>3, HolderFacts, SMT
    <3> QED BY <1>1, <2>1, <2>3, <3>1, AcquireSharedAwaited
  <2>4. CASE lk.lockholder = p /\ Downgrade(p, [lk EXCEPT !.sharecount = @ + 1], shares[p] + 1)
    <3> DEFINE l == [lk EXCEPT !.sharecount = @ + 1]
    <3>1. /\ l \in Locks /\ l.lockholder = lk.lockholder /\ l.flags = lk.flags
          /\ l.waitcount = lk.waitcount /\ l.exclusivecount = lk.exclusivecount
      BY <1>1, SMT DEF Locks
    <3>2. Downgrade(p, l, shares[p] + 1) /\ shares[p] + 1 \in Nat
      BY <2>1, <2>4, SMT
    <3>3. lk.exclusivecount # 0
      BY <1>1, <2>4, HolderFacts, SMT
    <3> HIDE DEF l
    <3> QED BY <2>1, <2>4, <3>1, <3>2, <3>3, DowngradeAwaited
  <2> QED BY <1>3, <2>2, <2>3, <2>4 DEF LockShared
<1>4. ASSUME NEW p \in Procs, LockDowngrade(p) PROVE SleepInv'
  <2>1. /\ lk.lockholder = p /\ lk.exclusivecount # 0 /\ pc[p] = "idle" /\ shares[p] \in Nat
        /\ Downgrade(p, lk, shares[p])
    BY <1>1, <1>4, HolderFacts, SMT DEF LockDowngrade, MayCall
  <2> QED BY <1>1, <2>1, DowngradeAwaited
<1>5. ASSUME NEW p \in Procs, NEW opts \in Options, LockExclusive(p, opts) PROVE SleepInv'
  <2>1. pc[p] = "idle" /\ shares[p] = 0 /\ "SLEEPFAIL" \notin opts
    BY <1>1, <1>5 DEF LockExclusive, MayCall
  <2>2. CASE lk.lockholder = p
    <3> DEFINE m == [lk EXCEPT !.exclusivecount = @ + 1]
    <3>1. m \in Locks /\ m.flags = lk.flags /\ m.sharecount = lk.sharecount
      BY <1>1, SMT DEF Locks
    <3>2. CanRecurse /\ excls[p] \in Nat /\ excls[p] + 1 \in Nat /\ shares[p] + (excls[p] + 1) > 0
      BY <1>1, <1>5, <2>1, <2>2, HolderFacts, SMT DEF LockExclusive
    <3>3. Return(p, m, FALSE, shares[p], excls[p] + 1)
      BY <1>5, <2>2, <3>2 DEF LockExclusive, Exclusive
    <3> HIDE DEF m
    <3> QED BY <1>1, <2>1, <3>1, <3>2, <3>3, ReturnAwaited
  <2>3. CASE Return(p, lk, FALSE, shares[p], excls[p])
    BY <2>1, <2>3, NothingDone
  <2>4. CASE lk.lockholder # p /\ AcquireExclusive(p, lk, FALSE, opts, shares[p])
    <3>1. excls[p] = 0
      BY <1>1, <2>4, HolderFacts, SMT
    <3> QED BY <1>1, <2>1, <2>4, <3>1, AcquireExclusiveAwaited
  <2> QED BY <1>5, <2>2, <2>3, <2>4 DEF LockExclusive, Exclusive
<1>6. ASSUME NEW p \in Procs, NEW opts \in Options, LockUpgrade(p, opts) \/ LockExclUpgrade(p, opts)
      PROVE  SleepInv'
  BY <1>1, <1>6 DEF NoUpgrades, LockUpgrade, LockExclUpgrade, MayCall
<1>7. ASSUME NEW p \in Procs, NEW opts \in Options, LockDrain(p, opts) PROVE SleepInv'
  <2>1. /\ pc[p] = "idle" /\ shares[p] = 0 /\ excls[p] = 0 /\ "SLEEPFAIL" \notin opts
        /\ lk.lockholder # p /\ pc[p] \notin OnLock
    BY <1>1, <1>7, HolderFacts, SMT DEF LockDrain, MayCall, OnLock
  <2>2. CASE Return(p, lk, FALSE, shares[p], excls[p])
    BY <2>1, <2>2, NothingDone
  <2>3. CASE AcquireDrain(p, lk, opts)
    BY <1>1, <2>1, <2>3, AcquireDrainAwaited
  <2> QED BY <1>7, <2>1, <2>2, <2>3 DEF LockDrain
<1>8. ASSUME NEW p \in Procs, Resume(p) PROVE SleepInv'
  <2> DEFINE l == [lk EXCEPT !.waitcount = @ - 1]
  <2>1. /\ ~asleep[p] /\ shares[p] = 0 /\ excls[p] = 0 /\ "SLEEPFAIL" \notin ext[p]
    BY <1>8 DEF Resume, AllInv, SleepInv
  <2>2. ASSUME pc[p] \in OnLock
        PROVE  SameLock(l)
    <3>1. lk.waitcount # 0
      BY <2>2, NobodyWaits
    <3> QED BY <1>1, <3>1, SMT DEF SameLock, Locks
  <2>3. CASE pc[p] = "share" /\ AcquireShared(p, l, ext[p])
    BY <2>1, <2>2, <2>3, AcquireSharedAwaited DEF OnLock
  <2>4. CASE pc[p] = "want" /\ AcquireExclusive(p, l, FALSE, ext[p], shares[p])
    BY <2>1, <2>2, <2>4, AcquireExclusiveAwaited DEF OnLock
  <2>5. CASE pc[p] = "excl" /\ AwaitSharers(p, l, FALSE, ext[p], shares[p])
    <3>1. \A q \in Procs \ {p} : pc[q] # "excl"
      BY <2>5 DEF AllInv, LockInv, Ordered, Owned
    <3>2. SameLock(l)
      BY <2>2, <2>5 DEF OnLock
    <3>3. /\ l \in Locks /\ l.exclusivecount = 0 /\ l.sharecount = lk.sharecount
          /\ l.flags = lk.flags /\ "WANT_UPGRADE" \notin lk.flags
      BY <2>5, <3>2, AllTypes DEF SameLock, AllInv, PlainInv
    <3> HIDE DEF l
    <3> QED BY <2>1, <2>5, <3>1, <3>3, AwaitSharersAwaited
  <2>6. CASE pc[p] = "drain" /\ AcquireDrain(p, lk, ext[p])
    BY <2>1, <2>6, AcquireDrainAwaited DEF OnLock
  <2> QED BY <1>8, <2>1, <2>3, <2>4, <2>5, <2>6, ZenonT(30) DEF Resume, AllInv, PlainInv
<1>9. CASE lockinit
  <2>1. \A q \in Procs : pc[q] = "idle"
    BY <1>9 DEF lockinit, AllInv, LockInv, Ordered, Quiet, Undrained
  <2>2. \A q \in Procs : ~asleep[q] /\ "SLEEPFAIL" \notin ext[q]
    BY <2>1 DEF AllInv, SleepInv
  <2> QED BY <1>9, <2>1, <2>2 DEF lockinit, SleepInv
<1> QED BY <1>1, <1>2, <1>3, <1>4, <1>5, <1>6, <1>7, <1>8, <1>9, ReleaseAwaited, SMTT(30)
     DEF Next, Release, Interrupted

\* Whoever sleeps for the lock is waited for by a process that holds it and runs, or by one
\* that has been woken and will look at it, when nobody upgrades, asks for a second shared
\* lock or is interrupted: no release of lockmgr leaves a sleeper behind.
THEOREM SleepersAreAlwaysAwaited == ASSUME PlainCalls PROVE Spec => []SleepersAreAwaited
<1>1. Init => PlainInv /\ SleepInv
  BY DEF Init, PlainInv, SleepInv
<1>2. PlainCalls /\ LockInv /\ PlainInv /\ SleepInv /\ [Next]_vars => PlainInv' /\ SleepInv'
  BY PlainStep, SleepStep DEF AllInv, PlainCalls
<1>3. LockInv /\ PlainInv /\ SleepInv => SleepersAreAwaited
  <2> SUFFICES ASSUME AllInv, NEW p \in Procs, asleep[p]
               PROVE  \E q \in Procs : \/ pc[q] = "idle" /\ shares[q] + excls[q] > 0
                                       \/ pc[q] # "idle" /\ ~asleep[q]
    BY DEF AllInv, SleepersAreAwaited
  <2>1. /\ pc[p] # "idle" /\ shares[p] = 0 /\ excls[p] = 0 /\ pc \in [Procs -> Places]
    BY AllTypes DEF AllInv, SleepInv
  <2>2. \A q \in Procs : HoldsLock(q) => pc[q] = "idle"
    BY SMT DEF AllInv, SleepInv, HoldsLock
  <2>3. \A q \in Procs : AboutToLook(q) => pc[q] # "idle" /\ ~asleep[q]
    BY DEF AboutToLook, OnLock
  <2>4. ASSUME NEW r \in Procs, pc[r] \in OnLock
        PROVE  \E q \in Procs : HoldsLock(q) \/ AboutToLook(q)
    BY <2>4 DEF AllInv, SleepInv, AboutToLook
  <2>5. CASE pc[p] \in OnLock
    BY <2>2, <2>3, <2>4, <2>5 DEF HoldsLock
  <2>6. CASE pc[p] = "drain"
    <3>1. InUse(lk)
      BY <2>6 DEF AllInv, SleepInv
    <3>2. CASE lk.waitcount = 0
      <4>1. Another(p)
        BY <2>1, <2>6, <3>1, <3>2, SomebodyElse DEF InUse
      <4> QED BY <2>2, <2>3, <4>1 DEF Another, HoldsLock
    <3>3. CASE lk.waitcount # 0
      <4>1. Counted(lk.waitcount, Waiting(pc))
        BY DEF AllInv, LockInv, Ordered
      <4>2. PICK r \in Procs : pc[r] \in OnLock
        BY <3>3, <4>1, FS_EmptySet DEF Counted, Waiting
      <4> QED BY <2>2, <2>3, <2>4, <4>2 DEF HoldsLock
    <3> QED BY <3>2, <3>3
  <2> QED BY <2>1, <2>5, <2>6 DEF Places
<1> QED BY <1>1, <1>2, <1>3, LockInvariant, PTL DEF Spec
=============================================================================
