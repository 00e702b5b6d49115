------------------------------ MODULE Lockmgr ------------------------------
(***************************************************************************)
(* The lock manager of 4.4BSD-Lite2/sys/kern/kern_lock.c: shared and        *)
(* exclusive locks with upgrades, downgrades, recursion and draining, for   *)
(* processes that sleep in tsleep while they have to wait.                  *)
(*                                                                         *)
(* All machines of the source tree have NCPUS = 1: PAUSE and the interlock  *)
(* are empty, and a process in the kernel runs until it calls tsleep.  So   *)
(* one step is a call of lockmgr, or a return from tsleep inside one, up to *)
(* the next tsleep or to lockmgr's return.  wakeup makes sleepers runnable; *)
(* they look at the lock again when they are scheduled, in any order.       *)
(***************************************************************************)
EXTENDS Integers, FiniteSets

CONSTANTS
    Procs,          \* the processes
    Requests,       \* the request types they use, besides LK_RELEASE
    Options,        \* the sets of external flags they pass with a request
    CanRecurse,     \* LK_CANRECURSE was given to lockinit
    Interruptible,  \* lk_prio has PCATCH or lk_timo is not 0: tsleep may fail
    Nested,         \* a process may ask for a second shared lock
    MaxHeld,        \* bound: locks one process holds
    NoProc          \* LK_NOPROC

ASSUME ProcsAssumption == IsFiniteSet(Procs) /\ NoProc \notin Procs

ASSUME RequestsAssumption ==
    /\ Requests \subseteq {"SHARED", "EXCLUSIVE", "UPGRADE", "EXCLUPGRADE", "DOWNGRADE", "DRAIN"}
    /\ Options \subseteq SUBSET {"NOWAIT", "SLEEPFAIL"}

ASSUME SwitchesAssumption ==
    /\ CanRecurse \in BOOLEAN
    /\ Interruptible \in BOOLEAN
    /\ Nested \in BOOLEAN
    /\ MaxHeld \in Nat \ {0}

VARIABLES
    lk,         \* struct lock
    pc,         \* where in lockmgr a process sleeps, "idle" outside lockmgr
    asleep,     \* whether it is on the sleep queue; if not, it waits for the CPU
    ext,        \* the external flags of the request a process sleeps in
    shares,     \* the shared locks lockmgr has granted to a process ...
    excls,      \* ... and the exclusive ones, as the return values told it
    panicked    \* whether the kernel has called panic

vars == <<lk, pc, asleep, ext, shares, excls, panicked>>

Busy == {"HAVE_EXCL", "WANT_EXCL", "WANT_UPGRADE"}

Flags == Busy \cup {"WAITDRAIN", "DRAINING", "DRAINED"}

\* The sleeps on lkp, which lk_waitcount counts; LK_DRAIN sleeps on &lkp->lk_flags.
OnLock == {"share", "upgrade", "want", "excl"}

TypeOK ==
    /\ lk \in [flags : SUBSET Flags, sharecount : Nat, waitcount : Nat,
               exclusivecount : Nat, lockholder : Procs \cup {NoProc}]
    /\ pc \in [Procs -> OnLock \cup {"idle", "drain"}]
    /\ asleep \in [Procs -> BOOLEAN]
    /\ ext \in [Procs -> SUBSET {"NOWAIT", "SLEEPFAIL"}]
    /\ shares \in [Procs -> Nat]
    /\ excls \in [Procs -> Nat]
    /\ panicked \in BOOLEAN

\* lockinit
Fresh == [flags |-> {}, sharecount |-> 0, waitcount |-> 0, exclusivecount |-> 0,
          lockholder |-> NoProc]

Init ==
    /\ lk = Fresh
    /\ pc = [p \in Procs |-> "idle"]
    /\ asleep = [p \in Procs |-> FALSE]
    /\ ext = [p \in Procs |-> {}]
    /\ shares = [p \in Procs |-> 0]
    /\ excls = [p \in Procs |-> 0]
    /\ panicked = FALSE

-----------------------------------------------------------------------------
(***************************************************************************)
(* How a step ends.  l is the lock as the code before has left it and wake  *)
(* says whether that code has called wakeup(lkp).                           *)
(***************************************************************************)

\* Mutant: LK_DRAIN does not wait for the processes inside ACQUIRE.
ForgetsWaiters(l) == l.flags \cap Busy # {} \/ l.sharecount # 0

\* What LK_DRAIN waits for to end.
InUse(l) == l.flags \cap Busy # {} \/ l.sharecount # 0 \/ l.waitcount # 0

\* The sleep queues after wakeup(lkp), if wake, and wakeup(&lkp->lk_flags), if drained.
Woken(wake, drained) ==
    [q \in Procs |-> /\ asleep[q]
                     /\ ~(wake /\ pc[q] \in OnLock)
                     /\ ~(drained /\ pc[q] = "drain")]

\* lockmgr returns: first it wakes the process that waits for the lock to drain.  s and e
\* are what the process holds from now on.
Return(p, l, wake, s, e) ==
    LET drained == "WAITDRAIN" \in l.flags /\ ~InUse(l)
    IN  /\ lk' = IF drained THEN [l EXCEPT !.flags = @ \ {"WAITDRAIN"}] ELSE l
        /\ pc' = [pc EXCEPT ![p] = "idle"]
        /\ asleep' = Woken(wake, drained)
        /\ ext' = [ext EXCEPT ![p] = {}]
        /\ shares' = [shares EXCEPT ![p] = s]
        /\ excls' = [excls EXCEPT ![p] = e]
        /\ UNCHANGED panicked

\* tsleep on lkp, inside ACQUIRE.
Sleep(p, l, wake, at, opts, s) ==
    /\ lk' = [l EXCEPT !.waitcount = @ + 1]
    /\ pc' = [pc EXCEPT ![p] = at]
    /\ asleep' = [Woken(wake, FALSE) EXCEPT ![p] = TRUE]
    /\ ext' = [ext EXCEPT ![p] = opts]
    /\ shares' = [shares EXCEPT ![p] = s]
    /\ UNCHANGED <<excls, panicked>>

Panic == panicked' = TRUE /\ UNCHANGED <<lk, pc, asleep, ext, shares, excls>>

-----------------------------------------------------------------------------
(***************************************************************************)
(* The waits.  Each is one ACQUIRE with what follows it, for a process that *)
(* reaches it from its call or that has just returned from tsleep.          *)
(***************************************************************************)

\* Mutant: nobody waits for the holder of the exclusive lock.
ForgetsHolder(l, at) ==
    CASE at = "share" -> l.flags \cap {"WANT_EXCL", "WANT_UPGRADE"} # {}
      [] at = "upgrade" -> l.sharecount # 0
      [] at = "want" -> "WANT_EXCL" \in l.flags
      [] at = "excl" -> l.sharecount # 0 \/ "WANT_UPGRADE" \in l.flags
      [] at = "drain" -> InUse(l)

\* Mutant: an exclusive request does not wait for an upgrade.
PassesUpgrade(l, at) ==
    CASE at = "share" -> l.flags \cap Busy # {}
      [] at = "upgrade" -> l.sharecount # 0
      [] at = "want" -> l.flags \cap {"HAVE_EXCL", "WANT_EXCL"} # {}
      [] at = "excl" -> l.sharecount # 0
      [] at = "drain" -> InUse(l)

\* Mutant: a shared request does not wait for an exclusive one.
PassesWriter(l, at) ==
    CASE at = "share" -> l.flags \cap {"HAVE_EXCL", "WANT_UPGRADE"} # {}
      [] at = "upgrade" -> l.sharecount # 0
      [] at = "want" -> l.flags \cap {"HAVE_EXCL", "WANT_EXCL"} # {}
      [] at = "excl" -> l.sharecount # 0 \/ "WANT_UPGRADE" \in l.flags
      [] at = "drain" -> InUse(l)

\* What a process sleeping at this place waits for to become false.
Wanted(l, at) ==
    CASE at = "share" -> l.flags \cap Busy # {}
      [] at = "upgrade" -> l.sharecount # 0
      [] at = "want" -> l.flags \cap {"HAVE_EXCL", "WANT_EXCL"} # {}
      [] at = "excl" -> l.sharecount # 0 \/ "WANT_UPGRADE" \in l.flags
      [] at = "drain" -> InUse(l)

AcquireShared(p, l, opts) ==
    IF Wanted(l, "share")
    THEN Sleep(p, l, FALSE, "share", opts, shares[p])
    ELSE Return(p, [l EXCEPT !.sharecount = @ + 1], FALSE, shares[p] + 1, excls[p])

\* The lock becomes p's, with flag, the one that kept others off until now, cleared.
GrantExclusive(p, l, wake, flag, s) ==
    IF l.exclusivecount # 0
    THEN Panic
    ELSE Return(p, [l EXCEPT !.flags = (@ \ {flag}) \cup {"HAVE_EXCL"},
                             !.lockholder = p, !.exclusivecount = 1], wake, s, 1)

AcquireUpgrade(p, l, opts, s) ==
    IF Wanted(l, "upgrade")
    THEN Sleep(p, l, FALSE, "upgrade", opts, s)
    ELSE GrantExclusive(p, l, FALSE, "WANT_UPGRADE", s)

AwaitSharers(p, l, wake, opts, s) ==
    IF Wanted(l, "excl")
    THEN Sleep(p, l, wake, "excl", opts, s)
    ELSE GrantExclusive(p, l, wake, "WANT_EXCL", s)

AcquireExclusive(p, l, wake, opts, s) ==
    IF Wanted(l, "want")
    THEN Sleep(p, l, wake, "want", opts, s)
    ELSE AwaitSharers(p, [l EXCEPT !.flags = @ \cup {"WANT_EXCL"}], wake, opts, s)

\* LK_DRAIN sleeps on another channel and is not counted as a waiter.
AcquireDrain(p, l, opts) ==
    IF InUse(l)
    THEN /\ lk' = [l EXCEPT !.flags = @ \cup {"WAITDRAIN"}]
         /\ pc' = [pc EXCEPT ![p] = "drain"]
         /\ asleep' = [asleep EXCEPT ![p] = TRUE]
         /\ ext' = [ext EXCEPT ![p] = opts]
         /\ UNCHANGED <<shares, excls, panicked>>
    ELSE Return(p, [l EXCEPT !.flags = @ \cup {"DRAINING", "HAVE_EXCL"},
                             !.lockholder = p, !.exclusivecount = 1], FALSE, shares[p], 1)

-----------------------------------------------------------------------------
(***************************************************************************)
(* The calls.  A caller keeps to what lock.h asks of it: it upgrades its    *)
(* only shared lock, downgrades and releases what it holds, takes an        *)
(* exclusive lock twice only if that is allowed, never waits for a lock     *)
(* that its own shared lock blocks, and makes no request of a lock that has *)
(* been drained except its release.                                         *)
(***************************************************************************)

MayCall(p, type) ==
    /\ ~panicked
    /\ type \in Requests
    /\ pc[p] = "idle"
    /\ lk.flags \cap {"DRAINING", "DRAINED"} = {}

\* case LK_DOWNGRADE, for a lock already counted s shares of p.
Downgrade(p, l, s) ==
    IF l.lockholder # p \/ l.exclusivecount = 0
    THEN Panic
    ELSE Return(p, [l EXCEPT !.flags = @ \ {"HAVE_EXCL"}, !.lockholder = NoProc,
                             !.sharecount = @ + l.exclusivecount, !.exclusivecount = 0],
                l.waitcount # 0, s + l.exclusivecount, 0)

LockShared(p, opts) ==
    /\ MayCall(p, "SHARED")
    /\ shares[p] = 0 \/ Nested
    /\ shares[p] + excls[p] < MaxHeld
    /\ \/ /\ lk.lockholder # p
          /\ "NOWAIT" \in opts /\ Wanted(lk, "share")
          /\ Return(p, lk, FALSE, shares[p], excls[p])
       \/ /\ lk.lockholder # p
          /\ ~("NOWAIT" \in opts /\ Wanted(lk, "share"))
          /\ AcquireShared(p, lk, opts)
       \/ /\ lk.lockholder = p
          /\ Downgrade(p, [lk EXCEPT !.sharecount = @ + 1], shares[p] + 1)

LockDowngrade(p) ==
    /\ MayCall(p, "DOWNGRADE")
    /\ excls[p] > 0
    /\ Downgrade(p, lk, shares[p])

\* case LK_EXCLUSIVE, also reached from LK_UPGRADE.
Exclusive(p, l, wake, opts, s) ==
    \/ /\ l.lockholder = p
       /\ IF CanRecurse
          THEN Return(p, [l EXCEPT !.exclusivecount = @ + 1], wake, s, excls[p] + 1)
          ELSE Panic
    \/ /\ l.lockholder # p
       /\ "NOWAIT" \in opts /\ (l.flags \cap Busy # {} \/ l.sharecount # 0)
       /\ Return(p, l, wake, s, excls[p])
    \/ /\ l.lockholder # p
       /\ ~("NOWAIT" \in opts /\ (l.flags \cap Busy # {} \/ l.sharecount # 0))
       /\ AcquireExclusive(p, l, wake, opts, s)

LockExclusive(p, opts) ==
    /\ MayCall(p, "EXCLUSIVE")
    /\ shares[p] = 0
    /\ excls[p] > 0 => CanRecurse /\ excls[p] < MaxHeld
    /\ Exclusive(p, lk, FALSE, opts, shares[p])

\* case LK_UPGRADE.
Upgrade(p, opts) ==
    LET l == [lk EXCEPT !.sharecount = @ - 1]
        s == shares[p] - 1
    IN  \/ /\ lk.lockholder = p \/ lk.sharecount = 0
           /\ Panic
        \/ /\ ~(lk.lockholder = p \/ lk.sharecount = 0)
           /\ "NOWAIT" \in opts /\ ("WANT_UPGRADE" \in l.flags \/ l.sharecount > 1)
           /\ Return(p, l, FALSE, s, excls[p])
        \/ /\ ~(lk.lockholder = p \/ lk.sharecount = 0)
           /\ ~("NOWAIT" \in opts /\ l.sharecount > 1)
           /\ "WANT_UPGRADE" \notin l.flags
           /\ AcquireUpgrade(p, [l EXCEPT !.flags = @ \cup {"WANT_UPGRADE"}], opts, s)
        \/ /\ ~(lk.lockholder = p \/ lk.sharecount = 0)
           /\ "NOWAIT" \notin opts
           /\ "WANT_UPGRADE" \in l.flags
           /\ Exclusive(p, l, l.sharecount = 0 /\ l.waitcount # 0, opts, s)

LockUpgrade(p, opts) ==
    /\ MayCall(p, "UPGRADE")
    /\ shares[p] = 1
    /\ Upgrade(p, opts)

\* case LK_EXCLUPGRADE: fails if somebody else is being upgraded.
LockExclUpgrade(p, opts) ==
    /\ MayCall(p, "EXCLUPGRADE")
    /\ shares[p] = 1
    /\ \/ /\ "WANT_UPGRADE" \in lk.flags
          /\ Return(p, [lk EXCEPT !.sharecount = @ - 1], FALSE, 0, excls[p])
       \/ /\ "WANT_UPGRADE" \notin lk.flags
          /\ Upgrade(p, opts)

\* case LK_DRAIN; one process drains at a time.
LockDrain(p, opts) ==
    /\ MayCall(p, "DRAIN")
    /\ shares[p] = 0 /\ excls[p] = 0
    /\ \A q \in Procs : pc[q] # "drain"
    /\ \/ /\ lk.lockholder = p
          /\ Panic
       \/ /\ lk.lockholder # p
          /\ "NOWAIT" \in opts /\ InUse(lk)
          /\ Return(p, lk, FALSE, shares[p], excls[p])
       \/ /\ lk.lockholder # p
          /\ ~("NOWAIT" \in opts /\ InUse(lk))
          /\ AcquireDrain(p, lk, opts)

\* The lock at the release of a drained lock, with LK_REENABLE or without.
Decommissioned(reenable) ==
    IF "DRAINING" \notin lk.flags
    THEN lk
    ELSE [lk EXCEPT !.flags = (@ \ {"DRAINING"}) \cup IF reenable THEN {} ELSE {"DRAINED"}]

\* Mutant: only the release of an exclusive lock wakes those who wait.
ReleasesInSilence(p, reenable) ==
    LET l == Decommissioned(reenable)
    IN  /\ pc[p] = "idle"
        /\ \/ /\ l.exclusivecount # 0 /\ p = l.lockholder
              /\ Return(p, [l EXCEPT !.exclusivecount = 0, !.flags = @ \ {"HAVE_EXCL"},
                                     !.lockholder = NoProc], TRUE, shares[p], 0)
           \/ /\ l.exclusivecount = 0 /\ shares[p] > 0
              /\ Return(p, [l EXCEPT !.sharecount = @ - 1], FALSE, shares[p] - 1, excls[p])

\* case LK_RELEASE
LockRelease(p, reenable) ==
    LET l == Decommissioned(reenable)
        last == l.exclusivecount = 1
    IN  /\ ~panicked
        /\ pc[p] = "idle"
        /\ shares[p] + excls[p] > 0
        /\ \/ /\ l.exclusivecount # 0 /\ p # l.lockholder
              /\ Panic
           \/ /\ l.exclusivecount # 0 /\ p = l.lockholder
              /\ Return(p, [l EXCEPT !.exclusivecount = @ - 1,
                                     !.flags = IF last THEN @ \ {"HAVE_EXCL"} ELSE @,
                                     !.lockholder = IF last THEN NoProc ELSE @],
                        l.waitcount # 0, shares[p], excls[p] - 1)
           \/ /\ l.exclusivecount = 0 /\ l.sharecount # 0
              /\ Return(p, [l EXCEPT !.sharecount = @ - 1], l.waitcount # 0,
                        shares[p] - 1, excls[p])

\* A new lock in the memory of a decommissioned one.
lockinit ==
    /\ ~panicked
    /\ "DRAINED" \in lk.flags
    /\ lk' = Fresh
    /\ UNCHANGED <<pc, asleep, ext, shares, excls, panicked>>

-----------------------------------------------------------------------------

\* Mutant: the flag of a request that failed stays set.
KeepsItsFlag(p) ==
    /\ pc[p] \in OnLock
    /\ Return(p, [lk EXCEPT !.waitcount = @ - 1], FALSE, shares[p], excls[p])

\* tsleep has returned an error, or LK_SLEEPFAIL makes one of its return.  LK_DRAIN then
\* returns at once, without the check for a process that waits to drain.
FailSleep(p) ==
    \/ /\ pc[p] = "drain"
       /\ pc' = [pc EXCEPT ![p] = "idle"]
       /\ asleep' = [asleep EXCEPT ![p] = FALSE]
       /\ ext' = [ext EXCEPT ![p] = {}]
       /\ UNCHANGED <<lk, shares, excls, panicked>>
    \/ /\ pc[p] \in OnLock
       /\ Return(p, [lk EXCEPT !.waitcount = @ - 1,
                               !.flags = @ \ CASE pc[p] = "upgrade" -> {"WANT_UPGRADE"}
                                               [] pc[p] = "excl" -> {"WANT_EXCL"}
                                               [] OTHER -> {}],
                 FALSE, shares[p], excls[p])

\* A signal or a time-out ends the sleep.
Interrupted(p) ==
    /\ ~panicked
    /\ Interruptible
    /\ pc[p] # "idle"
    /\ FailSleep(p)

\* A process that wakeup has made runnable gets the CPU and looks at the lock again.
Resume(p) ==
    LET l == [lk EXCEPT !.waitcount = @ - 1]
    IN  /\ ~panicked
        /\ pc[p] # "idle"
        /\ ~asleep[p]
        /\ \/ "SLEEPFAIL" \in ext[p] /\ FailSleep(p)
           \/ /\ "SLEEPFAIL" \notin ext[p]
              /\ \/ pc[p] = "share" /\ AcquireShared(p, l, ext[p])
                 \/ pc[p] = "upgrade" /\ AcquireUpgrade(p, l, ext[p], shares[p])
                 \/ pc[p] = "want" /\ AcquireExclusive(p, l, FALSE, ext[p], shares[p])
                 \/ pc[p] = "excl" /\ AwaitSharers(p, l, FALSE, ext[p], shares[p])
                 \/ pc[p] = "drain" /\ AcquireDrain(p, lk, ext[p])

Release(p) == \E reenable \in BOOLEAN : LockRelease(p, reenable)

Next ==
    \/ \E p \in Procs :
          \/ \E opts \in Options :
                \/ LockShared(p, opts)
                \/ LockExclusive(p, opts)
                \/ LockUpgrade(p, opts)
                \/ LockExclUpgrade(p, opts)
                \/ LockDrain(p, opts)
          \/ LockDowngrade(p)
          \/ Release(p)
          \/ Resume(p)
          \/ Interrupted(p)
    \/ lockinit

Spec == Init /\ [][Next]_vars

\* A runnable process gets the CPU, and a process releases what it holds.
Fairness == \A p \in Procs : WF_vars(Resume(p)) /\ WF_vars(Release(p))

FairSpec == Spec /\ Fairness

-----------------------------------------------------------------------------
(***************************************************************************)
(* Safety.                                                                  *)
(***************************************************************************)

\* The shared locks the processes hold, numbered for each process.
SharedLocks == {h \in Procs \X (1 .. lk.sharecount + 1) : h[2] <= shares[h[1]]}

\* The lock's own books agree with what its callers were told: lk_sharecount and
\* lk_exclusivecount are the locks they hold, lk_waitcount the processes inside ACQUIRE, and
\* each internal flag is set exactly while somebody is there to clear it.
BooksMatch ==
    /\ TypeOK
    /\ lk.sharecount = Cardinality(SharedLocks)
    /\ \A p \in Procs : excls[p] = IF lk.lockholder = p THEN lk.exclusivecount ELSE 0
    /\ lk.waitcount = Cardinality({p \in Procs : pc[p] \in OnLock})
    /\ "HAVE_EXCL" \in lk.flags <=> \E p \in Procs : excls[p] > 0
    /\ "WANT_UPGRADE" \in lk.flags <=> \E p \in Procs : pc[p] = "upgrade"
    /\ "WANT_EXCL" \in lk.flags <=> \E p \in Procs : pc[p] = "excl"

\* "Only one exclusive lock may exist at a time": whoever was granted an exclusive lock
\* shares the resource with nobody, also after upgrades, interrupted sleeps and drains.
Exclusion ==
    \A p, q \in Procs :
        excls[p] > 0 => shares[q] = 0 /\ (q # p => excls[q] = 0)

\* Callers that keep to the rules of lock.h never make lockmgr panic.
NoPanic == ~panicked

\* While a process sleeps for the lock there is another one that will wake it: one that
\* holds the lock and is not asleep for it itself, or one that has been woken and is
\* about to look at the lock.
SleepersAreAwaited ==
    (\E p \in Procs : asleep[p]) =>
        \E q \in Procs : \/ pc[q] = "idle" /\ shares[q] + excls[q] > 0
                         \/ pc[q] # "idle" /\ ~asleep[q]

\* "wait for all activity on the lock to end": when LK_DRAIN has been granted nobody else
\* holds the lock or is still inside lockmgr for it, so that its memory can be freed.
DrainedIsQuiet ==
    lk.flags \cap {"DRAINING", "DRAINED"} # {} =>
        /\ \A p \in Procs : pc[p] \notin OnLock /\ shares[p] = 0
        /\ Cardinality({p \in Procs : excls[p] > 0}) <= 1

\* "no other processes will have gotten exclusive access to the resource between the time
\* that the upgrade is requested and the time that it is granted": while one process waits
\* to be upgraded no other one is granted an exclusive lock.
UpgradeExcludesWriters ==
    [][\A p, q \in Procs :
          pc[p] = "upgrade" /\ q # p => excls'[q] <= excls[q]]_vars

-----------------------------------------------------------------------------
(***************************************************************************)
(* Liveness.                                                                *)
(***************************************************************************)

\* "Exclusive requests set the LK_WANT_EXCL flag (preventing further shared locks)": readers
\* that come and go cannot keep a process with that flag waiting for ever.
WritersAreServed == \A p \in Procs : pc[p] = "excl" ~> pc[p] # "excl"

\* The abstract lock of readers and writers.
RW == INSTANCE ReadWriteLock WITH readers <- shares, writers <- excls

\* lockmgr implements the abstract lock: every grant, downgrade and release is a step of it.
ImplementsReadWriteLock == RW!Spec

=============================================================================
