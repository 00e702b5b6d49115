--------------------------- MODULE ReadWriteLock ---------------------------
(***************************************************************************)
(* What a lock for readers and writers promises: many may read or one may   *)
(* write.  A process may hold it several times, and the locks of a writer   *)
(* become shared ones without anybody else writing in between.              *)
(***************************************************************************)
EXTENDS Integers

CONSTANT Procs

VARIABLES readers, writers

Init ==
    /\ readers = [p \in Procs |-> 0]
    /\ writers = [p \in Procs |-> 0]

NobodyBut(p) == \A q \in Procs \ {p} : readers[q] = 0 /\ writers[q] = 0

Read(p) ==
    /\ \A q \in Procs : writers[q] = 0
    /\ readers' = [readers EXCEPT ![p] = @ + 1]
    /\ UNCHANGED writers

Write(p) ==
    /\ NobodyBut(p)
    /\ readers[p] = 0
    /\ writers' = [writers EXCEPT ![p] = @ + 1]
    /\ UNCHANGED readers

\* A reader that is alone with its only shared lock writes at once.
Convert(p) ==
    /\ NobodyBut(p)
    /\ readers[p] = 1
    /\ readers' = [readers EXCEPT ![p] = 0]
    /\ writers' = [writers EXCEPT ![p] = 1]

\* All locks of a writer become shared, and it may get one more with that.
Downgrade(p) ==
    /\ writers[p] > 0
    /\ \E extra \in {0, 1} :
          readers' = [readers EXCEPT ![p] = @ + writers[p] + extra]
    /\ writers' = [writers EXCEPT ![p] = 0]

Release(p) ==
    \/ /\ readers[p] > 0
       /\ readers' = [readers EXCEPT ![p] = @ - 1]
       /\ UNCHANGED writers
    \/ /\ writers[p] > 0
       /\ writers' = [writers EXCEPT ![p] = @ - 1]
       /\ UNCHANGED readers

Next == \E p \in Procs : Read(p) \/ Write(p) \/ Convert(p) \/ Downgrade(p) \/ Release(p)

Spec == Init /\ [][Next]_<<readers, writers>>

=============================================================================
