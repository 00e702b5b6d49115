------------------------------- MODULE Listen -------------------------------
(***************************************************************************)
(* A listening socket of 4.4BSD-Lite2/sys/kern: connections in progress    *)
(* wait on so_q0, established ones on so_q until accept1 takes them        *)
(* (uipc_socket.c, uipc_socket2.c, uipc_syscalls.c).  Processes share the  *)
(* socket; they block in accept, or in select (module Select) on it and on *)
(* other sockets.  The protocol makes, establishes and drops connections   *)
(* at interrupt level, between any two steps of the processes.             *)
(*                                                                         *)
(* accept1 sleeps in three places: for a connection, and, when memory is   *)
(* short, in falloc and in m_get(M_WAIT).  The last two come after its     *)
(* test of so_q: the connection can be gone when falloc returns, and the   *)
(* structure can be freed under accept1 while m_get sleeps, because it is  *)
(* then neither queued nor referred to.  The kernel is broken then and the *)
(* model stops.                                                            *)
(***************************************************************************)
EXTENDS Select, Integers, Sequences, Functions

CONSTANTS Conns,      \* the structures of the connections
          Listener,       \* the listening socket, one of Objs
          Backlog,    \* its so_qlimit
          CanSleep,   \* the allocations that may sleep: a subset of {"falloc", "m_get"}
          NoConn

ASSUME ListenAssumption ==
  /\ Listener \in Objs
  /\ Backlog \in Nat
  /\ NoConn \notin Conns

VARIABLES open,       \* the listening socket has not been closed
          q0, q,      \* so_q0 and so_q; so_q0len and so_qlen are their lengths
          so_head,    \* the connections whose so_head is set
          alloc,      \* the structures in use
          so_pcb,     \* the connections the protocol still knows
          fdref,      \* the connections with SS_NOFDREF clear
          cantrcv,    \* SS_CANTRCVMORE of the listening socket
          data,       \* the other objects that have something to read
          acc,        \* where each process is in accept1, and its connection
          files,      \* the connections each process has a descriptor for
          scarce,     \* history: a falloc of accept1 has slept
          broken      \* accept1 took from an empty so_q, or holds a freed socket

sockvars == <<open, q0, q, so_head, alloc, so_pcb, fdref, cantrcv, data>>
accvars == <<acc, files, scarce, broken>>
vars == <<selvars, sockvars, accvars>>

NotIn == [at |-> "no", conn |-> NoConn]

TypeOK ==
  /\ SelectTypeOK
  /\ open \in BOOLEAN /\ cantrcv \in BOOLEAN /\ scarce \in BOOLEAN
  /\ broken \in {"no", "accept", "soaccept"}
  /\ q0 \in Seq(Conns) /\ q \in Seq(Conns)
  /\ \A s \in {so_head, alloc, so_pcb, fdref} : s \subseteq Conns
  /\ data \subseteq Objs \ {Listener}
  /\ acc \in [Procs -> [at : {"no", "wait", "falloc", "m_get"}, conn : Conns \cup {NoConn}]]
  /\ files \in [Procs -> SUBSET Conns]

Init ==
  /\ SelectInit
  /\ open = TRUE /\ cantrcv = FALSE /\ scarce = FALSE /\ broken = "no"
  /\ q0 = <<>> /\ q = <<>>
  /\ so_head = {} /\ alloc = {} /\ so_pcb = {} /\ fdref = {}
  /\ data = {}
  /\ acc = [p \in Procs |-> NotIn]
  /\ files = [p \in Procs |-> {}]

Working == broken = "no"

(* soreadable *)
Ready(o) == IF o = Listener THEN q # <<>> \/ cantrcv ELSE o \in data
-----------------------------------------------------------------------------
(* soqremque: the queue s without c, when c is on it. *)
Soqremque(s, c) ==
  LET n == CHOOSE i \in DOMAIN s : s[i] = c
  IN  IF c \in Range(s)
      THEN [i \in 1 .. (Len(s) - 1) |-> IF i < n THEN s[i] ELSE s[i + 1]]
      ELSE s

(* sorwakeup(head) and wakeup(&head->so_timeo), after so_q has grown. *)
WakeAccepters == Selwakeup(Listener, {p \in Procs : p_wchan[p] = "so_timeo"})

(* sonewconn1(head, 0): a connection in progress.  It is refused, without a *)
(* trace, when the queues are full.                                        *)
Room == Len(q) + Len(q0) <= (3 * Backlog) \div 2

NewSocket(c) ==
  /\ open /\ c \notin alloc /\ Room
  /\ alloc' = alloc \cup {c}
  /\ so_head' = so_head \cup {c}
  /\ so_pcb' = so_pcb \cup {c}
  /\ UNCHANGED <<open, fdref, cantrcv, data, accvars>>

Sonewconn(c) ==
  /\ NewSocket(c)
  /\ q0' = Append(q0, c)
  /\ UNCHANGED <<q, selvars>>

(* sonewconn1(head, SS_ISCONFIRMING): the connection is on so_q at once. *)
SonewconnReady(c) ==
  /\ NewSocket(c)
  /\ q' = Append(q, c)
  /\ WakeAccepters
  /\ UNCHANGED q0

\* Mutant: the connection goes to so_q without leaving so_q0.
SoisconnectedTwice(c) ==
  /\ c \in Range(q0)
  /\ q' = Append(q, c)
  /\ WakeAccepters
  /\ UNCHANGED <<open, q0, so_head, alloc, so_pcb, fdref, cantrcv, data, accvars>>

(* soisconnected of a connection on so_q0. *)
Soisconnected(c) ==
  /\ c \in Range(q0)
  /\ q0' = Soqremque(q0, c)
  /\ q' = Append(q, c)
  /\ WakeAccepters
  /\ UNCHANGED <<open, so_head, alloc, so_pcb, fdref, cantrcv, data, accvars>>

(* sofree: a connection that the protocol has let go of (it is not in pcbs)*)
(* and that no descriptor refers to goes off its queue and is free.        *)
Sofree(c, pcbs, refs) ==
  IF c \in pcbs \cup refs THEN UNCHANGED <<q0, q, so_head, alloc>>
  ELSE /\ q0' = Soqremque(q0, c)
       /\ q' = Soqremque(q, c)
       /\ so_head' = so_head \ {c}
       /\ alloc' = alloc \ {c}

\* Mutant: the socket is freed though a descriptor refers to it.
DroppedAnyway(c) ==
  /\ c \in so_pcb
  /\ so_pcb' = so_pcb \ {c}
  /\ Sofree(c, so_pcb', {})
  /\ UNCHANGED <<open, fdref, cantrcv, data, selvars, accvars>>

(* The protocol gives the connection up: in_pcbdetach. *)
Dropped(c) ==
  /\ c \in so_pcb
  /\ so_pcb' = so_pcb \ {c}
  /\ Sofree(c, so_pcb', fdref)
  /\ broken' = IF \E p \in Procs : acc[p].conn = c THEN "soaccept" ELSE broken
  /\ UNCHANGED <<open, fdref, cantrcv, data, selvars, acc, files, scarce>>
-----------------------------------------------------------------------------
(* A process that is not in a system call can make one. *)
Free(p) == kern.proc = NoProc /\ Working /\ want[p] = {} /\ acc[p].at = "no"

(* soqremque(aso, 1) and, once m_get has a buffer for the name, soaccept. *)
Take(p) ==
  LET c == q[1] IN
  /\ q' = Tail(q)
  /\ so_head' = so_head \ {c}
  /\ \/ /\ acc' = [acc EXCEPT ![p] = NotIn]
        /\ files' = [files EXCEPT ![p] = @ \cup {c}]
        /\ fdref' = fdref \cup {c}
     \/ /\ "m_get" \in CanSleep
        /\ acc' = [acc EXCEPT ![p] = [at |-> "m_get", conn |-> c]]
        /\ UNCHANGED <<files, fdref>>
  /\ UNCHANGED <<open, q0, alloc, so_pcb, cantrcv, data, scarce, broken>>

Fails(p) == acc' = [acc EXCEPT ![p] = NotIn] /\ UNCHANGED <<sockvars, files, scarce, broken>>

(* falloc, with a connection on so_q: a file, none (ENFILE), or a sleep. *)
Falloc(p) ==
  \/ Take(p) /\ UNCHANGED p_wchan
  \/ Fails(p) /\ UNCHANGED p_wchan
  \/ /\ "falloc" \in CanSleep
     /\ acc' = [acc EXCEPT ![p].at = "falloc"]
     /\ scarce' = TRUE
     /\ UNCHANGED <<sockvars, files, broken, p_wchan>>

(* The loop of accept1: a connection, ECONNABORTED, or sleep. *)
AcceptLoop(p) ==
  IF q # <<>> THEN Falloc(p)
  ELSE IF cantrcv THEN Fails(p) /\ UNCHANGED p_wchan
  ELSE /\ acc' = [acc EXCEPT ![p].at = "wait"]
       /\ p_wchan' = [p_wchan EXCEPT ![p] = "so_timeo"]
       /\ UNCHANGED <<sockvars, files, scarce, broken>>

selrest == <<p_select, si_pid, si_coll, collided, kern, want>>

AcceptCall(p) == Free(p) /\ open /\ AcceptLoop(p) /\ UNCHANGED selrest

AcceptWakes(p) ==
  /\ kern.proc = NoProc /\ Working /\ acc[p].at = "wait" /\ p_wchan[p] = NoChan
  /\ AcceptLoop(p)
  /\ UNCHANGED selrest

(* tsleep returns EINTR. *)
AcceptInterrupted(p) ==
  /\ kern.proc = NoProc /\ Working /\ acc[p].at = "wait"
  /\ p_wchan' = [p_wchan EXCEPT ![p] = NoChan]
  /\ Fails(p)
  /\ UNCHANGED selrest

(* falloc returns after a sleep: accept1 goes on with what is on so_q now. *)
FallocReturns(p) ==
  /\ kern.proc = NoProc /\ Working /\ acc[p].at = "falloc"
  /\ IF q = <<>> THEN broken' = "accept" /\ UNCHANGED <<sockvars, acc, files, scarce>>
     ELSE Take(p)
  /\ UNCHANGED selvars

(* m_get returns after a sleep: soaccept. *)
MgetReturns(p) ==
  /\ kern.proc = NoProc /\ Working /\ acc[p].at = "m_get"
  /\ acc' = [acc EXCEPT ![p] = NotIn]
  /\ files' = [files EXCEPT ![p] = @ \cup {acc[p].conn}]
  /\ fdref' = fdref \cup {acc[p].conn}
  /\ UNCHANGED <<open, q0, q, so_head, alloc, so_pcb, cantrcv, data, scarce, broken, selvars>>

(* soclose of an accepted connection; the protocol finishes on its own. *)
CloseConn(p, c) ==
  /\ Free(p) /\ c \in files[p]
  /\ files' = [files EXCEPT ![p] = @ \ {c}]
  /\ fdref' = fdref \ {c}
  /\ Sofree(c, so_pcb, fdref')
  /\ UNCHANGED <<open, so_pcb, cantrcv, data, acc, scarce, broken, selvars>>

(* shutdown(head, SHUT_RD): socantrcvmore. *)
Shutdown(p) ==
  /\ Free(p) /\ open /\ ~cantrcv
  /\ cantrcv' = TRUE
  /\ Selwakeup(Listener, {})
  /\ UNCHANGED <<open, q0, q, so_head, alloc, so_pcb, fdref, data, accvars>>

(* The last close of the listening socket: soclose aborts what is queued.  *)
(* Nobody is in a system call with it, for its descriptor would be open.   *)
CloseHead ==
  LET gone == Range(q0) \cup Range(q) IN
  /\ open /\ \A p \in Procs : Free(p)
  /\ open' = FALSE
  /\ so_pcb' = so_pcb \ gone
  /\ q0' = <<>> /\ q' = <<>>
  /\ so_head' = so_head \ gone
  /\ alloc' = alloc \ gone
  /\ UNCHANGED <<fdref, cantrcv, data, selvars, accvars>>

(* Data comes in on another socket (sorwakeup), and is read. *)
Arrives(o) ==
  /\ o \in Objs \ ({Listener} \cup data)
  /\ data' = data \cup {o}
  /\ Selwakeup(o, {})
  /\ UNCHANGED <<open, q0, q, so_head, alloc, so_pcb, fdref, cantrcv, accvars>>

Reads(p, o) ==
  /\ Free(p) /\ o \in data
  /\ data' = data \ {o}
  /\ UNCHANGED <<open, q0, q, so_head, alloc, so_pcb, fdref, cantrcv, selvars, accvars>>

SelectStep(p) ==
  /\ Working
  /\ \/ SelectWakes(p)
     \/ \E o \in Objs : kern.proc = p /\ SelscanOne(o, Ready(o))
     \/ SelectReturns(p) \/ SelectAgain(p) \/ SelectSleeps(p)
     \/ SelectInterrupted(p)
  /\ UNCHANGED <<sockvars, accvars>>

Protocol ==
  /\ Working
  /\ \/ \E c \in Conns : Sonewconn(c) \/ SonewconnReady(c) \/ Soisconnected(c) \/ Dropped(c)
     \/ \E o \in Objs : Arrives(o)

Process(p) ==
  \/ SelectStep(p)
  \/ AcceptWakes(p) \/ AcceptInterrupted(p) \/ FallocReturns(p) \/ MgetReturns(p)

Next ==
  \/ Protocol
  \/ CloseHead
  \/ \E p \in Procs :
       \/ Process(p)
       \/ AcceptCall(p)
       \/ Shutdown(p)
       \/ Free(p) /\ open /\ UNCHANGED <<sockvars, accvars>>
            /\ \E objs \in SUBSET Objs \ {{}} : SelectCall(p, objs)
       \/ \E c \in Conns : CloseConn(p, c)
       \/ \E o \in Objs : Reads(p, o)

Spec == Init /\ [][Next]_vars
-----------------------------------------------------------------------------
(* A process that sleeps in select has nothing ready to select: no         *)
(* connection on the listening socket and no data, whichever other         *)
(* processes select the same sockets and at whatever point of the scan the *)
(* event came.  One that sleeps in accept1 has no connection to take.      *)
NoMissedEvent ==
  /\ NothingMissed(Ready)
  /\ \A p \in Procs : p_wchan[p] = "so_timeo" => q = <<>>

(* The queues and the sockets agree: a connection is on one queue, once,   *)
(* exactly while its so_head is set, it is allocated, and no descriptor    *)
(* refers to it, so sofree never panics with "sofree dq".  Together they   *)
(* are at most one longer than one and a half times so_qlimit, rounded     *)
(* down: sonewconn compares before it adds.                                *)
QueuesAgree ==
  LET all == q0 \o q IN
  /\ TypeOK
  /\ IsInjective(all)
  /\ Len(all) <= (3 * Backlog) \div 2 + 1
  /\ so_head = Range(all)
  /\ so_head \subseteq alloc \ fdref

(* A descriptor refers to a socket that exists and that sofree will not    *)
(* free, and a connection has one descriptor.  accept1 finds so_q empty    *)
(* after its test only if falloc slept between.                            *)
NoDanglingFile ==
  /\ broken = "accept" => scarce
  /\ \A p \in Procs : files[p] \subseteq alloc \cap fdref
  /\ \A p, r \in Procs : p # r => files[p] \cap files[r] = {}
=============================================================================
