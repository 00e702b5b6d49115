# Verification of the programs in `src/`

TLA+ models of the concurrent parts of this repository, the TLC runs that check them on
small instances, and theorems about them that TLAPS proves for every value of their
constants. The repository is a collection of programs that have nothing to do with each
other; each component below therefore has modules of its own.

## 1. Inventory

| Component | State | Operations | What makes it hard |
|---|---|---|---|
| Paxos protocol, `toy_paxos/toy_paxos.py` | proposals of each leader with their counters, what a leader has learned, the acceptors' records, datagrams | client proposal, AGREE, ACCEPTED, gap filling, garbage collection at a leader; PROPOSE, ACCEPT, fail, recover, stop at an acceptor | two primaries at once, reordered and lost datagrams, exceptions that end a thread |
| Leader election, same file | `isPrimary`, two threads and a queue per leader | heartbeat sent, delivered, heard; time-out; stop | timers that race messages, one thread of three dying |
| `lockmgr`, `4.4BSD-Lite2/sys/kern/kern_lock.c` | `struct lock`, sleeping processes | seven request types with four flags | a woken process runs later than others, error paths, upgrades, draining |
| sleep and wakeup, `kern_synch.c`, with the signals of `kern_sig.c` | sleep queues, process states, pending signals | `tsleep`, `wakeup`, `unsleep`, `endtsleep`, `psignal`, `CURSIG` | time-out against wakeup, a process that is stopped while it sleeps |
| callout queue, `kern_clock.c` | queue of time differences | `timeout`, `untimeout`, `softclock` | overdue entries, corrections of the neighbour |
| select, `sys_generic.c` | `P_SELECT`, `nselcoll`, one recorded process per object | `select`, `selrecord`, `selwakeup` | an event between the scan and the sleep |
| sockets, `uipc_socket*.c`, `uipc_syscalls.c` | two queues of connections, buffers and their locks | `sonewconn1`, `soisconnected`, `accept`, `soclose`, `sblock`, `sbwait` | a queue read before a sleep and used after it |
| TCP and IP, `netinet/` | control blocks, reassembly queues, timers | segment input and output, timers, user requests | lost, reordered, repeated, overlapping data; sequence numbers that wrap; windows that close |
| clox tables, `clox/src/vm/table.c`, `clox/src/ds/dict.c` | open-addressing table, bucket lists | set, get, delete, find, resize | tombstones, the load limit |
| clox interpreter and compiler | syntax trees, byte code | parse, resolve, evaluate | sequential |
| Lua, `lua/src` | heap with colours | allocation, barriers, collector steps | the program changes the heap between two steps of the collector |
| tracing scripts, `kernel_visualization`, `systemtap` | none | – | – |

The correctness properties worth having are, per component: *Paxos* – what is learned was
accepted by a majority, one value per proposal, agreement, a proposal is decided, no message
kills a thread; *election* – one primary, quickly, for good; *lockmgr* – readers exclude
writers, no lost wakeup, no panic, no starvation, a drained lock is quiet; *sleep* – no wakeup is
lost, `tsleep` tells the truth, a kill takes effect; *callouts* – each call at its time, once;
*select* – no event is missed; *sockets* – a connection is on one queue, once, and accepted or
aborted; *TCP* – the reader gets what was written, all of it, and then the end; *tables* – a finite
function; *Lua collector* – nothing reachable is freed, and all garbage is. `PROJECT.json` lists the components and, at their lines, the hazards.

## 2. Modules

| Module | What it is |
|---|---|
| `ToyPaxos` | leaders, acceptors and pumps of `toy_paxos.py` |
| `VotingLedger` | abstract specification: votes and learned values |
| `Heartbeat` | how leaders settle who is primary, with time |
| `Lockmgr` | the lock manager for one CPU |
| `ReadWriteLock` | abstract specification: many readers or one writer |
| `Callout` | the queue of differences of `kern_clock.c`, as operators |
| `Deadlines` | abstract specification: pending calls with the ticks left |
| `Tsleep` | `tsleep`, `wakeup`, `endtsleep` and signals, over `Callout` |
| `Select` | `select`, `selrecord` and `selwakeup` of `sys_generic.c` |
| `Listen` | a listening socket and `accept`, composed with `Select` |
| `TcpReass` | sequence arithmetic and the reassembly queue of `tcp_input.c`, as operators |
| `Tcp` | one direction of a TCP connection over an unreliable network |
| `LuaGC` | the incremental collector of Lua with the program that changes the heap |
| `ToyPaxosProofs`, `HeartbeatProofs`, `LockmgrProofs`, `ListenProofs`, `LuaGCProofs` | the proofs about the modules they are named after |
| `TsleepProofs` | what the operators of `Callout` do to queues of every length, and the proofs about `Tsleep` |
| `TcpLemmas`, `TcpProofs` | the proofs about `Tcp`: each end by itself with `TcpReass`, then both and the theorems |
| `MCToyPaxos`, `MCHeartbeat`, `MCLockmgr`, `MCTsleep`, `MCListen`, `MCLuaGC` | sets and symmetries for TLC |

Operators with a comment that begins with "Mutant:" are wrong variants of the definition that
follows them. They are not part of the specification. Each property has one that breaks it, to
show that the property depends on what the code does.

### ToyPaxos

A handler of a message is one action, because each object handles messages in the one thread
of its pump. `LeaderReceives` and `AcceptorReceives` dispatch as the two `recvMessage` do;
`RecvExtPropose`, `RecvAgree`, `RecvAccepted`, `RecvProposal`, `RecvAccept` are the branches
with everything they call, `FillGapsAndCollect` is the branch without a message.
`protocols[l][i][p]` is the `PaxosLeaderProtocol` of leader `l` for instance `i` and proposal
`p`, `learned` and `highestInstance` are what `notifyLeader` sets, `acceptorState` is the state
of a `PaxosAcceptorProtocol`, `vote` is a history variable of accepted values. An exception
ends a pump, which is then `"dead"`. `GainPrimary` and `LosePrimary` stand for any behaviour of
the heartbeat threads; `Heartbeat` models those.

Left out: the handlers of REJECT and UNACCEPT, since no code sends these messages; the text of
messages; ports that are already in use. `msgs` is a set, as every message is unique; a message
is delivered at most once. `Deliverable` gives the order: any with `AdversarialMessagePump`, and
with `MessagePump` the one two sockets of one machine keep. A message is lost only when `Lossy`
says that a socket buffer may be full. The 15 seconds between two passes of gap filling are left
open: a pass may come whenever the pump calls `recvMessage` without a message.

### Heartbeat

The sender sleeps `SendPeriod` ticks, the listener waits `ListenTimeout` ticks, a heartbeat is
under way at most `MaxDelay` ticks, and a thread acts in the tick it is due. The code has 1 s
and 2 s; `heartbeat` uses 3 and 6 ticks and a delay of 1. `Stop` only sets flags: the threads see
them at the head of their loops, so a sender that is asleep when `stop` is called sends once
more. `leaderless` and `contended` are history variables that count ticks.

### Lockmgr

The machines in the tree have `NCPUS` 1, so the interlock and `PAUSE` are empty and a process
runs in the kernel until it sleeps. A step is a call of `lockmgr`, or a return from `tsleep`
inside one, up to the next `tsleep` or the return. `pc` says at which of the five waits a process
sleeps; `asleep` becomes false at `wakeup`, and the process runs at some later time (`Resume`).
`shares` and `excls` are what the return values have told the callers they hold. Callers keep to
the rules of `lock.h`: they release, upgrade and downgrade what they hold, do not lock against
themselves, make no request of a drained lock, and one process drains at a time. The DIAGNOSTIC
checks are in. `Interrupted` is a signal or a time-out and is possible only if `Interruptible`.

Left out: multiprocessor builds, the simple-lock debugging code at the end of `kern_lock.c`,
`lockstatus` and `lockmgr_printinfo` (they only read), requests by `LK_KERNPROC`.

### Callout, Tsleep

`calltodo` is the linked list of `kern_clock.c` as a sequence; `timeout`, `untimeout` and the loop of
`hardclock` are operators on it, as each runs at `splhigh`. A step of `Tsleep` is what a process does
up to its next `mi_switch`: `TsleepCall` puts it on its queue and, if it catches signals, looks for
one, which may stop it there (`CursigReturns`); `Resume` is the tail of `tsleep`, which may stop it
once more (`LastCursigReturns`); `UserReturn` is the loop of `CURSIG` and `postsig` before user mode.
`Wakeup`, `Psignal` (stop, continue, kill and one other signal), `Hardclock` and `Softclock` come in
between in any order, and the software clock may be late by `MaxLate` ticks. `p_sigcatch` says
whether a process has a handler for SIGCONT. `woken` and `age` are history variables: whether a
`wakeup` has found the process since it was queued, and how long it has been in `tsleep`.

Left out: priorities, swapping, tracing, ignored and masked signals, `callfree`.

### Select, Listen

A process in `select` can be interrupted by the network between the tests of two descriptors, so
`SelscanOne` is a step; other processes run only while it sleeps. `p_select`, `si_pid`, `si_coll` and
`collided` (whether `nselcoll` has changed since the scan began) are the code's. `Listen` adds the
queues `so_q0` and `so_q`, connections that arrive (`Sonewconn`, `SonewconnReady`), are established
(`Soisconnected`) and are given up by the protocol (`Dropped`), `accept1` with the two allocations in
it that may sleep, `shutdown`, `close`, and a second socket with data. `broken` is set when `accept1`
goes on with a connection that is no longer there; the model stops then. `Soqremque` takes a
connection off a queue, `Sofree` does so and frees it, unless the protocol or a descriptor still
refers to it; `CloseHead` empties both queues.

Left out: writing and exceptional conditions in `select`, its time-out (that is `Tsleep`), socket
buffers and their locks, `soconnect`.

### TcpReass, Tcp

`tp` is the control block and send buffer of the writer A, `rp` those of the reader B. `Decide` is
`tcp_output` up to the label `send`, `Sent` what follows, `Again` one turn from the label `again` to the
`goto` at the end, and `Output` all turns; `AckInput` is `tcp_input` at A with header
prediction and the window update of `step6`, `DataInput` is `tcp_input` at B with trimming,
`TCP_REASS` and the FIN; the retransmit, persist and delayed-acknowledgement timers are actions.
Data bytes are numbered, so a byte carries its place in the stream. Sequence numbers are modulo
`SeqMod` and compared as the macros of `tcp_seq.h` do, by the sign of the difference. `net` is a set
of segments that are delivered in any order, any number of times, or never; acknowledgements are
a sequence that may lose any member, and are overtaken only if `AcksInOrder` is false.

`tcp_output` leaves at once when there is no mbuf for a segment (361-364, 374-378, 400-403, to the label
`out`). `Shortages` says for which segments of one call at A this may happen (0: for none), `AckMbufs`
whether it may at B, where TF_ACKNOW (`rp.acknow`) then stays set. `short` is a history variable: A was
short of an mbuf and the retransmit timer has not run since.

Left out: opening, resets, urgent data, keep-alives, options, round-trip times, data from B to A,
and congestion control except that `tcp_output` may find any window of `Cwnds`. Acknowledgements in
order are an assumption about the network, not about the code; `bug_tcp_fin.cfg` shows what happens
without it.

### LuaGC

The heap has a few cells, each with one outgoing reference besides a metatable; a cell is a table, a
weak table, a userdata, a closure, an upvalue, a string or a coroutine, and the main thread has
`MainSlots` slots on its stack. `Singlestep` is `singlestep` with its cases (a `propagate` step marks
one gray object, a sweep step any part of a list); `FullGC` is `luaC_fullgc`. `Program` is what changes
the heap, by instructions and API calls, with the barrier the code has at that place: moves
between slots, new objects and strings, stores into tables, metatables of objects and of basic types,
`OP_CLOSURE` with upvalues of the stack (`NewClosure`) and of the enclosing closure, which are shared
(`NewClosureShared`), `OP_SETUPVAL` (`SetUpval`), `lua_setupvalue` (`SetUpvalue`), `luaF_close` and
`lua_resume`. `SetsShared` says whether `lua_setupvalue` is called for upvalues that closures share. The
two whites are `"white"` (current) and `"dead"` (other) and are exchanged by `Flip`.

Left out: the pacing by `GCthreshold` and debts (the collector may take its step at any time, which
is more than the code does), the shrinking of stacks and of the string table, the order of objects
within a list. Also left out are stores into kinds of objects or fields that the model has not, each of
which calls the barrier for the object it writes to: environments (`lua_setfenv`, `lapi.c:756`), upvalues of C
functions (`lua_replace`, 216 and 221), and prototypes, which only the compiler writes (`lcode.c:244`,
`lparser.c:151`, 199 and 319).

## 3. Runs

| Run | Checks | Result |
|---|---|---|
| `paxos_duel` | `TypeOK`, `LearnedIsChosen`, `OneValuePerProposal`, `VoteNeedsPromises`, `SafetyInv`, `LearnedIsNotProposed`, `ImplementsLedger` | hold, 78,888 states |
| `paxos_gaps` | `OneInstancePerProposal` | holds, 705,871 states |
| `paxos_progress` | `ProposalIsDecided` | holds, 896 states |
| `bug_agreement` | `Agreement` | violated |
| `heartbeat` | `TakeOverIsPrompt`, `ContentionIsShort`, `SettlesOnOne` | hold, 1,470,291 states |
| `lock_everything` | `BooksMatch`, `Exclusion`, `DrainedIsQuiet`, `UpgradeExcludesWriters`, `ImplementsReadWriteLock` | hold, 39,600 states |
| `lock_sharing` | `NoPanic`, `SleepersAreAwaited`, `WritersAreServed` | hold, 7,097 states |
| `sleep_timeouts` | `SleepersAreQueued`, `WakeupsStick`, `TimeoutsEndWithTheSleep`, `ReturnsAreTrue`, `ImplementsDeadlines`, `TimedSleepsEnd`, `KillsEnd` | hold, 40,598 states |
| `sockets` | `NoMissedEvent`, `QueuesAgree`, `NoDanglingFile` | hold, 798,092 states |
| `lua_gc` | `NothingDangles`, `BlackToWhite`, `ListsAgree`, `FinalizersRunOnce`, `GarbageIsFreed` | hold, 306,370 states |
| `bug_lua_setupvalue` | `NothingDangles` | violated |
| `tcp` | `StreamIsIntact`, `NothingIsForgotten`, `EndsAgree`, `WindowIsKept`, `EverythingArrives` | hold, 213,318 states |

The type invariants of `Heartbeat`, `Lockmgr`, `Tsleep`, `Listen`, `LuaGC` and `Tcp` are conjuncts of
`TakeOverIsPrompt`, `BooksMatch`, `SleepersAreQueued`, `QueuesAgree`, `ListsAgree` and `EndsAgree`.

`LearnedIsNotProposed` is about a leader that learns while another one is primary: `notifyLeader` keeps
`highestInstance` ahead, so that neither a client's proposal nor gap filling starts over an instance
whose value the leader knows. It relates what was heard as a backup to what is proposed as primary.

Seven more configurations are kept for the disagreements below and are run by hand:
`bug_leader_dies` and `bug_reordering_kills` (module `MCToyPaxos`), `bug_mute_primary`
(`MCHeartbeat`), `bug_lock_panic` and `bug_lock_exclupgrade` (`MCLockmgr`), `bug_tcp_fin` and
`bug_tcp_mbufs` (`Tcp`). TLC finds each of them violated.

### Disagreements

The violated properties state what a comment or the manual promises. In short:

- *Agreement.* The acceptor compares the count of one proposal with the port of the other
  (`toy_paxos.py:544`), and the leader looks only at the AGREE that completes its quorum (423-429).
- *LeaderSurvives.* An AGREE that arrives after its protocol was collected raises an exception
  that ends the leader's pump (310).
- *MajoritySurvives.* So does an ACCEPT that overtakes its PROPOSE, at an acceptor (506).
- *WorkingPrimary.* The heartbeats of a leader do not depend on its pump: with the pump dead it
  stays primary.
- *NoPanic.* The second wait of `LK_EXCLUSIVE` does not test `LK_HAVE_EXCL` (`kern_lock.c:336`).
  Without upgrades the panic does not happen (`lock_sharing`). With them it takes a downgrade, or
  the release of one of two shared locks, that wakes the waiting process, and an upgrade that is
  granted before this process runs.
- *SleepersAreAwaited.* A failed `LK_EXCLUPGRADE` gives up its shared lock without a wakeup (248).
- *FinComesLast.* "If segment ends after window, drop trailing data (and PUSH and FIN)"
  (`tcp_input.c:788`): the FIN is cleared in the local `tiflags` only (825), while `TCP_REASS` and
  `tcp_reass` return the one of `ti_flags` (94, 197). A segment that is cut therefore still ends the
  stream, and the end is acknowledged with bytes missing. The sender gets past the window because
  header prediction does not move `snd_wl2` (448-485): an older acknowledgement that arrives late
  passes the test at 1128-1131. With acknowledgements in order `tcp` shows `FinComesLast` to hold.
- *IdleWithoutTimers.* "The output side is idle when both timers are zero" (`tcp_output.c:243`): without
  an mbuf for a segment `tcp_output` returns before it has started a timer (559-563), and
  the data waits for the next call. `bug_tcp_mbufs` gets there in four states. `NothingIsForgotten` says
  that this is the only way, and that it lasts no longer than until the retransmit timer runs again.
  Two more things follow from a shortage. A FIN that could not be sent may go out as a probe, which
  is not recorded in `snd_max` (`SentEnd`). And when the shortage comes in fast retransmit, where
  `snd_nxt` is put back to its old value beyond the window, the persist timer may go off for ever and
  send nothing. `EverythingArrives` therefore promises nothing while `short` holds.
- *NothingDangles.* The manual (2.10) says that the collector collects "objects that are no longer
  accessible from Lua" (`lua/doc/manual.html:1998`). `lua_setupvalue` writes to an upvalue, which closures
  may share, and calls the barrier for the closure it was given (`lapi.c:1082`). When the collector has
  marked the upvalue by way of another closure, and the one given is still white, the barrier does
  nothing and the value stored is freed at the end of the cycle, although the upvalue refers to it.
  `OP_SETUPVAL` calls the barrier for the upvalue (`lvm.c:454`). `lua_gc` shows that nothing else goes
  wrong with shared upvalues.

Three more disagreements show in `Lockmgr` without a run of their own. `LK_UPGRADE | LK_NOWAIT`
sleeps when there is exactly one other sharer, since the test at 273 is `sharecount > 1` after the
decrement. When it fails instead, it too gives up a shared lock without a wakeup. And a second
wait that ends with an error (285, 338) clears its `LK_WANT_` flag without a wakeup; no caller in
the tree asks for sleeps that can fail. Therefore `NoPanic` and `SleepersAreAwaited` are checked in
`lock_sharing` without upgrades and without failing sleeps, and the others in `lock_everything` with
all of them.

What else the newer modules show about comments and assertions of the source:

- `tsleep` "Returns 0 if awakened" (`kern_synch.c:274`). A process with a handler for SIGCONT that is
  continued and stopped again in `issignal` returns 0 without a wakeup; `ReturnsAreTrue` says nothing of
  a 0 that is returned to a process with such a handler.
- `accept1` tests `so_qlen` and takes `so_q` after `falloc`, which may sleep; another `accept` may
  have emptied the queue by then, and after `soqremque` the connection may be freed while `m_get`
  sleeps. The model stops there (`broken`); `NoDanglingFile` says that the first needs such a sleep.
- `shutdown` of a listening socket does not wake processes that sleep in `accept`.
- The macro `sblock` (`socketvar.h:192`) has the value 0 even when `sb_lock` fails, because of the
  precedence of the comma; its comment says "Returns error without lock if sleep is interrupted".
- `tcp_reass` queues an empty FIN that is out of order once for each copy that arrives (140-151).
- The assertion `gcstate != GCSfinalize && gcstate != GCSpause` of `luaC_barrierf` (`lgc.c:664`) does
  not always hold: a userdata that waits for its finalizer is black, the program may come to it by a
  table with weak keys, and a white metatable set on it calls the barrier. Nothing goes wrong when
  assertions are off, as they are by default.

### Bounds

`paxos_duel` has two leaders, two acceptors, one instance and one proposal each with different
values: two acceptors make a quorum of two, so each vote and each promise counts, and any
order of two proposals occurs. The leaders gain and lose primacy and may stop. `paxos_gaps` needs several instances, so it
has one leader and one acceptor; four instances and six proposals let one pass fill two gaps,
and port 2 is small enough for counts to reach it, so that proposals are rejected.
`paxos_progress` has three acceptors, one of them faulty, and ordered lossless delivery.
Its one proposal is not rejected: an acceptor that rejects a proposal never says so (560), and
the leader would wait for ever.
`heartbeat` has three leaders, so that one can depose another while a third takes over; the one
with the biggest port may stop or lose its pump. The ratio of its periods is that of the code.
`lock_everything` has three processes (one sleeping in each of two waits and one that acts)
with at most two locks each (`MaxHeld`), so recursion and nesting happen. `lock_sharing` has
four, without nested shared locks: a process that asks for a second one waits for a writer that
waits for the first, which is the caller's mistake.
`sleep_timeouts` has one process that sleeps in all ways and gets all signals, and one whose timeouts
of 1 and 3 ticks put entries before and behind the other's 2; `MaxLate` 1 makes entries overdue.
`sockets` has two processes (a collision needs two selectors, an emptied queue two accepters), two
sockets and three connections with a backlog of 1, so that the third is refused while two are
pending.
`lua_gc` has three cells whose kinds are those of `MCShapes`, chosen so that every kind of object and
each way to refer to another occurs, and cycles of two or more objects; in one of them two closures
share an upvalue. More shapes and a part of the states of four cells were run by hand.
`tcp` has three bytes, written in two or three pieces, in segments of at most two, a window of two
that closes, sequence numbers modulo 16 from 14, which wrap after two bytes, and two segments and
acknowledgements under way (`MaxNet`); the reassembly queue has at most two members (`MaxQueue`). Any call of `tcp_output` at A may
find no mbuf for its first segment; shortages at B (`AckMbufs` of both values, one write of three
bytes, about 117,000 states) were run by hand, and so were, without shortages, streams of four bytes,
windows of three, segments of one byte and two congestion windows for the invariants, up to 630,273
states.
Deadlock is checked except where the system may stop: a Paxos system with nothing left to propose,
a kernel after a panic, sockets after `broken`, and a connection whose end has been acknowledged.

### Fairness

`ToyPaxos`: weak fairness of each pump, a loop that takes the next message (`MessagePump.run`).
`Heartbeat`: weak fairness of the threads and of time together (a tick waits for every thread
that is due, so none is left behind); stopping and exceptions need not happen. `Lockmgr`: weak fairness of a runnable process (the scheduler runs it) and of the
release of a lock, which callers of `lockmgr` owe. Nothing is assumed about new requests.
`Tsleep`: weak fairness of the clock, of its software interrupt and of a process that can run;
nobody has to call `wakeup` or to send a signal. `LuaGC`: the collector takes a step again and again,
as `luaC_checkGC` stands at every allocation; the program need not do anything. `Tcp`: a timer that
has something to send goes off, a process that can read, or see the end, does, and neither does the
network lose everything nor are mbufs always short: when timers go off again and again, one of them
does with room in the network and an mbuf, and among the segments that B can use one arrives. Nothing
is assumed about any single segment.

## 4. Proofs

Every safety invariant, action property and refinement of the passing runs is proved for all values
of the constants; only the seven liveness properties are left to TLC. The assumptions are the named
ASSUMEs of the modules. Two theorems about the lock manager, two about leader election and those about
the collector of Lua and TCP have a hypothesis besides, which is part of the statement. Both are given below.

The invariants that make the proofs go through were checked by TLC on instances of the runs as well,
where TLC can evaluate them. A module that says `USE Zenon` tries that prover
for each step that does not name another; the arithmetic is done by SMT.

In the proofs about TCP, a lemma that serves one other lemma only is a step of that one's proof.

What a loop of the code computes for inputs of any length is proved by induction over the natural
numbers, in the form of their well-ordering: a set of them that is not empty has a least member
(from `WFMin` of the library), so a set that contains 0 and with each member the next is all of `Nat`
(`NatSetInduction`). The loops of `Callout`, `TcpReass` and `Tcp` are written for this as functions on
`0 .. n` or as the first place where something holds. In the two biggest developments the lemmas take
the facts of the library as a hypothesis (`WellOrdered` of `TcpLemmas`, `Counting` of `LuaGCProofs`);
the library is brought in behind them, and `NatIsWellOrdered` and `CountingHolds` discharge it, so that
no theorem has it.

### The Paxos system

Ports are positive numbers, the set of
acceptors is finite, not empty and disjoint from the leaders, values are numbers. Nothing is
assumed about the numbers of leaders, acceptors, instances and proposals. Both orders of delivery,
with and without loss, are covered, as are leaders and acceptors that come and go.

| Theorem | Module | States |
|---|---|---|
| `TypeCorrect` | `ToyPaxosProofs` | `Spec => []TypeOK` |
| `LearnedIsNeverProposed` | `ToyPaxosProofs` | `Spec => LearnedIsNotProposed` |
| `SafetyInvariant` | `ToyPaxosProofs` | `Spec => []SafetyInv` |
| `LearnedIsAlwaysChosen` | `ToyPaxosProofs` | `Spec => []LearnedIsChosen` |
| `OneValueAlways` | `ToyPaxosProofs` | `Spec => []OneValuePerProposal` |
| `PromisesPrecedeVotes` | `ToyPaxosProofs` | `Spec => []VoteNeedsPromises` |
| `ImplementsTheLedger` | `ToyPaxosProofs` | `Spec => ImplementsLedger` |
| `IDsStandForOneInstance` | `ToyPaxosProofs` | `Spec => []OneInstancePerProposal` |

The code counts messages and never looks at who sent them. That this is safe is not inductive
by itself. `SafetyInv` adds what makes it so:

- `OneMessage`, `MessageInv`: a message is determined by its kind, sender, receiver, instance
  and proposal, and is true of its two ends (an ACCEPTED is a vote that was cast; the acceptor
  a PROPOSE goes to has no state for that proposal yet);
- `UnusedInv`: an ID above a leader's count has left no trace, so `newProposal` may use it;
- `ProtocolInv`: `agreecount` is at most the number of acceptors whose AGREE has been taken off
  the network, and `acceptcount` at most that of acceptors whose ACCEPTED has been. Because a
  message is consumed by the step that counts it, each acceptor is counted once;
- `VoteInv`: an acceptor has voted under a proposal exactly if its protocol is ACCEPTED, so it
  votes once;
- `CarryInv`: from the moment a proposal has a value for phase two, in a message, a vote or a
  protocol, this is its only value and a majority has agreed to the proposal.

The proof treats first the steps that only lose messages, forget protocols and start proposals
(primacy, stop, failure, a client's proposal, gap filling and collection), then a counted AGREE, a
completed quorum and a counted ACCEPTED at a leader, then a promise and a vote at an acceptor. It
shows that each handler is one of these, and derives the theorems. The
refinement maps `vote` and `learned` to the variables of the ledger: a step that casts a vote or
learns a value is a step of the ledger, all others leave both unchanged.

`LearnedIsNotProposed` rests on `LearnedBelowNext`: a value is learned only for instances up to
`highestInstance`. A client's proposal is for the next one, and gap filling leaves out what is learned.

`OneInstancePerProposal` speaks of acceptors only. `UseInv` says the same of everybody who can know
an ID, messages under way and leaders included. A pass of gap filling starts several proposals at
once; that they get different IDs is what has to be shown of it.

`Agreement` is not provable, since `bug_agreement` refutes it: the ledger promises only that
each learned value was accepted by a majority under one proposal.

### The lock manager

The processes are finitely many and `LK_NOPROC` is none of them. Nothing else is assumed: all but
the last two theorems hold for any mix of requests and options, with and without recursion, nested shared locks
and sleeps that fail, and for any `MaxHeld`.

| Theorem | Module | States |
|---|---|---|
| `LockInvariant` | `LockmgrProofs` | `Spec => []LockInv` |
| `BooksAlwaysMatch` | `LockmgrProofs` | `Spec => []BooksMatch` |
| `ExclusionAlways` | `LockmgrProofs` | `Spec => []Exclusion` |
| `DrainedIsAlwaysQuiet` | `LockmgrProofs` | `Spec => []DrainedIsQuiet` |
| `UpgradeAlwaysExcludes` | `LockmgrProofs` | `Spec => UpgradeExcludesWriters` |
| `ImplementsTheLock` | `LockmgrProofs` | `Spec => ImplementsReadWriteLock` |
| `NoPanicWithoutUpgrades` | `LockmgrProofs` | `NoUpgrades`: `Spec => []NoPanic` |
| `SleepersAreAlwaysAwaited` | `LockmgrProofs` | `PlainCalls`: `Spec => []SleepersAreAwaited` |

`BooksMatch` is not inductive. `LockInv` adds that `lk_sharecount` is 0 while `lk_exclusivecount`
is not, that no upgrade waits then, that at most one process owns each of `LK_WANT_UPGRADE` and
`LK_WANT_EXCL` and at most one drains, and that nobody is inside lockmgr for a drained lock, which
is held once before its release and not at all after it. The shared locks are counted as pairs of
a process and a number, so that the counters are cardinalities and a grant or a release adds or
removes one element; only a downgrade adds several, to an empty set.

A call changes the lock more than once before it returns or sleeps: an upgrade gives up its shared
lock, sets its flag and then may have to wait. `InMiddle` is the invariant in the midst of that, with
the running process taken out of `lk_waitcount` and its new flag put in. The lemmas show
that each outcome (return, sleep, panic) leads from there back to `LockInv`, that each wait, entered
by a call or after `tsleep`, ends in one of these, and the same of each call. The same lemmas show that what a process holds changes only as `ReadWriteLock` allows and that
nobody becomes a writer while another process waits to be upgraded.
`LockInv` quantifies over all numbers of locks, so TLC cannot evaluate it; it checks the properties
themselves on `lock_everything`.

`NoPanic` and `SleepersAreAwaited` are not provable for all requests: `bug_lock_panic` and
`bug_lock_exclupgrade` refute them. `NoUpgrades` says that nobody asks for an upgrade; then nobody is
granted the lock while a process waits with `LK_WANT_EXCL` set (`PlainInv`), and it cannot panic when
it runs. `PlainCalls` also excludes second shared locks, interruptible sleeps and `LK_SLEEPFAIL`, as
`lock_sharing` does. `SleepInv` then says what a sleeper waits for at each place: a sharer for
`LK_WANT_EXCL`, `LK_WAITDRAIN` still set for a drain, and for the others a holder or a process that was
woken and has not looked at the lock yet.

### Leader election

Leaders are positive numbers, finitely many, and any of them may stop or lose its pump, as
`Stoppable` and `Crashing` say. A heartbeat that is sent on time arrives before a time-out
(`TimesAssumption`).

| Theorem | Module | States |
|---|---|---|
| `TakeOverIsAlwaysPrompt` | `HeartbeatProofs` | `ShortDelays`: `Spec => []TakeOverIsPrompt` |
| `ContentionIsAlwaysShort` | `HeartbeatProofs` | `LongTimeout`: `Spec => []ContentionIsShort` |

`ShortDelays` is `2 * MaxDelay < ListenTimeout`, `LongTimeout` is `SendPeriod + 2 * MaxDelay <
ListenTimeout`. With the 1 s and 2 s of the code this means delays under 1 s and under half a second.
They enter where the last heartbeats of a leader that was stopped or deposed restart the waits of
the others: with longer delays some could be restarted and others not, over and over.

`TakeOverInv` says how long traces of the former primary last: a stopped leader's sender wakes once
more within `SendPeriod`, its heartbeat is under way for `MaxDelay`, and what it deposes may have sent
one more. After `SendPeriod + 2 * MaxDelay` nothing is heard while there is no primary and every listener
waits on, so one times out, and stays. `SettleInv` says that among several primaries somebody sends a
heartbeat in each period, that everybody hears it, so no third one appears, and that for each pair
the bigger one's next heartbeat is at most so many ticks away.

### Sleep, timeouts and signals

Sleeps are by known processes on channels with timeouts in `Nat` (`SleepsAssumption`), signals are the
four kinds and `MaxLate` is a number (`SignalsAssumption`). Processes, channels, sleeps and lateness may
be as many as one likes.

| Theorem | Module | States |
|---|---|---|
| `TimeoutOfQueue`, `UntimeoutOfQueue` | `TsleepProofs` | what `timeout` and `untimeout` do to a queue of any length |
| `LeftOfTicked`, `DueIsFirst`, `TailOfQueue` | `TsleepProofs` | the same of `hardclock` and `softclock` |
| `Inductive` | `TsleepProofs` | `Spec => []IInv` |
| `SleepersStayQueued` | `TsleepProofs` | `Spec => []SleepersAreQueued` |
| `NoWakeupIsLost` | `TsleepProofs` | `Spec => []WakeupsStick` |
| `TimeoutsStayWithTheSleep` | `TsleepProofs` | `Spec => []TimeoutsEndWithTheSleep` |
| `TsleepTellsTheTruth` | `TsleepProofs` | `Spec => ReturnsAreTrue` |
| `QueueImplementsDeadlines` | `TsleepProofs` | `Spec => ImplementsDeadlines` |

The five facts about the queue are stated in terms of `Left`, the set of calls with the ticks each has
left: the sum of the differences up to its entry, and its own, negative time when it is overdue. They
need that the queue is `Proper`: no call has two entries, and the entries that are due come first, the
one longest overdue at the head. With them the refinement of `Deadlines` is one step per action, since the
mapping is `Left(calltodo)`.

`IInv` adds to the properties: what the locals of `tsleep` say at each place where it may be suspended
(`FrameInv`), in which states a process can be there (`StatInv`), that one outside `tsleep` has nothing
left of it (`AwakeInv`), why a process that was queued is no longer (`ReasonInv`), and that a pending
`endtsleep` belongs to the sleep its process is in and is as old as that (`TimerInv`). The last one is
what makes the returned EWOULDBLOCK true.

### Sockets and select

There is one listening socket with any backlog; `NoProc`, `NoConn` and the channels are what their names
say (`SelectAssumption`, `ListenAssumption`). Processes, objects and connections are any sets.

| Theorem | Module | States |
|---|---|---|
| `Inductive` | `ListenProofs` | `Spec => []IInv` |
| `NoEventIsMissed` | `ListenProofs` | `Spec => []NoMissedEvent` |
| `QueuesStayInOrder` | `ListenProofs` | `Spec => []QueuesAgree` |
| `NoFileDangles` | `ListenProofs` | `Spec => []NoDanglingFile` |

`WaitInv` carries the first: a process that sleeps in `select` is recorded at every object it asked for,
alone or by `SI_COLL`, and none of them is ready; a process in the midst of its scan is recorded at
those it has passed, unless `P_SELECT` was cleared or `nselcoll` has changed, in which case it will not
sleep. `BookInv` says which connections are on which queue, `FileInv` that a connection which
`accept1` has taken off the queue and not yet given a descriptor is nobody else's.

### The collector of Lua

The cells are finitely many, of any kinds that `Shapes` allows, and the main thread has any number of
stack slots (`HeapAssumption`, `SlotsAssumption`). All theorems have the hypothesis `~SetsShared`: where
`lua_setupvalue` is called for shared upvalues, `bug_lua_setupvalue` refutes `NothingDangles`.

| Theorem | Module | States |
|---|---|---|
| `Inductive` | `LuaGCProofs` | `~SetsShared`: `Spec => []GCInv` |
| `ColoursAndListsAgree` | `LuaGCProofs` | `~SetsShared`: `Spec => []ListsAgree` |
| `BlackNeverSeesWhite` | `LuaGCProofs` | `~SetsShared`: `Spec => []BlackToWhite` |
| `NothingEverDangles` | `LuaGCProofs` | `~SetsShared`: `Spec => []NothingDangles` |
| `FinalizersRunOnlyOnce` | `LuaGCProofs` | `~SetsShared`: `Spec => FinalizersRunOnce` |

`NothingDangles` speaks of what the program can reach, which no step preserves by itself. `LiveInv` is
the local form: what is neither freed nor dead refers only to such objects. `HeapInv` says which kind
of object refers to which, `PhaseInv` what the colours and lists mean in each state of the collector.
`OwnersAreBlack` is what `lua_setupvalue` needs: an upvalue that is marked was reached from a closure
that is black by now. If no other closure shares the upvalue, this is the one `lua_setupvalue` was
given, and the barrier for it marks the value.
Marking is taken as a relation that turns white objects gray or black and leaves the rest alone, so
the depth of the recursion of `reallymarkobject` does not matter; that `propagateall` leaves nothing gray
follows from counting, as each of its rounds but the last marks a white object. The atomic step is
where most comes together: after it the objects that stay white are those nothing strong leads to,
weak tables have lost their entries for them, and the two whites are exchanged.

### TCP

Sizes are numbers, a segment has room for a byte, and the congestion window is not 0
(`SizesAssumption`). The stream, its FIN and a window fit in half the sequence space
(`SpaceAssumption`): the network of the model delivers a segment as late as it likes, and one that is
older than that is new to `SEQ_LT`. The code relies on segments not living that long. All
theorems have two hypotheses: `AcksInOrder`, without which `bug_tcp_fin` refutes `StreamIsIntact`, and
`Shortages = {0}`, that is, A's `tcp_output` finds its mbufs. B may be short of them (`AckMbufs` is
arbitrary). Under the second, `TcpNothingIsForgotten` is `IdleWithoutTimers` with the timers apart; what
holds in spite of shortages at A is only model-checked.
Nothing is assumed about lost, repeated and reordered segments and lost acknowledgements, about
`MaxNet` and `MaxQueue`, and about the first sequence number, so the numbers may wrap at any place.

| Theorem | Module | States |
|---|---|---|
| `Invariance` | `TcpProofs` | `AcksInOrder`, `Shortages = {0}`: `Spec => []IInv` |
| `TcpStreamIsIntact` | `TcpProofs` | `AcksInOrder`, `Shortages = {0}`: `Spec => []StreamIsIntact` |
| `TcpNothingIsForgotten` | `TcpProofs` | `AcksInOrder`, `Shortages = {0}`: `Spec => []NothingIsForgotten` |
| `TcpEndsAgree` | `TcpProofs` | `AcksInOrder`, `Shortages = {0}`: `Spec => []EndsAgree` |
| `TcpWindowIsKept` | `TcpProofs` | `AcksInOrder`, `Shortages = {0}`: `Spec => []WindowIsKept` |
| `WindowNeverShrinks` | `TcpProofs` | `AcksInOrder`, `Shortages = {0}`: `Spec => [][Right(rp) <= Right(rp')]_vars` |

`Pos` is the place of a sequence number in the stream. `TcpLemmas` first shows that `Add`, `Diff` and the
comparisons agree with the order of places within half the sequence space; after that the proofs
speak of natural numbers. A segment is a piece of the stream (`Pieces`): its bytes are those of its
places. So is what is left of it after trimming, at either end.

`IInv` has a part for each end, one for the segments and one for the acknowledgements.

- `Sender`: `snd_wl2 <= snd_una <= snd_nxt <= snd_max`, `so_snd` is the stream from `snd_una` to what was
  written, a FIN is beyond its end, and `snd_nxt` is within the window, or behind a FIN that was;
  `Timed`: a timer runs for what is not acknowledged. `tcp_output` is shown to keep this over all its
  turns (`OutputKeeps`), after one turn has been reduced to arithmetic on places.
- `Receiver`: what was read and `so_rcv` are the stream up to `rcv_nxt`, less the FIN; the window
  offered fits in `so_rcv`; the queue is ordered, without overlap, ahead of `rcv_nxt`, and fits in
  `so_rcv`. `TakesFitting` shows that `Insert`, `Presented` and `Bytes` of `TcpReass` keep this for
  queues of any length.
- `Wire`: every segment under way is a piece of what A has sent, and one with a FIN ends within the
  window B has offered. So trimming at the window never meets a FIN (`FinComesLast`).
- `Chain`: the acknowledgements and the right edges of the windows they offer are in order, between
  those that A has heard of and those that B would send now. This is where `AcksInOrder` is used: it
  keeps A within the window, `Wire` after it, and the stream intact.

`WindowNeverShrinks` is the rule of `tcp_output.c:445`, "Don't shrink window", on which `Chain` rests.

### Only model-checked

`ProposalIsDecided`, `SettlesOnOne`, `WritersAreServed`, `TimedSleepsEnd`, `KillsEnd`, `GarbageIsFreed` and
`EverythingArrives`: they are liveness properties under fairness, which is beyond the prover. The
refinements are proved without the liveness of the abstract specifications, which state none.

## 5. Not modelled

The models cover `toy_paxos.py`, the lock manager, sleeping and waking with timeouts and signals,
select and accept, the data path of TCP and the collector of Lua: some 4,000 lines of a tree of
more than 500,000, most of it device drivers, file systems and machine-dependent code.

What could be added faithfully: opening and closing of TCP connections and both directions at once;
fragment reassembly (`ip_input.c`), whose overlap arithmetic is that of `tcp_reass`; socket buffers
with their locks (`soreceive` copies at low interrupt level while the protocol appends); the
descriptors in flight of `uipc_usrreq.c`; the life cycle of vnodes over `Lockmgr`; the tables of
clox (tombstones count in the load; `table_find_string` stops at one; `dict_remove` unlinks through
a null pointer for the first pair of a bucket), which are sequential; and a composition of
`Heartbeat` with `ToyPaxos` over `isPrimary`, which `ToyPaxos` now lets change at any time, more
freely than the composition would.

The rest of the BSD kernel (file systems, virtual memory, process creation, terminals, drivers, other
protocol families) is out of scope or machine-dependent; mbufs and checksums are memory layout;
the harness in `4.4BSD-Lite2/lib` runs the stack as one sequential process. The clox interpreter
and compiler and the rest of Lua are sequential and reached well by test programs. The tracing
scripts keep no state.
