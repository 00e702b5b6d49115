------------------------------ MODULE ToyPaxos ------------------------------
(***************************************************************************)
(* The protocol of toy_paxos/toy_paxos.py: PaxosLeader objects drive        *)
(* proposals for the slots ("instances") of a history of values, and        *)
(* PaxosAcceptor objects answer them, over UDP sockets on one machine.      *)
(*                                                                         *)
(* Every object handles its messages one at a time in the thread of its     *)
(* MessagePump, so a handler is one action.  An exception that escapes a    *)
(* handler ends that thread for good: the pump is then "dead".              *)
(*                                                                         *)
(* The handlers of MSG_ACCEPTOR_REJECT and MSG_ACCEPTOR_UNACCEPT are not    *)
(* here because nothing in the program sends those messages.                *)
(***************************************************************************)
EXTENDS Integers, FiniteSets

CONSTANTS
    Leaders,        \* the port numbers of the PaxosLeader objects
    Acceptors,      \* the PaxosAcceptor objects
    Values,         \* the values clients propose
    Addressed,      \* the leaders clients send their proposals to
    Unstable,       \* the leaders that gain and lose primacy and may be stopped
    Faulty,         \* the acceptors on which fail, recover and stop are called
    Adversarial,    \* TRUE: AdversarialMessagePump, FALSE: MessagePump
    Lossy,          \* TRUE: a datagram may be dropped by a full socket buffer
    MaxInstance,    \* bound: instances are numbered 0 .. MaxInstance
    MaxProposals    \* bound: proposals one leader may start

ASSUME LeadersAssumption ==
    /\ Leaders \subseteq Nat \ {0}
    /\ Addressed \subseteq Leaders
    /\ Unstable \subseteq Leaders

ASSUME AcceptorsAssumption ==
    /\ IsFiniteSet(Acceptors)
    /\ Acceptors # {}
    /\ Faulty \subseteq Acceptors
    /\ Acceptors \cap Leaders = {}

ASSUME ValuesAssumption == Values \subseteq Nat

ASSUME SwitchesAssumption == Adversarial \in BOOLEAN /\ Lossy \in BOOLEAN

ASSUME BoundsAssumption == MaxInstance \in Nat /\ MaxProposals \in Nat

-----------------------------------------------------------------------------

\* Python's None; a client's value is a natural number.
None == -1

\* What findAndFillGaps proposes for an instance it knows no value of.
NoOp == 0

Instances == 0 .. MaxInstance

\* (self.port, self.proposalCount)
ProposalIDs == Leaders \X (1 .. MaxProposals)

\* highestID of a record no protocol was added to.
NoID == <<-1, -1>>

Value == Values \cup {NoOp}

\* Mutant: the quorum size is rounded down.
HalfTheAcceptors == Cardinality(Acceptors) \div 2

\* Mutant: the quorum is all acceptors.
AllTheAcceptors == Cardinality(Acceptors)

\* len(acceptors) / 2 + 1, an integer division in Python 2
getQuorumSize == (Cardinality(Acceptors) \div 2) + 1

Message ==
    [command    : {"PROPOSE", "AGREE", "ACCEPT", "ACCEPTED"},
     source     : Leaders \cup Acceptors,
     to         : Leaders \cup Acceptors,
     proposalID : ProposalIDs,
     instanceID : Instances,
     value      : Value \cup {None},
     sequence   : ProposalIDs \cup {NoID}]

\* PaxosLeaderProtocol; "ABSENT" stands for a key not in record.protocols.
\* highestseen is (0,0) whenever it is read, so it is not part of the state.
LeaderProtocol ==
    [state       : {"ABSENT", "PROPOSED", "AGREED", "ACCEPTED"},
     agreecount  : Nat,
     acceptcount : Nat,
     value       : Value \cup {None}]

NoProtocol ==
    [state |-> "ABSENT", agreecount |-> 0, acceptcount |-> 0, value |-> None]

\* The state of a PaxosAcceptorProtocol, "ABSENT" as above.
AcceptorState == {"ABSENT", "AGREED", "REJECTED", "ACCEPTED"}

\* The thread of a MessagePump: "stopped" by doAbort, "dead" by an exception.
PumpState == {"running", "stopped", "dead"}

-----------------------------------------------------------------------------

VARIABLES
    msgs,               \* the datagrams in flight
    isPrimary,          \* PaxosLeader.isPrimary
    highestInstance,    \* PaxosLeader.highestInstance
    proposalCount,      \* PaxosLeader.proposalCount
    protocols,          \* PaxosLeader.instances[i].protocols[p]
    learned,            \* PaxosLeader.instances[i].value
    leaderPump,         \* PaxosLeader.msgPump
    failed,             \* PaxosAcceptor.failed
    highestID,          \* PaxosAcceptor.instances[i].highestID
    acceptorState,      \* PaxosAcceptor.instances[i].protocols[p].state
    accepted,           \* PaxosAcceptor.instances[i].value
    acceptorPump,       \* PaxosAcceptor.msgPump
    vote                \* history: the value an acceptor accepted in i under p

leaderVars == <<isPrimary, highestInstance, proposalCount, protocols, learned,
                leaderPump>>

acceptorVars == <<failed, highestID, acceptorState, accepted, acceptorPump,
                  vote>>

vars == <<msgs, leaderVars, acceptorVars>>

TypeOK ==
    /\ msgs \subseteq Message
    /\ isPrimary \in [Leaders -> BOOLEAN]
    /\ highestInstance \in [Leaders -> Instances \cup {-1}]
    /\ proposalCount \in [Leaders -> 0 .. MaxProposals]
    /\ protocols \in [Leaders -> [Instances -> [ProposalIDs -> LeaderProtocol]]]
    /\ learned \in [Leaders -> [Instances -> Value \cup {None}]]
    /\ leaderPump \in [Leaders -> PumpState]
    /\ failed \in [Acceptors -> BOOLEAN]
    /\ highestID \in [Acceptors -> [Instances -> ProposalIDs \cup {NoID}]]
    /\ acceptorState \in [Acceptors -> [Instances -> [ProposalIDs -> AcceptorState]]]
    /\ accepted \in [Acceptors -> [Instances -> Value \cup {None}]]
    /\ acceptorPump \in [Acceptors -> PumpState]
    /\ vote \in [Acceptors -> [Instances -> [ProposalIDs -> Value \cup {None}]]]

\* Every leader starts as primary: the demonstration calls setPrimary(True) on both.
Init ==
    /\ msgs = {}
    /\ isPrimary = [l \in Leaders |-> TRUE]
    /\ highestInstance = [l \in Leaders |-> -1]
    /\ proposalCount = [l \in Leaders |-> 0]
    /\ protocols = [l \in Leaders |-> [i \in Instances |-> [p \in ProposalIDs |-> NoProtocol]]]
    /\ learned = [l \in Leaders |-> [i \in Instances |-> None]]
    /\ leaderPump = [l \in Leaders |-> "running"]
    /\ failed = [a \in Acceptors |-> FALSE]
    /\ highestID = [a \in Acceptors |-> [i \in Instances |-> NoID]]
    /\ acceptorState = [a \in Acceptors |-> [i \in Instances |-> [p \in ProposalIDs |-> "ABSENT"]]]
    /\ accepted = [a \in Acceptors |-> [i \in Instances |-> None]]
    /\ acceptorPump = [a \in Acceptors |-> "running"]
    /\ vote = [a \in Acceptors |-> [i \in Instances |-> [p \in ProposalIDs |-> None]]]

-----------------------------------------------------------------------------
(***************************************************************************)
(* The network.  MPHelper queues what recvfrom returns; a datagram is       *)
(* delivered at most once.  Between two sockets of one machine datagrams    *)
(* keep their order.  Of that order the model keeps what the messages show: *)
(* an ACCEPT does not overtake the PROPOSE, and an ACCEPTED not the AGREE,  *)
(* of its own proposal; PROPOSEs of one leader, and so the AGREEs they are  *)
(* answered with, arrive by increasing proposal count.                      *)
(* AdversarialMessagePump delivers in arbitrary order.                      *)
(***************************************************************************)

Overtakes(m, earlier) ==
    /\ earlier.source = m.source
    /\ earlier.to = m.to
    /\ \/ /\ <<earlier.command, m.command>> \in
                 {<<"PROPOSE", "ACCEPT">>, <<"AGREE", "ACCEPTED">>}
          /\ earlier.proposalID = m.proposalID
       \/ /\ earlier.command = m.command
          /\ m.command \in {"PROPOSE", "AGREE"}
          /\ earlier.proposalID[2] < m.proposalID[2]

Deliverable(m) ==
    /\ m \in msgs
    /\ Adversarial \/ \A earlier \in msgs : ~Overtakes(m, earlier)

Lose(m) ==
    /\ Lossy
    /\ msgs' = msgs \ {m}
    /\ UNCHANGED <<leaderVars, acceptorVars>>

-----------------------------------------------------------------------------
(***************************************************************************)
(* PaxosLeader and PaxosLeaderProtocol.                                     *)
(***************************************************************************)

\* The PROPOSE messages of PaxosLeaderProtocol.propose.
Proposals(l, v, p, i) ==
    {[command |-> "PROPOSE", source |-> l, to |-> a, proposalID |-> p,
      instanceID |-> i, value |-> v, sequence |-> NoID] : a \in Acceptors}

Proposed(v) ==
    [state |-> "PROPOSED", agreecount |-> 0, acceptcount |-> 0, value |-> v]

\* Mutant: leaders number their proposals without their port.
SharedNumber(l, n) == <<(CHOOSE k \in Leaders : TRUE), n>>

\* The ID newProposal gives to the n-th proposal of l.
NumberedID(l, n) == <<l, n>>

\* MSG_EXT_PROPOSE at the primary; any other leader ignores it.
RecvExtPropose(l, v) ==
    LET i == highestInstance[l] + 1
        p == NumberedID(l, proposalCount[l] + 1)
    IN  /\ l \in Addressed
        /\ leaderPump[l] = "running"
        /\ isPrimary[l]
        /\ i <= MaxInstance
        /\ proposalCount[l] < MaxProposals
        /\ highestInstance' = [highestInstance EXCEPT ![l] = i]
        /\ proposalCount' = [proposalCount EXCEPT ![l] = @ + 1]
        /\ protocols' = [protocols EXCEPT ![l][i][p] = Proposed(v)]
        /\ msgs' = msgs \cup Proposals(l, v, p, i)
        /\ UNCHANGED <<isPrimary, learned, leaderPump, acceptorVars>>

\* The value of phase two: only the AGREE that completes the quorum is asked,
\* and highestseen is still (0,0) then.
AgreedValue(own, m) ==
    IF /\ m.value # None
       /\ \/ m.sequence[1] > 0
          \/ m.sequence[1] = 0 /\ m.sequence[2] > 0
    THEN m.value
    ELSE own

\* The ACCEPT messages sent when a protocol becomes STATE_AGREED.
AcceptRequests(l, v, p, i) ==
    {[command |-> "ACCEPT", source |-> l, to |-> a, proposalID |-> p,
      instanceID |-> i, value |-> v, sequence |-> NoID] : a \in Acceptors}

\* MSG_ACCEPTOR_AGREE.  A leader that is not primary drops it; a primary that
\* no longer has the protocol fails on the dictionary lookup.
RecvAgree(l, m) ==
    LET p == m.proposalID
        i == m.instanceID
        pr == protocols[l][i][p]
        v == AgreedValue(pr.value, m)
    IN  /\ Deliverable(m)
        /\ m.command = "AGREE"
        /\ m.to = l
        /\ leaderPump[l] = "running"
        /\ \/ /\ ~isPrimary[l] \/ pr.state \in {"AGREED", "ACCEPTED"}
              /\ msgs' = msgs \ {m}
              /\ UNCHANGED <<protocols, leaderPump>>
           \/ /\ isPrimary[l] /\ pr.state = "ABSENT"
              /\ leaderPump' = [leaderPump EXCEPT ![l] = "dead"]
              /\ msgs' = msgs \ {m}
              /\ UNCHANGED protocols
           \/ /\ isPrimary[l] /\ pr.state = "PROPOSED"
              /\ pr.agreecount + 1 < getQuorumSize
              /\ protocols' = [protocols EXCEPT ![l][i][p] =
                                  [pr EXCEPT !.agreecount = @ + 1]]
              /\ msgs' = msgs \ {m}
              /\ UNCHANGED leaderPump
           \/ /\ isPrimary[l] /\ pr.state = "PROPOSED"
              /\ pr.agreecount + 1 >= getQuorumSize
              /\ protocols' = [protocols EXCEPT ![l][i][p] =
                                  [state |-> "AGREED",
                                   agreecount |-> pr.agreecount + 1,
                                   acceptcount |-> pr.acceptcount,
                                   value |-> v]]
              /\ msgs' = (msgs \ {m}) \cup AcceptRequests(l, v, p, i)
              /\ UNCHANGED leaderPump
        /\ UNCHANGED <<isPrimary, highestInstance, proposalCount, learned,
                       acceptorVars>>

\* Mutant: a protocol built to listen in counts the message that made it be built.
CountedWhenBuilt(l, m) ==
    LET pr == protocols[l][m.instanceID][m.proposalID]
    IN  IF pr.state = "ABSENT"
        THEN [state |-> "AGREED", agreecount |-> 0, acceptcount |-> 1,
              value |-> m.value]
        ELSE pr

\* The protocol an ACCEPTED message is applied to: a leader that has none for
\* this proposal pretends it does, waiting for accepts.
ListenedProtocol(l, m) ==
    LET pr == protocols[l][m.instanceID][m.proposalID]
    IN  IF pr.state = "ABSENT"
        THEN [state |-> "AGREED", agreecount |-> 0, acceptcount |-> 0,
              value |-> m.value]
        ELSE pr

\* Mutant: notifyLeader counts an instance instead of taking the maximum.
InstancesCounted(l, i) == highestInstance[l] + 1

\* Mutant: notifyLeader leaves highestInstance alone.
HighestKept(l, i) == highestInstance[l]

\* max(message.instanceID, self.highestInstance)
HighestAfter(l, i) == IF i > highestInstance[l] THEN i ELSE highestInstance[l]

\* MSG_ACCEPTOR_ACCEPT, at every leader, primary or not; with the quorum
\* complete notifyLeader records the value.
RecvAccepted(l, m) ==
    LET p == m.proposalID
        i == m.instanceID
        pr == ListenedProtocol(l, m)
        done == pr.acceptcount + 1 >= getQuorumSize
    IN  /\ Deliverable(m)
        /\ m.command = "ACCEPTED"
        /\ m.to = l
        /\ leaderPump[l] = "running"
        /\ msgs' = msgs \ {m}
        /\ \/ /\ pr.state # "AGREED"
              /\ UNCHANGED <<protocols, learned, highestInstance>>
           \/ /\ pr.state = "AGREED"
              /\ ~done
              /\ protocols' = [protocols EXCEPT ![l][i][p] =
                                  [pr EXCEPT !.acceptcount = @ + 1]]
              /\ UNCHANGED <<learned, highestInstance>>
           \/ /\ pr.state = "AGREED"
              /\ done
              /\ protocols' = [protocols EXCEPT ![l][i][p] =
                                  [state |-> "ACCEPTED",
                                   agreecount |-> pr.agreecount,
                                   acceptcount |-> pr.acceptcount + 1,
                                   value |-> pr.value]]
              /\ learned' = [learned EXCEPT ![l][i] = m.value]
              /\ highestInstance' = [highestInstance EXCEPT ![l] = HighestAfter(l, i)]
        /\ UNCHANGED <<isPrimary, proposalCount, leaderPump, acceptorVars>>

\* The instances findAndFillGaps proposes a no-op for: xrange(1, highestInstance)
\* leaves out instance 0 and the highest one.
Gaps(l) == {i \in 1 .. (highestInstance[l] - 1) : learned[l][i] = None}

\* Mutant: all gaps are filled under one proposal ID.
OneIDForAllGaps(l, i) == NumberedID(l, proposalCount[l] + 1)

\* The gaps are visited in ascending order, each taking the next proposal count.
GapProposalID(l, i) ==
    NumberedID(l, proposalCount[l] + Cardinality({j \in Gaps(l) : j <= i}))

\* recvMessage(None) at a primary, 15 s after the last time: findAndFillGaps,
\* then garbageCollect, which deletes the protocols in STATE_ACCEPTED.  MessagePump
\* passes None after 3 s with an empty queue, AdversarialMessagePump at any time.
FillGapsAndCollect(l) ==
    /\ Adversarial \/ \A m \in msgs : m.to # l
    /\ leaderPump[l] = "running"
    /\ isPrimary[l]
    /\ proposalCount[l] + Cardinality(Gaps(l)) <= MaxProposals
    /\ proposalCount' = [proposalCount EXCEPT ![l] = @ + Cardinality(Gaps(l))]
    /\ protocols' = [protocols EXCEPT ![l] =
           [i \in Instances |-> [p \in ProposalIDs |->
               IF i \in Gaps(l) /\ p = GapProposalID(l, i) THEN Proposed(NoOp)
               ELSE IF protocols[l][i][p].state = "ACCEPTED" THEN NoProtocol
               ELSE protocols[l][i][p]]]]
    /\ msgs' = msgs \cup UNION {Proposals(l, NoOp, GapProposalID(l, i), i) :
                                   i \in Gaps(l)}
    /\ UNCHANGED <<isPrimary, highestInstance, learned, leaderPump, acceptorVars>>

\* HeartbeatListener: nothing heard for two seconds.
GainPrimary(l) ==
    /\ l \in Unstable
    /\ leaderPump[l] # "stopped"
    /\ ~isPrimary[l]
    /\ isPrimary' = [isPrimary EXCEPT ![l] = TRUE]
    /\ UNCHANGED <<msgs, highestInstance, proposalCount, protocols, learned,
                   leaderPump, acceptorVars>>

\* HeartbeatListener: a heartbeat from a leader with a bigger port.
LosePrimary(l) ==
    /\ l \in Unstable
    /\ leaderPump[l] # "stopped"
    /\ isPrimary[l]
    /\ \E other \in Leaders : other > l
    /\ isPrimary' = [isPrimary EXCEPT ![l] = FALSE]
    /\ UNCHANGED <<msgs, highestInstance, proposalCount, protocols, learned,
                   leaderPump, acceptorVars>>

\* PaxosLeader.stop
StopLeader(l) ==
    /\ l \in Unstable
    /\ leaderPump[l] # "stopped"
    /\ leaderPump' = [leaderPump EXCEPT ![l] = "stopped"]
    /\ UNCHANGED <<msgs, isPrimary, highestInstance, proposalCount, protocols,
                   learned, acceptorVars>>

-----------------------------------------------------------------------------
(***************************************************************************)
(* PaxosAcceptor and PaxosAcceptorProtocol.                                 *)
(***************************************************************************)

\* The order of InstanceRecord.addProtocol: by count, then by port.
IsHigher(p, q) == p[2] > q[2] \/ (p[2] = q[2] /\ p[1] > q[1])

\* The test of recvProposal.  (port, count) is the highest ID seen, and count is
\* compared with the port of the proposal, port with its count.
NumberedHigher(p, highest) ==
    \/ highest[2] < p[1]
    \/ highest[2] = p[1] /\ highest[1] < p[2]

\* A failed acceptor ignores and loses every message.
DropWhileFailed(a, m) ==
    /\ Deliverable(m)
    /\ m.to = a
    /\ acceptorPump[a] = "running"
    /\ failed[a]
    /\ msgs' = msgs \ {m}
    /\ UNCHANGED <<leaderVars, acceptorVars>>

\* MSG_PROPOSE: answer AGREE with the accepted value and the highest ID, or
\* reject in silence; either way addProtocol raises highestID.
RecvProposal(a, m) ==
    LET p == m.proposalID
        i == m.instanceID
        highest == highestID[a][i]
    IN  /\ Deliverable(m)
        /\ m.command = "PROPOSE"
        /\ m.to = a
        /\ acceptorPump[a] = "running"
        /\ ~failed[a]
        /\ \/ /\ NumberedHigher(p, highest)
              /\ acceptorState' = [acceptorState EXCEPT ![a][i][p] = "AGREED"]
              /\ msgs' = (msgs \ {m}) \cup
                    {[command |-> "AGREE", source |-> a, to |-> m.source,
                      proposalID |-> p, instanceID |-> i,
                      value |-> accepted[a][i], sequence |-> highest]}
           \/ /\ ~NumberedHigher(p, highest)
              /\ acceptorState' = [acceptorState EXCEPT ![a][i][p] = "REJECTED"]
              /\ msgs' = msgs \ {m}
        /\ highestID' = [highestID EXCEPT ![a][i] = IF IsHigher(p, @) THEN p ELSE @]
        /\ UNCHANGED <<leaderVars, failed, accepted, acceptorPump, vote>>

\* MSG_ACCEPT: accept and tell every leader.  A missing protocol is a failed
\* dictionary lookup and any state but STATE_PROPOSAL_AGREED raises.
RecvAccept(a, m) ==
    LET p == m.proposalID
        i == m.instanceID
    IN  /\ Deliverable(m)
        /\ m.command = "ACCEPT"
        /\ m.to = a
        /\ acceptorPump[a] = "running"
        /\ ~failed[a]
        /\ \/ /\ acceptorState[a][i][p] = "AGREED"
              /\ acceptorState' = [acceptorState EXCEPT ![a][i][p] = "ACCEPTED"]
              /\ accepted' = [accepted EXCEPT ![a][i] = m.value]
              /\ vote' = [vote EXCEPT ![a][i][p] = m.value]
              /\ msgs' = (msgs \ {m}) \cup
                    {[command |-> "ACCEPTED", source |-> a, to |-> l,
                      proposalID |-> p, instanceID |-> i,
                      value |-> m.value, sequence |-> NoID] : l \in Leaders}
              /\ UNCHANGED acceptorPump
           \/ /\ acceptorState[a][i][p] # "AGREED"
              /\ acceptorPump' = [acceptorPump EXCEPT ![a] = "dead"]
              /\ msgs' = msgs \ {m}
              /\ UNCHANGED <<acceptorState, accepted, vote>>
        /\ UNCHANGED <<leaderVars, failed, highestID>>

\* PaxosAcceptor.fail
Fail(a) ==
    /\ a \in Faulty
    /\ ~failed[a]
    /\ failed' = [failed EXCEPT ![a] = TRUE]
    /\ UNCHANGED <<msgs, leaderVars, highestID, acceptorState, accepted,
                   acceptorPump, vote>>

\* PaxosAcceptor.recover
Recover(a) ==
    /\ a \in Faulty
    /\ failed[a]
    /\ failed' = [failed EXCEPT ![a] = FALSE]
    /\ UNCHANGED <<msgs, leaderVars, highestID, acceptorState, accepted,
                   acceptorPump, vote>>

\* PaxosAcceptor.stop, at the moment the pump sees the flag: the message it was
\* waiting for when stop was called is still handled.
StopAcceptor(a) ==
    /\ a \in Faulty
    /\ acceptorPump[a] # "stopped"
    /\ acceptorPump' = [acceptorPump EXCEPT ![a] = "stopped"]
    /\ UNCHANGED <<msgs, leaderVars, failed, highestID, acceptorState, accepted,
                   vote>>

-----------------------------------------------------------------------------

LeaderReceives(l) ==
    \E m \in msgs : RecvAgree(l, m) \/ RecvAccepted(l, m)

AcceptorReceives(a) ==
    \E m \in msgs : RecvProposal(a, m) \/ RecvAccept(a, m) \/ DropWhileFailed(a, m)

Next ==
    \/ \E l \in Leaders :
          \/ \E v \in Values : RecvExtPropose(l, v)
          \/ LeaderReceives(l)
          \/ FillGapsAndCollect(l)
          \/ GainPrimary(l)
          \/ LosePrimary(l)
          \/ StopLeader(l)
    \/ \E a \in Acceptors :
          \/ AcceptorReceives(a)
          \/ Fail(a)
          \/ Recover(a)
          \/ StopAcceptor(a)
    \/ \E m \in msgs : Lose(m)

Spec == Init /\ [][Next]_vars

\* A pump thread that runs keeps taking messages off its queue.
Fairness ==
    /\ \A l \in Leaders : WF_vars(LeaderReceives(l))
    /\ \A a \in Acceptors : WF_vars(AcceptorReceives(a))

FairSpec == Spec /\ Fairness

-----------------------------------------------------------------------------
(***************************************************************************)
(* Safety.                                                                  *)
(***************************************************************************)

\* The acceptors that answered AGREE to proposal p.
Promisers(i, p) == {a \in Acceptors : acceptorState[a][i][p] \in {"AGREED", "ACCEPTED"}}

Voters(i, p, v) == {a \in Acceptors : vote[a][i][p] = v}

IsMajority(S) == 2 * Cardinality(S) > Cardinality(Acceptors)

\* A leader records a value for an instance (notifyLeader) only when a majority of
\* the acceptors has accepted exactly that value under one proposal.  The code counts
\* messages and never looks at who sent them.
LearnedIsChosen ==
    \A l \in Leaders, i \in Instances :
        learned[l][i] # None => \E p \in ProposalIDs : IsMajority(Voters(i, p, learned[l][i]))

\* Two acceptors that accept under the same proposal accept the same value, also when
\* its protocol was garbage collected and rebuilt from a message (recvMessage).
OneValuePerProposal ==
    \A a, b \in Acceptors, i \in Instances, p \in ProposalIDs :
        vote[a][i][p] # None /\ vote[b][i][p] # None => vote[a][i][p] = vote[b][i][p]

\* An acceptor accepts a value (doTransition) only after a majority has agreed to the
\* proposal that carries it: phase two never starts early.
VoteNeedsPromises ==
    \A a \in Acceptors, i \in Instances, p \in ProposalIDs :
        vote[a][i][p] # None => IsMajority(Promisers(i, p))

\* A leader starts no proposal, neither for a client nor to fill a gap, for an instance
\* whose value it knows already, also when it learned it by listening in while another
\* leader was primary (notifyLeader, newProposal, findAndFillGaps).
LearnedIsNotProposed ==
    [][\A l \in Leaders, i \in Instances, p \in ProposalIDs :
          protocols'[l][i][p].state = "PROPOSED" /\ protocols[l][i][p].state # "PROPOSED"
              => learned[l][i] = None]_vars

Majorities == {S \in SUBSET Acceptors : IsMajority(S)}

\* The abstract ledger of votes and learned values.
Ledger == INSTANCE VotingLedger WITH Quorums <- Majorities

\* The protocol implements the ledger: every vote is cast, and every value learned, in a
\* way the ledger allows, whatever counters, states and messages the code uses for it.
ImplementsLedger == Ledger!Spec

\* A proposal ID is never used for two instances, although newProposal and
\* findAndFillGaps draw IDs from one counter in a single run of the handler.
OneInstancePerProposal ==
    \A a, b \in Acceptors, i, j \in Instances, p \in ProposalIDs :
        acceptorState[a][i][p] # "ABSENT" /\ acceptorState[b][j][p] # "ABSENT" => i = j

\* "come to agreement on a history of values": leaders that know a value for an
\* instance know the same one.
Agreement ==
    \A l, k \in Leaders, i \in Instances :
        learned[l][i] # None /\ learned[k][i] # None => learned[l][i] = learned[k][i]

\* "the protcol will still run until more than half have failed": what the messages of the
\* protocol do to acceptors leaves a majority of them handling messages.
MajoritySurvives == IsMajority({a \in Acceptors : acceptorPump[a] # "dead"})

\* "we silently ignore inputs that we're not expecting": a late message does not
\* end the leader's pump.
LeaderSurvives == \A l \in Leaders : leaderPump[l] # "dead"

(***************************************************************************)
(* The inductive invariant behind LearnedIsChosen, OneValuePerProposal and  *)
(* VoteNeedsPromises.                                                       *)
(***************************************************************************)

SameKey(m, n) ==
    /\ m.command = n.command
    /\ m.source = n.source
    /\ m.to = n.to
    /\ m.instanceID = n.instanceID
    /\ m.proposalID = n.proposalID

\* The acceptors whose ACCEPTED for p leader l has taken off the network.
Heard(l, i, p) ==
    {a \in Acceptors :
        /\ vote[a][i][p] # None
        /\ \A m \in msgs :
              ~(/\ m.command = "ACCEPTED" /\ m.source = a /\ m.to = l
                /\ m.instanceID = i /\ m.proposalID = p)}

\* The promisers whose AGREE for p is no longer on the network.
Agreed(i, p) ==
    {a \in Promisers(i, p) :
        \A m \in msgs : ~(/\ m.command = "AGREE" /\ m.source = a
                          /\ m.instanceID = i /\ m.proposalID = p)}

\* v is the value of proposal p for somebody in phase two.
Carries(i, p, v) ==
    \/ \E m \in msgs :
          /\ m.command \in {"ACCEPT", "ACCEPTED"}
          /\ m.instanceID = i /\ m.proposalID = p /\ m.value = v
    \/ \E a \in Acceptors : vote[a][i][p] = v
    \/ \E l \in Leaders :
          protocols[l][i][p].state \in {"AGREED", "ACCEPTED"} /\ protocols[l][i][p].value = v

\* What a message in flight says about its proposal, its sender and its receiver.
MessageOK(m) ==
    LET i == m.instanceID
        p == m.proposalID
    IN  /\ p[2] <= proposalCount[p[1]]
        /\ m.command = "PROPOSE" =>
              /\ m.source = p[1] /\ m.to \in Acceptors /\ m.value # None
              /\ acceptorState[m.to][i][p] = "ABSENT"
        /\ m.command = "AGREE" =>
              /\ m.source \in Acceptors /\ m.to = p[1]
              /\ acceptorState[m.source][i][p] \in {"AGREED", "ACCEPTED"}
        /\ m.command = "ACCEPT" =>
              /\ m.source = p[1] /\ m.to \in Acceptors /\ m.value # None
        /\ m.command = "ACCEPTED" =>
              /\ m.source \in Acceptors /\ m.to \in Leaders /\ m.value # None
              /\ vote[m.source][i][p] = m.value

MessageInv == \A m \in msgs : MessageOK(m)

OneMessage == \A m, n \in msgs : SameKey(m, n) => m = n

UnusedInv ==
    \A i \in Instances, p \in ProposalIDs :
        p[2] > proposalCount[p[1]] =>
            /\ \A l \in Leaders : protocols[l][i][p].state = "ABSENT"
            /\ \A a \in Acceptors : acceptorState[a][i][p] = "ABSENT"

VoteInv ==
    \A a \in Acceptors, i \in Instances, p \in ProposalIDs :
        vote[a][i][p] # None <=> acceptorState[a][i][p] = "ACCEPTED"

\* What the counters of a leader's protocol stand for.
ProtocolOK(l, i, p) ==
    LET pr == protocols[l][i][p]
    IN  /\ pr.state = "PROPOSED" =>
              /\ l = p[1]
              /\ pr.acceptcount = 0
              /\ pr.agreecount <= Cardinality(Agreed(i, p))
        /\ pr.state # "ABSENT" =>
              /\ pr.value # None
              /\ pr.acceptcount <= Cardinality(Heard(l, i, p))

ProtocolInv ==
    \A l \in Leaders, i \in Instances, p \in ProposalIDs : ProtocolOK(l, i, p)

\* A proposal that has a value for phase two.
PhaseTwoOK(i, p, v) ==
    /\ \A w \in Value : Carries(i, p, w) => w = v
    /\ protocols[p[1]][i][p].state # "PROPOSED"
    /\ IsMajority(Promisers(i, p))

CarryInv ==
    \A i \in Instances, p \in ProposalIDs, v \in Value :
        Carries(i, p, v) => PhaseTwoOK(i, p, v)

\* What makes counting messages safe: a proposal ID is used once, every message is sent
\* once, a counter never exceeds the number of acceptors it stands for, and from the
\* moment a proposal has a value for phase two a majority has agreed to it.
SafetyInv ==
    /\ MessageInv
    /\ OneMessage
    /\ UnusedInv
    /\ VoteInv
    /\ ProtocolInv
    /\ CarryInv
    /\ LearnedIsChosen

(***************************************************************************)
(* Liveness.                                                                *)
(***************************************************************************)

\* "the protcol will still run until more than half have failed": a proposal its
\* leader has started is decided, unless that leader stops being a running primary.
ProposalIsDecided ==
    \A l \in Leaders, i \in Instances, p \in ProposalIDs :
        protocols[l][i][p].state = "PROPOSED"
            ~> \/ learned[l][i] # None
               \/ ~isPrimary[l]
               \/ leaderPump[l] # "running"

=============================================================================
