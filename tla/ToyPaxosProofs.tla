--------------------------- MODULE ToyPaxosProofs ---------------------------
(***************************************************************************)
(* Proofs about ToyPaxos, for any numbers of leaders, acceptors, instances *)
(* and proposals.  The type invariant and the books of the leaders come    *)
(* first; then SafetyInv, through the steps that count nothing, the steps  *)
(* of a leader that count and the steps of an acceptor; then the theorems. *)
(***************************************************************************)
EXTENDS ToyPaxos, FiniteSetTheorems, TLAPS

\* Steps are proved by Zenon unless they name another prover.
USE Zenon

\* highestInstance is an instance number or still -1.
LEMMA HighestInstanceType ==
    ASSUME TypeOK, NEW l \in Leaders
    PROVE  highestInstance[l] \in Int /\ highestInstance[l] <= MaxInstance
<1>1. highestInstance[l] \in Instances \cup {-1}
  BY DEF TypeOK
<1> QED BY <1>1, BoundsAssumption, SMT DEF Instances

\* findAndFillGaps starts finitely many proposals.
LEMMA GapsFinite ==
    ASSUME TypeOK, NEW l \in Leaders
    PROVE  IsFiniteSet(Gaps(l))
<1>1. IsFiniteSet(1 .. (highestInstance[l] - 1))
  BY HighestInstanceType, FS_Interval, SMT
<1>2. Gaps(l) \in SUBSET (1 .. (highestInstance[l] - 1))
  BY DEF Gaps
<1> QED BY <1>1, <1>2, FS_Subset

\* findAndFillGaps gives every gap a proposal ID above the leader's count and within
\* the bound its handler respects.
LEMMA GapIDs ==
    ASSUME TypeOK, NEW l \in Leaders,
           proposalCount[l] + Cardinality(Gaps(l)) <= MaxProposals,
           NEW i \in Gaps(l)
    PROVE  /\ GapProposalID(l, i) \in ProposalIDs
           /\ GapProposalID(l, i)[1] = l
           /\ GapProposalID(l, i)[2] > proposalCount[l]
           /\ GapProposalID(l, i)[2] <= proposalCount[l] + Cardinality(Gaps(l))
           /\ i \in Instances
<1> DEFINE below == {j \in Gaps(l) : j <= i}
<1>1. highestInstance[l] \in Int /\ highestInstance[l] <= MaxInstance
  BY HighestInstanceType
<1>2. IsFiniteSet(Gaps(l)) /\ Gaps(l) \subseteq 1 .. (highestInstance[l] - 1)
  BY GapsFinite DEF Gaps
<1>3. /\ IsFiniteSet(below)
      /\ Cardinality(below) <= Cardinality(Gaps(l))
      /\ Cardinality(below) \in Nat
      /\ Cardinality(Gaps(l)) \in Nat
  <2>1. below \in SUBSET Gaps(l)
    OBVIOUS
  <2>2. IsFiniteSet(below) /\ Cardinality(below) <= Cardinality(Gaps(l))
    BY <1>2, <2>1, FS_Subset
  <2> QED BY <1>2, <2>2, FS_CardinalityType
<1>4. i \in Int
  BY <1>1, <1>2, SMT
<1>5. Cardinality(below) # 0
  <2>1. i \in below
    BY <1>4, SMT
  <2> QED BY <1>3, <2>1, FS_EmptySet
<1>6. proposalCount[l] \in Nat
  BY BoundsAssumption, SMT DEF TypeOK
<1>7. proposalCount[l] + Cardinality(below) \in 1 .. MaxProposals
  BY <1>3, <1>5, <1>6, BoundsAssumption, SMT
<1>8. GapProposalID(l, i) = <<l, proposalCount[l] + Cardinality(below)>>
  BY DEF GapProposalID, NumberedID
<1> HIDE DEF below
<1> QED
  BY <1>1, <1>2, <1>3, <1>5, <1>6, <1>7, <1>8, BoundsAssumption, SMT DEF ProposalIDs, Instances

\* What an update of a function of functions, the form of all state kept per instance
\* and per proposal, is and does.
LEMMA Update2 ==
    ASSUME NEW S, NEW T, NEW V, NEW f \in [S -> [T -> V]],
           NEW x \in S, NEW y \in T, NEW v \in V
    PROVE  /\ [f EXCEPT ![x][y] = v] \in [S -> [T -> V]]
           /\ \A a \in S, b \in T :
                 [f EXCEPT ![x][y] = v][a][b] = IF a = x /\ b = y THEN v ELSE f[a][b]
OBVIOUS

\* Updating one entry of a three-level table keeps its type.
LEMMA Update3 ==
    ASSUME NEW S, NEW T, NEW U, NEW V, NEW f \in [S -> [T -> [U -> V]]],
           NEW x \in S, NEW y \in T, NEW z \in U, NEW v \in V
    PROVE  /\ [f EXCEPT ![x][y][z] = v] \in [S -> [T -> [U -> V]]]
           /\ \A a \in S, b \in T, c \in U :
                 [f EXCEPT ![x][y][z] = v][a][b][c] =
                     IF a = x /\ b = y /\ c = z THEN v ELSE f[a][b][c]
BY SMT

-----------------------------------------------------------------------------
(***************************************************************************)
(* Types.  Each handler preserves the type invariant.                      *)
(***************************************************************************)

\* None is no value, a no-op is one, and new protocol records are well typed.
LEMMA ConstantTypes ==
    /\ None \in Int /\ NoOp \in Value /\ None \notin Value
    /\ \A l \in Leaders : l \in Nat /\ l > 0
    /\ NoProtocol \in LeaderProtocol
    /\ \A v \in Value : Proposed(v) \in LeaderProtocol
BY LeadersAssumption, ValuesAssumption, SMT
   DEF None, NoOp, Value, NoProtocol, LeaderProtocol, Proposed

\* The requests a leader sends are messages.
LEMMA MessageTypes ==
    ASSUME NEW l \in Leaders, NEW p \in ProposalIDs, NEW i \in Instances
    PROVE  /\ \A v \in Value : Proposals(l, v, p, i) \subseteq Message
           /\ \A v \in Value \cup {None} : AcceptRequests(l, v, p, i) \subseteq Message
BY SMT DEF Proposals, AcceptRequests, Message

\* recvMessage on EXT_PROPOSE, with newProposal, keeps the types.
LEMMA RecvExtProposeTypes ==
    ASSUME TypeOK, NEW l \in Leaders, NEW v \in Values, RecvExtPropose(l, v)
    PROVE  TypeOK'
<1> DEFINE i == highestInstance[l] + 1
           p == NumberedID(l, proposalCount[l] + 1)
<1>1. i \in Instances
  <2>1. i <= MaxInstance
    BY DEF RecvExtPropose
  <2>2. highestInstance[l] \in -1 .. MaxInstance
    BY BoundsAssumption, SMT DEF TypeOK, Instances
  <2> QED BY <2>1, <2>2, BoundsAssumption, SMT DEF Instances
<1>2. p \in ProposalIDs /\ proposalCount[l] + 1 \in 0 .. MaxProposals
  BY BoundsAssumption, SMT DEF TypeOK, RecvExtPropose, ProposalIDs, NumberedID
<1>3. v \in Value
  BY DEF Value
<1>4. /\ highestInstance' = [highestInstance EXCEPT ![l] = i]
      /\ proposalCount' = [proposalCount EXCEPT ![l] = @ + 1]
      /\ protocols' = [protocols EXCEPT ![l][i][p] = Proposed(v)]
      /\ msgs' = msgs \cup Proposals(l, v, p, i)
      /\ UNCHANGED <<isPrimary, learned, leaderPump, acceptorVars>>
  BY DEF RecvExtPropose
<1> HIDE DEF i, p
<1>5. msgs' \subseteq Message
  BY <1>1, <1>2, <1>3, <1>4, MessageTypes DEF TypeOK
<1>6. protocols' \in [Leaders -> [Instances -> [ProposalIDs -> LeaderProtocol]]]
  BY <1>1, <1>2, <1>3, <1>4, ConstantTypes DEF TypeOK
<1>7. /\ highestInstance' \in [Leaders -> Instances \cup {-1}]
      /\ proposalCount' \in [Leaders -> 0 .. MaxProposals]
  BY <1>1, <1>2, <1>4 DEF TypeOK
<1> QED
  BY <1>4, <1>5, <1>6, <1>7 DEF TypeOK, acceptorVars

\* The value doTransition carries on from an AGREE is a value or None.
LEMMA AgreedValueType ==
    ASSUME NEW own \in Value \cup {None}, NEW m \in Message
    PROVE  AgreedValue(own, m) \in Value \cup {None}
BY DEF AgreedValue, Message

\* doTransition on AGREE keeps the types.
LEMMA RecvAgreeTypes ==
    ASSUME TypeOK, NEW l \in Leaders, NEW m \in msgs, RecvAgree(l, m)
    PROVE  TypeOK'
<1> DEFINE i == m.instanceID
           p == m.proposalID
           pr == protocols[l][i][p]
           v == AgreedValue(pr.value, m)
<1>1. m \in Message /\ i \in Instances /\ p \in ProposalIDs
  BY DEF TypeOK, Message
<1>2. pr \in LeaderProtocol
  BY <1>1, SMT DEF TypeOK
<1>3. v \in Value \cup {None}
  BY <1>1, <1>2, AgreedValueType DEF LeaderProtocol
<1>4. msgs' \subseteq msgs \cup AcceptRequests(l, v, p, i)
  BY DEF RecvAgree
<1>5. msgs' \subseteq Message
  BY <1>1, <1>3, <1>4, MessageTypes DEF TypeOK
<1>6. \/ protocols' = protocols
      \/ protocols' = [protocols EXCEPT ![l][i][p] = [pr EXCEPT !.agreecount = @ + 1]]
      \/ protocols' = [protocols EXCEPT ![l][i][p] =
                          [state |-> "AGREED", agreecount |-> pr.agreecount + 1,
                           acceptcount |-> pr.acceptcount, value |-> v]]
  BY DEF RecvAgree
<1>7. leaderPump' \in [Leaders -> PumpState]
  BY DEF RecvAgree, TypeOK, PumpState
<1>8. UNCHANGED <<isPrimary, highestInstance, proposalCount, learned, acceptorVars>>
  BY DEF RecvAgree
<1> HIDE DEF i, p, pr, v
<1>9. /\ [pr EXCEPT !.agreecount = @ + 1] \in LeaderProtocol
      /\ [state |-> "AGREED", agreecount |-> pr.agreecount + 1,
          acceptcount |-> pr.acceptcount, value |-> v] \in LeaderProtocol
  BY <1>2, <1>3, SMT DEF LeaderProtocol
<1>10. \/ protocols' = protocols
       \/ \E w \in LeaderProtocol : protocols' = [protocols EXCEPT ![l][i][p] = w]
  BY <1>6, <1>9
<1>11. protocols' \in [Leaders -> [Instances -> [ProposalIDs -> LeaderProtocol]]]
  <2>1. protocols \in [Leaders -> [Instances -> [ProposalIDs -> LeaderProtocol]]]
    BY DEF TypeOK
  <2>2. ASSUME NEW w \in LeaderProtocol
        PROVE  [protocols EXCEPT ![l][i][p] = w]
                   \in [Leaders -> [Instances -> [ProposalIDs -> LeaderProtocol]]]
    BY <1>1, <2>1
  <2> QED BY <1>10, <2>1, <2>2
<1> QED
  BY <1>5, <1>7, <1>8, <1>11 DEF TypeOK, acceptorVars

\* doTransition on ACCEPTED, with notifyLeader, keeps the types.
LEMMA RecvAcceptedTypes ==
    ASSUME TypeOK, NEW l \in Leaders, NEW m \in msgs, RecvAccepted(l, m)
    PROVE  TypeOK'
<1> DEFINE i == m.instanceID
           p == m.proposalID
           pr == ListenedProtocol(l, m)
<1>1. m \in Message /\ i \in Instances /\ p \in ProposalIDs /\ m.value \in Value \cup {None}
  BY DEF TypeOK, Message
<1>2. pr \in LeaderProtocol
  BY <1>1, SMT DEF TypeOK, ListenedProtocol, LeaderProtocol
<1>3. msgs' \subseteq Message
  BY DEF RecvAccepted, TypeOK
<1>4. \/ protocols' = protocols
      \/ protocols' = [protocols EXCEPT ![l][i][p] = [pr EXCEPT !.acceptcount = @ + 1]]
      \/ protocols' = [protocols EXCEPT ![l][i][p] =
                          [state |-> "ACCEPTED", agreecount |-> pr.agreecount,
                           acceptcount |-> pr.acceptcount + 1, value |-> pr.value]]
  BY DEF RecvAccepted
<1>5. /\ [pr EXCEPT !.acceptcount = @ + 1] \in LeaderProtocol
      /\ [state |-> "ACCEPTED", agreecount |-> pr.agreecount,
          acceptcount |-> pr.acceptcount + 1, value |-> pr.value] \in LeaderProtocol
  BY <1>2, SMT DEF LeaderProtocol
<1>6. learned' = learned \/ learned' = [learned EXCEPT ![l][i] = m.value]
  BY DEF RecvAccepted
<1>7. \/ highestInstance' = highestInstance
      \/ highestInstance' = [highestInstance EXCEPT ![l] = HighestAfter(l, i)]
  BY DEF RecvAccepted
<1>8. HighestAfter(l, i) \in Instances \cup {-1}
  BY <1>1 DEF HighestAfter, TypeOK
<1>9. UNCHANGED <<isPrimary, proposalCount, leaderPump, acceptorVars>>
  BY DEF RecvAccepted
<1> HIDE DEF i, p, pr
<1>10. \/ protocols' = protocols
       \/ \E w \in LeaderProtocol : protocols' = [protocols EXCEPT ![l][i][p] = w]
  BY <1>4, <1>5
<1>11. protocols' \in [Leaders -> [Instances -> [ProposalIDs -> LeaderProtocol]]]
  <2>1. protocols \in [Leaders -> [Instances -> [ProposalIDs -> LeaderProtocol]]]
    BY DEF TypeOK
  <2>2. ASSUME NEW w \in LeaderProtocol
        PROVE  [protocols EXCEPT ![l][i][p] = w]
                   \in [Leaders -> [Instances -> [ProposalIDs -> LeaderProtocol]]]
    BY <1>1, <2>1
  <2> QED BY <1>10, <2>1, <2>2
<1>12. learned' \in [Leaders -> [Instances -> Value \cup {None}]]
  <2>1. learned \in [Leaders -> [Instances -> Value \cup {None}]]
    BY DEF TypeOK
  <2>2. [learned EXCEPT ![l][i] = m.value] \in [Leaders -> [Instances -> Value \cup {None}]]
    BY <1>1, <2>1, Update2
  <2> QED BY <1>6, <2>1, <2>2
<1>13. highestInstance' \in [Leaders -> Instances \cup {-1}]
  BY <1>7, <1>8 DEF TypeOK
<1> QED
  BY <1>3, <1>9, <1>11, <1>12, <1>13 DEF TypeOK, acceptorVars

\* findAndFillGaps and garbageCollect keep the types.
LEMMA FillGapsAndCollectTypes ==
    ASSUME TypeOK, NEW l \in Leaders, FillGapsAndCollect(l)
    PROVE  TypeOK'
<1> DEFINE Filled(i, p) ==
               IF i \in Gaps(l) /\ p = GapProposalID(l, i) THEN Proposed(NoOp)
               ELSE IF protocols[l][i][p].state = "ACCEPTED" THEN NoProtocol
               ELSE protocols[l][i][p]
<1>1. /\ proposalCount[l] + Cardinality(Gaps(l)) <= MaxProposals
      /\ proposalCount' = [proposalCount EXCEPT ![l] = @ + Cardinality(Gaps(l))]
      /\ protocols' = [protocols EXCEPT ![l] =
                          [i \in Instances |-> [p \in ProposalIDs |-> Filled(i, p)]]]
      /\ msgs' = msgs \cup UNION {Proposals(l, NoOp, GapProposalID(l, i), i) :
                                     i \in Gaps(l)}
      /\ UNCHANGED <<isPrimary, highestInstance, learned, leaderPump, acceptorVars>>
  BY DEF FillGapsAndCollect
<1>2. \A i \in Gaps(l) : GapProposalID(l, i) \in ProposalIDs /\ i \in Instances
  BY <1>1, GapIDs
<1>3. \A i \in Gaps(l) : Proposals(l, NoOp, GapProposalID(l, i), i) \subseteq Message
  BY <1>2, MessageTypes, ConstantTypes
<1>4. msgs' \subseteq Message
  BY <1>1, <1>3 DEF TypeOK
<1>5. \A i \in Instances, p \in ProposalIDs : Filled(i, p) \in LeaderProtocol
  BY ConstantTypes, SMT DEF TypeOK
<1> HIDE DEF Filled
<1>6. protocols' \in [Leaders -> [Instances -> [ProposalIDs -> LeaderProtocol]]]
  BY <1>1, <1>5 DEF TypeOK
<1>7. proposalCount' \in [Leaders -> 0 .. MaxProposals]
  <2>1. Cardinality(Gaps(l)) \in Nat
    BY GapsFinite, FS_CardinalityType
  <2>2. proposalCount[l] + Cardinality(Gaps(l)) \in 0 .. MaxProposals
    BY <1>1, <2>1, BoundsAssumption, SMT DEF TypeOK
  <2> QED BY <1>1, <2>2 DEF TypeOK
<1> QED
  BY <1>1, <1>4, <1>6, <1>7 DEF TypeOK, acceptorVars

\* recvProposal keeps the types.
LEMMA RecvProposalTypes ==
    ASSUME TypeOK, NEW a \in Acceptors, NEW m \in msgs, RecvProposal(a, m)
    PROVE  TypeOK'
<1> DEFINE i == m.instanceID
           p == m.proposalID
           agree == [command |-> "AGREE", source |-> a, to |-> m.source,
                     proposalID |-> p, instanceID |-> i,
                     value |-> accepted[a][i], sequence |-> highestID[a][i]]
<1>1. m \in Message /\ i \in Instances /\ p \in ProposalIDs
  BY DEF TypeOK, Message
<1>2. agree \in Message
  BY <1>1, SMT DEF TypeOK, Message
<1>3. msgs' \subseteq msgs \cup {agree}
  BY DEF RecvProposal
<1>4. \E st \in AcceptorState : acceptorState' = [acceptorState EXCEPT ![a][i][p] = st]
  BY DEF RecvProposal, AcceptorState
<1>5. \/ highestID' = [highestID EXCEPT ![a][i] = p]
      \/ highestID' = [highestID EXCEPT ![a][i] = highestID[a][i]]
  BY DEF RecvProposal
<1>6. UNCHANGED <<leaderVars, failed, accepted, acceptorPump, vote>>
  BY DEF RecvProposal
<1> HIDE DEF i, p, agree
<1>7. acceptorState' \in [Acceptors -> [Instances -> [ProposalIDs -> AcceptorState]]]
  <2>1. acceptorState \in [Acceptors -> [Instances -> [ProposalIDs -> AcceptorState]]]
    BY DEF TypeOK
  <2>2. \A st \in AcceptorState : [acceptorState EXCEPT ![a][i][p] = st]
                                    \in [Acceptors -> [Instances -> [ProposalIDs -> AcceptorState]]]
    BY <1>1, <2>1
  <2> QED BY <1>4, <2>2
<1>8. highestID' \in [Acceptors -> [Instances -> ProposalIDs \cup {NoID}]]
  <2>1. highestID \in [Acceptors -> [Instances -> ProposalIDs \cup {NoID}]]
    BY DEF TypeOK
  <2>2. \A q \in ProposalIDs \cup {NoID} :
            [highestID EXCEPT ![a][i] = q] \in [Acceptors -> [Instances -> ProposalIDs \cup {NoID}]]
    BY <1>1, <2>1
  <2>3. highestID[a][i] \in ProposalIDs \cup {NoID}
    BY <1>1, <2>1
  <2> QED BY <1>1, <1>5, <2>2, <2>3, SMT
<1> QED
  BY <1>2, <1>3, <1>6, <1>7, <1>8 DEF TypeOK, leaderVars

\* doTransition on ACCEPT keeps the types.
LEMMA RecvAcceptTypes ==
    ASSUME TypeOK, NEW a \in Acceptors, NEW m \in msgs, RecvAccept(a, m)
    PROVE  TypeOK'
<1> DEFINE i == m.instanceID
           p == m.proposalID
           replies == {[command |-> "ACCEPTED", source |-> a, to |-> l,
                        proposalID |-> p, instanceID |-> i,
                        value |-> m.value, sequence |-> NoID] : l \in Leaders}
<1>1. /\ m \in Message /\ i \in Instances /\ p \in ProposalIDs
      /\ m.value \in Value \cup {None}
  BY DEF TypeOK, Message
<1>2. replies \subseteq Message
  BY <1>1, SMT DEF Message
<1>3. msgs' \subseteq msgs \cup replies
  BY DEF RecvAccept
<1>4. \/ acceptorState' = acceptorState
      \/ acceptorState' = [acceptorState EXCEPT ![a][i][p] = "ACCEPTED"]
  BY DEF RecvAccept
<1>5. accepted' = accepted \/ accepted' = [accepted EXCEPT ![a][i] = m.value]
  BY DEF RecvAccept
<1>6. vote' = vote \/ vote' = [vote EXCEPT ![a][i][p] = m.value]
  BY DEF RecvAccept
<1>7. \/ acceptorPump' = acceptorPump
      \/ acceptorPump' = [acceptorPump EXCEPT ![a] = "dead"]
  BY DEF RecvAccept
<1>8. UNCHANGED <<leaderVars, failed, highestID>>
  BY DEF RecvAccept
<1> HIDE DEF i, p, replies
<1>9. acceptorState' \in [Acceptors -> [Instances -> [ProposalIDs -> AcceptorState]]]
  <2>1. "ACCEPTED" \in AcceptorState
    BY DEF AcceptorState
  <2>2. acceptorState \in [Acceptors -> [Instances -> [ProposalIDs -> AcceptorState]]]
    BY DEF TypeOK
  <2>3. [acceptorState EXCEPT ![a][i][p] = "ACCEPTED"]
            \in [Acceptors -> [Instances -> [ProposalIDs -> AcceptorState]]]
    BY <1>1, <2>1, <2>2
  <2> QED BY <1>4, <2>2, <2>3
<1>10. accepted' \in [Acceptors -> [Instances -> Value \cup {None}]]
  <2>1. accepted \in [Acceptors -> [Instances -> Value \cup {None}]]
    BY DEF TypeOK
  <2>2. [accepted EXCEPT ![a][i] = m.value] \in [Acceptors -> [Instances -> Value \cup {None}]]
    BY <1>1, <2>1
  <2> QED BY <1>5, <2>1, <2>2
<1>11. vote' \in [Acceptors -> [Instances -> [ProposalIDs -> Value \cup {None}]]]
  <2>1. vote \in [Acceptors -> [Instances -> [ProposalIDs -> Value \cup {None}]]]
    BY DEF TypeOK
  <2>2. [vote EXCEPT ![a][i][p] = m.value]
            \in [Acceptors -> [Instances -> [ProposalIDs -> Value \cup {None}]]]
    BY <1>1, <2>1
  <2> QED BY <1>6, <2>1, <2>2
<1>12. acceptorPump' \in [Acceptors -> PumpState]
  BY <1>7 DEF TypeOK, PumpState
<1> QED
  BY <1>2, <1>3, <1>8, <1>9, <1>10, <1>11, <1>12 DEF TypeOK, leaderVars

\* The tables start empty and well typed.
LEMMA TypeInit == Init => TypeOK
BY ConstantTypes, BoundsAssumption, SMT
   DEF Init, TypeOK, Instances, PumpState, AcceptorState

\* Every step keeps the types: one case per action of Next.
LEMMA TypeStep ==
    ASSUME TypeOK, [Next]_vars
    PROVE  TypeOK'
<1>1. ASSUME NEW l \in Leaders, NEW v \in Values, RecvExtPropose(l, v) PROVE TypeOK'
  BY <1>1, RecvExtProposeTypes
<1>2. ASSUME NEW l \in Leaders, LeaderReceives(l) PROVE TypeOK'
  BY <1>2, RecvAgreeTypes, RecvAcceptedTypes DEF LeaderReceives
<1>3. ASSUME NEW l \in Leaders, FillGapsAndCollect(l) PROVE TypeOK'
  BY <1>3, FillGapsAndCollectTypes
<1>4. ASSUME NEW l \in Leaders, GainPrimary(l) PROVE TypeOK'
  BY <1>4 DEF TypeOK, GainPrimary, acceptorVars
<1>5. ASSUME NEW l \in Leaders, LosePrimary(l) PROVE TypeOK'
  BY <1>5 DEF TypeOK, LosePrimary, acceptorVars
<1>6. ASSUME NEW l \in Leaders, StopLeader(l) PROVE TypeOK'
  BY <1>6 DEF TypeOK, StopLeader, acceptorVars, PumpState
<1>7. ASSUME NEW a \in Acceptors, NEW m \in msgs, DropWhileFailed(a, m) PROVE TypeOK'
  BY <1>7 DEF TypeOK, DropWhileFailed, leaderVars, acceptorVars
<1>8. ASSUME NEW a \in Acceptors, AcceptorReceives(a) PROVE TypeOK'
  BY <1>7, <1>8, RecvProposalTypes, RecvAcceptTypes DEF AcceptorReceives
<1>9. ASSUME NEW a \in Acceptors, Fail(a) PROVE TypeOK'
  BY <1>9 DEF TypeOK, Fail, leaderVars
<1>10. ASSUME NEW a \in Acceptors, Recover(a) PROVE TypeOK'
  BY <1>10 DEF TypeOK, Recover, leaderVars
<1>11. ASSUME NEW a \in Acceptors, StopAcceptor(a) PROVE TypeOK'
  BY <1>11 DEF TypeOK, StopAcceptor, leaderVars, PumpState
<1>12. ASSUME NEW m \in msgs, Lose(m) PROVE TypeOK'
  BY <1>12 DEF TypeOK, Lose, leaderVars, acceptorVars
<1>13. CASE UNCHANGED vars
  BY <1>13 DEF TypeOK, vars, leaderVars, acceptorVars
<1> QED
  BY <1>1, <1>2, <1>3, <1>4, <1>5, <1>6, <1>8, <1>9, <1>10, <1>11, <1>12, <1>13 DEF Next

\* Every variable keeps its type: in particular every proposal ID a leader draws, by
\* newProposal or for a gap, is one of its own, and highestInstance stays an instance.
THEOREM TypeCorrect == Spec => []TypeOK
<1>1. TypeOK /\ [Next]_vars => TypeOK'
  BY TypeStep
<1> QED
  BY TypeInit, <1>1, PTL DEF Spec

\* What a leader has learned lies below the instance newProposal will take next, also when
\* it learned by listening in.
LearnedBelowNext ==
    \A l \in Leaders, i \in Instances : learned[l][i] # None => i <= highestInstance[l]

\* A step that keeps what is learned, and never lowers highestInstance, keeps it below.
LEMMA HistoryKept ==
    ASSUME TypeOK, LearnedBelowNext, UNCHANGED learned,
           \A l \in Leaders : highestInstance'[l] = highestInstance[l] \/
                              highestInstance'[l] = highestInstance[l] + 1
    PROVE  LearnedBelowNext'
<1> SUFFICES ASSUME NEW l \in Leaders, NEW i \in Instances, learned[l][i] # None
             PROVE  i <= highestInstance'[l]
  BY DEF LearnedBelowNext
<1>1. highestInstance[l] \in Int /\ i \in Int
  BY HighestInstanceType, SMT DEF Instances
<1>2. i <= highestInstance[l]
  BY DEF LearnedBelowNext
<1> QED BY <1>1, <1>2, SMT

\* Listening in raises highestInstance to the instance learned, whichever leader proposed it.
LEMMA RecvAcceptedHistory ==
    ASSUME TypeOK, LearnedBelowNext, NEW l \in Leaders, NEW m \in msgs, RecvAccepted(l, m)
    PROVE  LearnedBelowNext'
<1> DEFINE i == m.instanceID
<1>1. i \in Instances
  BY DEF TypeOK, Message
<1>2. CASE UNCHANGED <<learned, highestInstance>>
  BY <1>2, HistoryKept
<1>3. CASE /\ learned' = [learned EXCEPT ![l][i] = m.value]
           /\ highestInstance' = [highestInstance EXCEPT ![l] = HighestAfter(l, i)]
  <2> SUFFICES ASSUME NEW k \in Leaders, NEW j \in Instances, learned'[k][j] # None
               PROVE  j <= highestInstance'[k]
    BY DEF LearnedBelowNext
  <2>1. /\ learned \in [Leaders -> [Instances -> Value \cup {None}]]
        /\ highestInstance \in [Leaders -> Instances \cup {-1}]
    BY DEF TypeOK
  <2>2. CASE k = l /\ j = i
    <3>1. highestInstance'[k] = HighestAfter(l, i)
      BY <1>3, <2>1, <2>2
    <3>2. highestInstance[l] \in Int /\ i \in Int
      BY <1>1, HighestInstanceType, SMT DEF Instances
    <3> QED BY <2>2, <3>1, <3>2, SMT DEF HighestAfter
  <2>3. CASE ~(k = l /\ j = i)
    <3>1. learned'[k][j] = learned[k][j]
      BY <1>1, <1>3, <2>1, <2>3
    <3>2. j <= highestInstance[k]
      BY <3>1 DEF LearnedBelowNext
    <3>3. highestInstance'[k] = IF k = l THEN HighestAfter(l, i) ELSE highestInstance[k]
      BY <1>3, <2>1
    <3>4. highestInstance[k] \in Int /\ i \in Int /\ j \in Int
      BY <1>1, HighestInstanceType, SMT DEF Instances
    <3> QED BY <3>2, <3>3, <3>4, SMT DEF HighestAfter
  <2> QED BY <2>2, <2>3
<1> QED BY <1>2, <1>3 DEF RecvAccepted

\* Whatever a leader learns, by its own proposals or by listening in (notifyLeader), lies
\* below the next instance it proposes in.
LEMMA LearnedStaysBelow == Spec => []LearnedBelowNext
<1>1. Init => LearnedBelowNext
  BY SMT DEF Init, LearnedBelowNext
<1>2. TypeOK /\ LearnedBelowNext /\ [Next]_vars => LearnedBelowNext'
  <2> SUFFICES ASSUME TypeOK, LearnedBelowNext, [Next]_vars PROVE LearnedBelowNext'
    OBVIOUS
  <2>1. ASSUME NEW l \in Leaders, NEW v \in Values, RecvExtPropose(l, v)
        PROVE  LearnedBelowNext'
    <3>1. UNCHANGED learned
      BY <2>1 DEF RecvExtPropose
    <3>2. highestInstance' = [highestInstance EXCEPT ![l] = highestInstance[l] + 1]
      BY <2>1 DEF RecvExtPropose
    <3>3. highestInstance \in [Leaders -> Instances \cup {-1}]
      BY DEF TypeOK
    <3>4. \A k \in Leaders : highestInstance'[k] = highestInstance[k] \/
                             highestInstance'[k] = highestInstance[k] + 1
      BY <3>2, <3>3
    <3> QED BY <3>1, <3>4, HistoryKept
  <2>2. ASSUME NEW l \in Leaders, NEW m \in msgs, RecvAccepted(l, m)
        PROVE  LearnedBelowNext'
    BY <2>2, RecvAcceptedHistory
  <2>3. CASE UNCHANGED <<learned, highestInstance>>
    BY <2>3, HistoryKept
  <2>4. ASSUME NEW l \in Leaders,
               \/ LeaderReceives(l) /\ ~(\E m \in msgs : RecvAccepted(l, m))
               \/ FillGapsAndCollect(l) \/ GainPrimary(l) \/ LosePrimary(l) \/ StopLeader(l)
        PROVE  UNCHANGED <<learned, highestInstance>>
    BY <2>4 DEF LeaderReceives, RecvAgree, FillGapsAndCollect, GainPrimary, LosePrimary, StopLeader
  <2>5. ASSUME NEW a \in Acceptors,
               AcceptorReceives(a) \/ Fail(a) \/ Recover(a) \/ StopAcceptor(a)
        PROVE  UNCHANGED <<learned, highestInstance>>
    BY <2>5 DEF AcceptorReceives, RecvProposal, RecvAccept, DropWhileFailed, Fail, Recover,
                StopAcceptor, leaderVars
  <2>6. ASSUME NEW m \in msgs, Lose(m) PROVE UNCHANGED <<learned, highestInstance>>
    BY <2>6 DEF Lose, leaderVars
  <2>7. CASE UNCHANGED vars
    BY <2>3, <2>7 DEF vars, leaderVars
  <2> QED BY <2>1, <2>2, <2>3, <2>4, <2>5, <2>6, <2>7 DEF Next, LeaderReceives
<1> QED
  BY TypeCorrect, <1>1, <1>2, PTL DEF Spec

\* A step after which l proposes in i under p started the proposal for a client, in the
\* instance above all it knows of, or for a gap, or l proposed there before.
LEMMA StartsProposal ==
    ASSUME TypeOK, Next, NEW l \in Leaders, NEW i \in Instances, NEW p \in ProposalIDs,
           protocols'[l][i][p].state = "PROPOSED", protocols[l][i][p].state # "PROPOSED"
    PROVE  i = highestInstance[l] + 1 \/ i \in Gaps(l)
<1>1. protocols \in [Leaders -> [Instances -> [ProposalIDs -> LeaderProtocol]]]
  BY DEF TypeOK
<1>2. CASE \E k \in Leaders, v \in Values : RecvExtPropose(k, v)
  <2>1. PICK k \in Leaders, v \in Values : RecvExtPropose(k, v)
    BY <1>2
  <2> DEFINE j == highestInstance[k] + 1
             q == NumberedID(k, proposalCount[k] + 1)
  <2>2. protocols' = [protocols EXCEPT ![k][j][q] = Proposed(v)]
    BY <2>1 DEF RecvExtPropose
  <2>3. ~(k = l /\ j = i) => protocols'[l][i] = protocols[l][i]
    BY <1>1, <2>2
  <2> QED BY <2>3
<1>3. CASE \E k \in Leaders : FillGapsAndCollect(k)
  <2>1. PICK k \in Leaders : FillGapsAndCollect(k)
    BY <1>3
  <2>2. CASE k # l
    BY <1>1, <2>1, <2>2 DEF FillGapsAndCollect
  <2>3. CASE k = l
    <3>1. protocols'[l][i][p] = IF i \in Gaps(l) /\ p = GapProposalID(l, i) THEN Proposed(NoOp)
                                ELSE IF protocols[l][i][p].state = "ACCEPTED" THEN NoProtocol
                                ELSE protocols[l][i][p]
      BY <1>1, <2>1, <2>3 DEF FillGapsAndCollect
    <3>2. NoProtocol.state # "PROPOSED"
      BY DEF NoProtocol
    <3> QED BY <3>1, <3>2
  <2> QED BY <2>2, <2>3
<1>4. ASSUME NEW k \in Leaders, NEW j \in Instances, NEW q \in ProposalIDs, NEW r,
             protocols' = [protocols EXCEPT ![k][j][q] = r]
      PROVE  l = k /\ i = j /\ p = q
  BY <1>1, <1>4
<1>5. ASSUME NEW k \in Leaders, NEW m \in msgs, RecvAgree(k, m) PROVE FALSE
  <2> DEFINE j == m.instanceID
             q == m.proposalID
  <2>1. \/ protocols' = protocols
        \/ /\ protocols[k][j][q].state = "PROPOSED"
           /\ \E r : protocols' = [protocols EXCEPT ![k][j][q] = r]
    BY <1>5 DEF RecvAgree
  <2>2. j \in Instances /\ q \in ProposalIDs
    BY DEF TypeOK, Message
  <2> HIDE DEF j, q
  <2>3. PICK r : protocols' = [protocols EXCEPT ![k][j][q] = r]
    BY <2>1
  <2>4. protocols[k][j][q].state = "PROPOSED"
    BY <2>1
  <2>5. l = k /\ i = j /\ p = q
    BY <1>4, <2>2, <2>3
  <2> QED BY <2>4, <2>5
<1>6. ASSUME NEW k \in Leaders, NEW m \in msgs, RecvAccepted(k, m) PROVE FALSE
  <2> DEFINE j == m.instanceID
             q == m.proposalID
             pr == ListenedProtocol(k, m)
             one == [pr EXCEPT !.acceptcount = @ + 1]
             all == [state |-> "ACCEPTED", agreecount |-> pr.agreecount,
                     acceptcount |-> pr.acceptcount + 1, value |-> pr.value]
  <2>1. \/ protocols' = protocols
        \/ pr.state = "AGREED" /\ protocols' = [protocols EXCEPT ![k][j][q] = one]
        \/ protocols' = [protocols EXCEPT ![k][j][q] = all]
    BY <1>6 DEF RecvAccepted
  <2>2. j \in Instances /\ q \in ProposalIDs
    BY DEF TypeOK, Message
  <2>3. pr \in LeaderProtocol
    BY <2>2, SMT DEF TypeOK, Message, ListenedProtocol, LeaderProtocol
  <2> HIDE DEF pr
  <2>4. pr.state = "AGREED" => one.state # "PROPOSED"
    BY <2>3, SMT DEF LeaderProtocol
  <2>5. all.state # "PROPOSED"
    OBVIOUS
  <2> HIDE DEF j, q, one, all
  <2>6. PICK r : protocols' = [protocols EXCEPT ![k][j][q] = r] /\ r.state # "PROPOSED"
    BY <2>1, <2>4, <2>5
  <2>7. protocols'[l][i][p] = r \/ protocols'[l][i][p] = protocols[l][i][p]
    BY <1>1, <2>2, <2>6
  <2> QED BY <2>6, <2>7
<1>7. ASSUME NEW k \in Leaders, GainPrimary(k) \/ LosePrimary(k) \/ StopLeader(k)
      PROVE  FALSE
  BY <1>7 DEF GainPrimary, LosePrimary, StopLeader
<1>8. ASSUME NEW a \in Acceptors,
             AcceptorReceives(a) \/ Fail(a) \/ Recover(a) \/ StopAcceptor(a)
      PROVE  FALSE
  BY <1>8 DEF AcceptorReceives, RecvProposal, RecvAccept, DropWhileFailed, Fail, Recover,
              StopAcceptor, leaderVars
<1>9. ASSUME NEW m \in msgs, Lose(m) PROVE FALSE
  BY <1>9 DEF Lose, leaderVars
<1> QED BY <1>2, <1>3, <1>5, <1>6, <1>7, <1>8, <1>9 DEF Next, LeaderReceives

\* A leader that knows the value of an instance, from its own proposals or from listening
\* in, never again starts a proposal there (newProposal, findAndFillGaps).
THEOREM LearnedIsNeverProposed == Spec => LearnedIsNotProposed
<1>1. ASSUME TypeOK, LearnedBelowNext, [Next]_vars
      PROVE  [\A l \in Leaders, i \in Instances, p \in ProposalIDs :
                 protocols'[l][i][p].state = "PROPOSED" /\ protocols[l][i][p].state # "PROPOSED"
                     => learned[l][i] = None]_vars
  <2> SUFFICES ASSUME Next, NEW l \in Leaders, NEW i \in Instances, NEW p \in ProposalIDs,
                      protocols'[l][i][p].state = "PROPOSED",
                      protocols[l][i][p].state # "PROPOSED"
               PROVE  learned[l][i] = None
    BY <1>1
  <2>1. CASE i = highestInstance[l] + 1
    <3>1. highestInstance[l] \in Int /\ ~(i <= highestInstance[l])
      BY <1>1, <2>1, HighestInstanceType, SMT DEF Instances
    <3> QED BY <1>1, <3>1 DEF LearnedBelowNext
  <2>2. CASE i \in Gaps(l)
    BY <2>2 DEF Gaps
  <2> QED BY <1>1, <2>1, <2>2, StartsProposal
<1> QED BY TypeCorrect, LearnedStaysBelow, <1>1, PTL DEF Spec, LearnedIsNotProposed

-----------------------------------------------------------------------------
(***************************************************************************)
(* The steps of ToyPaxos that count nothing.  SafetyInv survives a step    *)
(* that only starts proposals under new IDs, forgets protocols and loses   *)
(* messages (QuietStep).  First the facts on acceptor sets, messages and   *)
(* protocols that this and the proofs of the other steps share.            *)
(***************************************************************************)

\* Sets of acceptors are finite and their cardinalities monotone.
LEMMA AcceptorSets ==
    ASSUME NEW T \in SUBSET Acceptors, NEW S \in SUBSET T
    PROVE  /\ IsFiniteSet(T) /\ IsFiniteSet(S)
           /\ Cardinality(S) \in Nat /\ Cardinality(T) \in Nat
           /\ Cardinality(Acceptors) \in Nat
           /\ Cardinality(S) <= Cardinality(T)
<1>1. IsFiniteSet(Acceptors)
  BY AcceptorsAssumption
<1>2. IsFiniteSet(T)
  BY <1>1, FS_Subset
<1>3. IsFiniteSet(S) /\ Cardinality(S) <= Cardinality(T)
  BY <1>2, FS_Subset
<1> QED BY <1>1, <1>2, <1>3, FS_CardinalityType

\* A superset of a majority is one.
LEMMA LargerMajority ==
    ASSUME NEW T \in SUBSET Acceptors, NEW S \in SUBSET T, IsMajority(S)
    PROVE  IsMajority(T)
BY AcceptorSets, SMT DEF IsMajority

\* Whatever the number of acceptors, getQuorumSize of them are a majority.
LEMMA QuorumIsMajority ==
    ASSUME NEW S \in SUBSET Acceptors, Cardinality(S) >= getQuorumSize
    PROVE  IsMajority(S)
<1>1. Cardinality(S) \in Nat /\ Cardinality(Acceptors) \in Nat
  BY AcceptorSets
<1> DEFINE n == Cardinality(Acceptors)
           s == Cardinality(S)
<1>2. s >= (n \div 2) + 1
  BY DEF getQuorumSize
<1>3. n \in Nat /\ s \in Nat
  BY <1>1
<1> HIDE DEF n, s
<1>4. 2 * s > n
  BY <1>2, <1>3, SMT
<1> QED BY <1>4 DEF IsMajority, n, s

\* One more acceptor adds one to the cardinality.
LEMMA OneMore ==
    ASSUME NEW T \in SUBSET Acceptors, NEW S \in SUBSET T, NEW a \in T, a \notin S
    PROVE  Cardinality(S) + 1 <= Cardinality(T)
<1>1. IsFiniteSet(S) /\ IsFiniteSet(T)
  BY AcceptorSets
<1>2. Cardinality(S \cup {a}) = Cardinality(S) + 1
  BY <1>1, FS_AddElement
<1>3. S \cup {a} \in SUBSET T
  OBVIOUS
<1>4. Cardinality(S \cup {a}) <= Cardinality(T)
  BY <1>1, <1>3, FS_Subset
<1> QED BY <1>2, <1>4

\* The components of the values TypeOK ranges over.
LEMMA Shapes ==
    /\ \A m \in Message :
          /\ m.command \in {"PROPOSE", "AGREE", "ACCEPT", "ACCEPTED"}
          /\ m.proposalID \in ProposalIDs
          /\ m.instanceID \in Instances
          /\ m.value \in Value \cup {None}
    /\ \A p \in ProposalIDs : p[1] \in Leaders /\ p[2] \in Nat
    /\ None \notin Value
BY ConstantTypes, SMT DEF Message, ProposalIDs, None, Value

\* Nothing is in phase two under an ID that no proposal has yet.
LEMMA UnusedCarriesNothing ==
    ASSUME TypeOK, SafetyInv, NEW i \in Instances, NEW p \in ProposalIDs, NEW v \in Value,
           p[2] > proposalCount[p[1]]
    PROVE  ~Carries(i, p, v)
<1>1. \A m \in msgs : m.proposalID # p
  <2> SUFFICES ASSUME NEW m \in msgs, m.proposalID = p PROVE FALSE
    OBVIOUS
  <2>1. p[2] <= proposalCount[p[1]]
    BY DEF SafetyInv, MessageInv, MessageOK
  <2>2. p[2] \in Nat /\ proposalCount[p[1]] \in Nat
    BY Shapes, BoundsAssumption, SMT DEF TypeOK
  <2> QED BY <2>1, <2>2, SMT
<1>2. \A a \in Acceptors : vote[a][i][p] = None
  BY SMT DEF SafetyInv, UnusedInv, VoteInv
<1>3. \A l \in Leaders : protocols[l][i][p].state = "ABSENT"
  BY DEF SafetyInv, UnusedInv
<1> QED BY <1>1, <1>2, <1>3, Shapes DEF Carries

-----------------------------------------------------------------------------
(***************************************************************************)
(* Taking messages off the network.                                        *)
(***************************************************************************)

\* Losing messages keeps what is said of the ones that remain.
LEMMA FewerMessages ==
    ASSUME SafetyInv, msgs' \subseteq msgs,
           UNCHANGED <<proposalCount, acceptorState, vote>>
    PROVE  MessageInv' /\ OneMessage' /\ VoteInv'
<1>1. MessageInv'
  BY DEF SafetyInv, MessageInv, MessageOK
<1>2. OneMessage'
  BY DEF SafetyInv, OneMessage, SameKey
<1>3. VoteInv'
  BY DEF SafetyInv, VoteInv
<1> QED BY <1>1, <1>2, <1>3

\* Only one AGREE per acceptor is ever in flight for a proposal: the leader that takes it
\* counts an acceptor it has not counted before.
LEMMA AgreeTaken ==
    ASSUME SafetyInv, NEW m \in msgs, m.command = "AGREE",
           m \notin msgs', \A x \in msgs' \ msgs : x.command # "AGREE",
           UNCHANGED acceptorState,
           NEW i, NEW p
    PROVE  /\ Agreed(i, p) \subseteq Agreed(i, p)'
           /\ Agreed(i, p)' \subseteq Promisers(i, p)
           /\ Promisers(i, p)' = Promisers(i, p)
           /\ Promisers(i, p) \subseteq Acceptors
           /\ i = m.instanceID /\ p = m.proposalID
                 => m.source \in Agreed(i, p)' \ Agreed(i, p)
<1>1. Promisers(i, p)' = Promisers(i, p) /\ Promisers(i, p) \subseteq Acceptors
  BY DEF Promisers
<1>2. Agreed(i, p) \subseteq Agreed(i, p)' /\ Agreed(i, p)' \subseteq Promisers(i, p)
  BY <1>1 DEF Agreed
<1>3. ASSUME i = m.instanceID, p = m.proposalID
      PROVE  m.source \in Agreed(i, p)' \ Agreed(i, p)
  <2>1. m.source \in Promisers(i, p)
    BY <1>3 DEF SafetyInv, MessageInv, MessageOK, Promisers
  <2>2. m.source \notin Agreed(i, p)
    BY <1>3 DEF Agreed
  <2>3. ASSUME NEW x \in msgs', x.command = "AGREE", x.source = m.source,
               x.instanceID = i, x.proposalID = p
        PROVE  FALSE
    <3>1. x \in msgs
      BY <2>3
    <3>2. x.to = p[1] /\ m.to = p[1]
      BY <1>3, <2>3, <3>1, SMT DEF SafetyInv, MessageInv, MessageOK
    <3>3. x = m
      BY <1>3, <2>3, <3>1, <3>2 DEF SafetyInv, OneMessage, SameKey
    <3> QED BY <2>3, <3>3
  <2> QED BY <1>1, <2>1, <2>2, <2>3 DEF Agreed
<1> QED BY <1>1, <1>2, <1>3

\* The same for ACCEPTED and the leader it is addressed to.
LEMMA AcceptedTaken ==
    ASSUME SafetyInv, NEW m \in msgs, m.command = "ACCEPTED",
           m \notin msgs', \A x \in msgs' \ msgs : x.command # "ACCEPTED",
           UNCHANGED vote,
           NEW l, NEW i, NEW p
    PROVE  /\ Heard(l, i, p) \subseteq Heard(l, i, p)'
           /\ Heard(l, i, p)' \subseteq Acceptors
           /\ l = m.to /\ i = m.instanceID /\ p = m.proposalID
                 => m.source \in Heard(l, i, p)' \ Heard(l, i, p)
<1>1. Heard(l, i, p) \subseteq Heard(l, i, p)' /\ Heard(l, i, p)' \subseteq Acceptors
  BY DEF Heard
<1>2. ASSUME l = m.to, i = m.instanceID, p = m.proposalID
      PROVE  m.source \in Heard(l, i, p)' \ Heard(l, i, p)
  <2>1. m.source \in Acceptors /\ vote[m.source][i][p] # None
    BY <1>2 DEF SafetyInv, MessageInv, MessageOK
  <2>2. m.source \notin Heard(l, i, p)
    BY <1>2 DEF Heard
  <2>3. ASSUME NEW x \in msgs', x.command = "ACCEPTED", x.source = m.source,
               x.to = l, x.instanceID = i, x.proposalID = p
        PROVE  FALSE
    BY <1>2, <2>3 DEF SafetyInv, OneMessage, SameKey
  <2> QED BY <2>1, <2>2, <2>3 DEF Heard
<1> QED BY <1>1, <1>2

-----------------------------------------------------------------------------
(***************************************************************************)
(* What a step keeps, conjunct by conjunct.                                *)
(***************************************************************************)

\* The record of a protocol object has the type of LeaderProtocol.
LEMMA ProtocolTypes ==
    ASSUME TypeOK, NEW l \in Leaders, NEW i \in Instances, NEW p \in ProposalIDs
    PROVE  /\ protocols[l][i][p] \in LeaderProtocol
           /\ protocols[l][i][p].agreecount \in Nat
           /\ protocols[l][i][p].acceptcount \in Nat
           /\ protocols[l][i][p].value \in Value \cup {None}
<1>1. protocols[l][i][p] \in LeaderProtocol
  BY SMT DEF TypeOK
<1> QED BY <1>1 DEF LeaderProtocol

\* A protocol the step leaves alone keeps its invariant as long as the sets its counters
\* stand for do not shrink.
LEMMA OtherProtocols ==
    ASSUME TypeOK, SafetyInv, NEW l \in Leaders, NEW i \in Instances, NEW p \in ProposalIDs,
           protocols'[l][i][p] = protocols[l][i][p],
           Agreed(i, p) \subseteq Agreed(i, p)', Agreed(i, p)' \subseteq Acceptors,
           Heard(l, i, p) \subseteq Heard(l, i, p)', Heard(l, i, p)' \subseteq Acceptors
    PROVE  ProtocolOK(l, i, p)'
<1> DEFINE pr == protocols[l][i][p]
           ca == Cardinality(Agreed(i, p))
           da == Cardinality(Agreed(i, p)')
           ch == Cardinality(Heard(l, i, p))
           dh == Cardinality(Heard(l, i, p)')
<1>1. ca \in Nat /\ da \in Nat /\ ca <= da
  BY AcceptorSets
<1>2. ch \in Nat /\ dh \in Nat /\ ch <= dh
  BY AcceptorSets
<1>3. pr.agreecount \in Nat /\ pr.acceptcount \in Nat
  BY ProtocolTypes
<1>4. /\ pr.state = "PROPOSED" => l = p[1] /\ pr.acceptcount = 0 /\ pr.agreecount <= ca
      /\ pr.state # "ABSENT" => pr.value # None /\ pr.acceptcount <= ch
  BY DEF SafetyInv, ProtocolInv, ProtocolOK
<1>5. protocols'[l][i][p] = pr
  OBVIOUS
<1> HIDE DEF pr, ca, da, ch, dh
<1>6. /\ pr.state = "PROPOSED" => l = p[1] /\ pr.acceptcount = 0 /\ pr.agreecount <= da
      /\ pr.state # "ABSENT" => pr.value # None /\ pr.acceptcount <= dh
  BY <1>1, <1>2, <1>3, <1>4, SMT
<1> QED BY <1>5, <1>6 DEF ProtocolOK, da, dh

\* Nothing changes outside proposal p.
OnlyProposal(p) ==
    /\ proposalCount' = proposalCount
    /\ \A j \in Instances, q \in ProposalIDs \ {p} :
          /\ \A k \in Leaders : protocols'[k][j][q] = protocols[k][j][q]
          /\ \A b \in Acceptors : acceptorState'[b][j][q] = acceptorState[b][j][q]

\* A step on a proposal that is in use leaves the unused ones unused.
LEMMA UnusedKept ==
    ASSUME TypeOK, SafetyInv, NEW p \in ProposalIDs, p[2] <= proposalCount[p[1]],
           OnlyProposal(p)
    PROVE  UnusedInv'
<1>1. proposalCount' = proposalCount
  BY DEF OnlyProposal
<1> SUFFICES ASSUME NEW j \in Instances, NEW q \in ProposalIDs, q[2] > proposalCount[q[1]]
             PROVE  /\ \A k \in Leaders : protocols'[k][j][q].state = "ABSENT"
                    /\ \A b \in Acceptors : acceptorState'[b][j][q] = "ABSENT"
  BY <1>1 DEF UnusedInv
<1>2. p[2] \in Nat /\ proposalCount[p[1]] \in Nat
  BY Shapes, BoundsAssumption, SMT DEF TypeOK
<1>3. q # p
  BY <1>2, SMT
<1>4. /\ \A k \in Leaders : protocols'[k][j][q] = protocols[k][j][q]
      /\ \A b \in Acceptors : acceptorState'[b][j][q] = acceptorState[b][j][q]
  BY <1>3 DEF OnlyProposal
<1>5. /\ \A k \in Leaders : protocols[k][j][q].state = "ABSENT"
      /\ \A b \in Acceptors : acceptorState[b][j][q] = "ABSENT"
  BY DEF SafetyInv, UnusedInv
<1> QED BY <1>4, <1>5

\* A proposal that nothing new is carried for stays as CarryInv wants it.
LEMMA PhaseTwoKept ==
    ASSUME SafetyInv, NEW i \in Instances, NEW p \in ProposalIDs, NEW v \in Value,
           \A w \in Value : Carries(i, p, w)' => Carries(i, p, w),
           Promisers(i, p) \subseteq Promisers(i, p)',
           protocols[p[1]][i][p].state # "PROPOSED" =>
               protocols'[p[1]][i][p].state # "PROPOSED",
           Carries(i, p, v)'
    PROVE  PhaseTwoOK(i, p, v)'
<1>1. /\ \A w \in Value : Carries(i, p, w) => w = v
      /\ protocols[p[1]][i][p].state # "PROPOSED"
      /\ IsMajority(Promisers(i, p))
  BY DEF SafetyInv, CarryInv, PhaseTwoOK
<1>2. Promisers(i, p)' \subseteq Acceptors
  BY DEF Promisers
<1>3. IsMajority(Promisers(i, p)')
  BY <1>1, <1>2, LargerMajority
<1>4. IsMajority(Promisers(i, p))'
  BY <1>3 DEF IsMajority
<1> QED BY <1>1, <1>4 DEF PhaseTwoOK

\* Votes are never taken back.
VotesKept ==
    \A b \in Acceptors, j \in Instances, q \in ProposalIDs :
        vote[b][j][q] # None => vote'[b][j][q] = vote[b][j][q]

\* What was chosen stays chosen.
LEMMA ChosenKept ==
    ASSUME VotesKept, NEW i \in Instances, NEW p \in ProposalIDs, NEW v, v # None,
           IsMajority(Voters(i, p, v))
    PROVE  IsMajority(Voters(i, p, v)')
<1>1. Voters(i, p, v) \subseteq Voters(i, p, v)'
  BY DEF Voters, VotesKept
<1>2. Voters(i, p, v)' \subseteq Acceptors
  BY DEF Voters
<1> QED BY <1>1, <1>2, LargerMajority

\* What leaders have learned stays chosen when votes are kept and nothing is learned.
LEMMA LearnedKept ==
    ASSUME SafetyInv, VotesKept, learned' = learned
    PROVE  LearnedIsChosen'
<1> SUFFICES ASSUME NEW l \in Leaders, NEW i \in Instances, learned[l][i] # None
             PROVE  \E p \in ProposalIDs : IsMajority(Voters(i, p, learned[l][i])')
  BY DEF LearnedIsChosen, IsMajority, Voters
<1>1. PICK p \in ProposalIDs : IsMajority(Voters(i, p, learned[l][i]))
  BY DEF SafetyInv, LearnedIsChosen
<1> DEFINE v == learned[l][i]
<1>2. v # None /\ IsMajority(Voters(i, p, v)) /\ v' = v
  BY <1>1
<1> HIDE DEF v
<1>3. IsMajority(Voters(i, p, v)')
  BY <1>2, ChosenKept
<1> QED BY <1>3 DEF v

-----------------------------------------------------------------------------
(***************************************************************************)
(* Quiet steps.                                                            *)
(***************************************************************************)

\* Step only starts proposals under new IDs, forgets protocols and loses messages.
Quiet ==
    /\ UNCHANGED <<learned, acceptorState, vote>>
    /\ \A l \in Leaders : proposalCount'[l] >= proposalCount[l]
    /\ \A m \in msgs' \ msgs :
          /\ m.command = "PROPOSE" /\ m.source = m.proposalID[1]
          /\ m.to \in Acceptors /\ m.value # None
          /\ m.proposalID[2] > proposalCount[m.proposalID[1]]
          /\ m.proposalID[2] <= proposalCount'[m.proposalID[1]]
          /\ \A n \in msgs' \ msgs : SameKey(m, n) => m = n
    /\ \A l \in Leaders, i \in Instances, p \in ProposalIDs :
          \/ protocols'[l][i][p] = protocols[l][i][p]
          \/ protocols'[l][i][p] = NoProtocol
          \/ /\ l = p[1] /\ p[2] > proposalCount[l] /\ p[2] <= proposalCount'[l]
             /\ \E v \in Value : protocols'[l][i][p] = Proposed(v)

\* A quiet step preserves the invariant: a fresh proposal ID has no message, promise or
\* vote, and forgetting a protocol or losing a message removes only what was claimed of it.
LEMMA QuietStep ==
    ASSUME TypeOK, TypeOK', SafetyInv, Quiet
    PROVE  SafetyInv'
<1> USE Shapes
<1>a. /\ learned' = learned /\ acceptorState' = acceptorState /\ vote' = vote
      /\ \A l \in Leaders : /\ proposalCount[l] \in Nat /\ proposalCount'[l] \in Nat
                            /\ proposalCount'[l] >= proposalCount[l]
  BY BoundsAssumption, SMT DEF Quiet, TypeOK
<1>b. msgs \subseteq Message /\ msgs' \subseteq Message
  BY DEF TypeOK
<1>c. \A m \in msgs' \ msgs :
          /\ m.command = "PROPOSE" /\ m.source = m.proposalID[1]
          /\ m.to \in Acceptors /\ m.value # None
          /\ m.proposalID[2] > proposalCount[m.proposalID[1]]
          /\ m.proposalID[2] <= proposalCount'[m.proposalID[1]]
          /\ \A n \in msgs' \ msgs : SameKey(m, n) => m = n
  BY DEF Quiet
<1>1. MessageInv'
  <2> SUFFICES ASSUME NEW m \in msgs' PROVE MessageOK(m)'
    BY DEF MessageInv
  <2>1. CASE m \in msgs
    <3>1. m.proposalID[2] <= proposalCount'[m.proposalID[1]]
      <4>1. m.proposalID[2] <= proposalCount[m.proposalID[1]]
        BY <2>1 DEF SafetyInv, MessageInv, MessageOK
      <4> QED BY <1>a, <1>b, <2>1, <4>1, SMT
    <3>2. MessageOK(m)
      BY <2>1 DEF SafetyInv, MessageInv
    <3> QED BY <1>a, <3>1, <3>2 DEF MessageOK
  <2>2. CASE m \notin msgs
    <3>1. \A a \in Acceptors : acceptorState[a][m.instanceID][m.proposalID] = "ABSENT"
      BY <1>b, <1>c, <2>2, SMT DEF SafetyInv, UnusedInv
    <3>2. /\ m.command = "PROPOSE" /\ m.source = m.proposalID[1]
          /\ m.to \in Acceptors /\ m.value # None
          /\ m.proposalID[2] <= proposalCount'[m.proposalID[1]]
      BY <1>c, <2>2
    <3> QED BY <1>a, <3>1, <3>2 DEF MessageOK
  <2> QED BY <2>1, <2>2
<1>2. OneMessage'
  <2> SUFFICES ASSUME NEW m \in msgs', NEW n \in msgs', SameKey(m, n)
               PROVE  m = n
    BY DEF OneMessage, SameKey
  <2>1. \A x \in msgs : x.proposalID[2] <= proposalCount[x.proposalID[1]]
    BY DEF SafetyInv, MessageInv, MessageOK
  <2>2. \A x \in msgs, y \in msgs' \ msgs : x.proposalID # y.proposalID
    BY <1>a, <1>b, <1>c, <2>1, SMT
  <2>3. m \in msgs <=> n \in msgs
    BY <2>2 DEF SameKey
  <2> QED BY <1>c, <2>3 DEF SafetyInv, OneMessage
<1>3. UnusedInv'
  <2> SUFFICES ASSUME NEW i \in Instances, NEW p \in ProposalIDs,
                      p[2] > proposalCount'[p[1]]
               PROVE  /\ \A l \in Leaders : protocols'[l][i][p].state = "ABSENT"
                      /\ \A a \in Acceptors : acceptorState[a][i][p] = "ABSENT"
    BY <1>a DEF UnusedInv
  <2>1. p[2] > proposalCount[p[1]]
    BY <1>a, SMT
  <2>2. /\ \A l \in Leaders : protocols[l][i][p].state = "ABSENT"
        /\ \A a \in Acceptors : acceptorState[a][i][p] = "ABSENT"
    BY <2>1 DEF SafetyInv, UnusedInv
  <2>3. ASSUME NEW l \in Leaders PROVE protocols'[l][i][p].state = "ABSENT"
    <3>1. ~(l = p[1] /\ p[2] <= proposalCount'[l])
      BY <1>a, SMT
    <3>2. protocols'[l][i][p] = protocols[l][i][p] \/ protocols'[l][i][p] = NoProtocol
      BY <3>1 DEF Quiet
    <3> QED BY <2>2, <3>2, SMT DEF NoProtocol
  <2> QED BY <2>2, <2>3
<1>4. VoteInv'
  BY <1>a DEF SafetyInv, VoteInv
<1>5. ProtocolInv'
  <2> SUFFICES ASSUME NEW l \in Leaders, NEW i \in Instances, NEW p \in ProposalIDs
               PROVE  ProtocolOK(l, i, p)'
    BY DEF ProtocolInv
  <2>1. Agreed(i, p) \subseteq Agreed(i, p)' /\ Agreed(i, p)' \subseteq Acceptors
    BY <1>a, <1>b, <1>c DEF Agreed, Promisers
  <2>2. Heard(l, i, p) \subseteq Heard(l, i, p)' /\ Heard(l, i, p)' \subseteq Acceptors
    BY <1>a, <1>b, <1>c DEF Heard
  <2>3. Cardinality(Agreed(i, p)') \in Nat /\ Cardinality(Heard(l, i, p)') \in Nat
    BY <2>1, <2>2, AcceptorSets
  <2>4. CASE protocols'[l][i][p] = protocols[l][i][p]
    BY <2>1, <2>2, <2>4, OtherProtocols
  <2>5. CASE protocols'[l][i][p] = NoProtocol
    BY <2>5, SMT DEF NoProtocol, ProtocolOK
  <2>6. CASE l = p[1] /\ \E v \in Value : protocols'[l][i][p] = Proposed(v)
    BY <2>3, <2>6, SMT DEF Proposed, ProtocolOK
  <2> QED BY <2>4, <2>5, <2>6 DEF Quiet
<1>6. CarryInv'
  <2> SUFFICES ASSUME NEW i \in Instances, NEW p \in ProposalIDs, NEW v \in Value,
                      Carries(i, p, v)'
               PROVE  PhaseTwoOK(i, p, v)'
    BY DEF CarryInv
  <2>1. ASSUME NEW w \in Value, Carries(i, p, w)' PROVE Carries(i, p, w)
    <3>1. CASE \E m \in msgs' : /\ m.command \in {"ACCEPT", "ACCEPTED"}
                                /\ m.instanceID = i /\ m.proposalID = p /\ m.value = w
      BY <1>c, <3>1 DEF Carries
    <3>2. CASE \E a \in Acceptors : vote'[a][i][p] = w
      BY <1>a, <3>2 DEF Carries
    <3>3. CASE \E l \in Leaders : /\ protocols'[l][i][p].state \in {"AGREED", "ACCEPTED"}
                                  /\ protocols'[l][i][p].value = w
      <4> PICK l \in Leaders : /\ protocols'[l][i][p].state \in {"AGREED", "ACCEPTED"}
                               /\ protocols'[l][i][p].value = w
        BY <3>3
      <4>1. protocols'[l][i][p] # NoProtocol
        BY SMTT(30) DEF NoProtocol
      <4>2. \A u \in Value : protocols'[l][i][p] # Proposed(u)
        BY SMTT(30) DEF Proposed
      <4>3. protocols'[l][i][p] = protocols[l][i][p]
        BY <4>1, <4>2, SMTT(30) DEF Quiet
      <4> QED BY <4>3 DEF Carries
    <3> QED BY <2>1, <3>1, <3>2, <3>3 DEF Carries
  <2>2. Carries(i, p, v)
    BY <2>1
  <2>3. Promisers(i, p)' = Promisers(i, p)
    BY <1>a DEF Promisers
  <2>4. ~(p[2] > proposalCount[p[1]])
    BY <2>2, UnusedCarriesNothing
  <2>5. \/ protocols'[p[1]][i][p] = protocols[p[1]][i][p]
        \/ protocols'[p[1]][i][p] = NoProtocol
    BY <2>4 DEF Quiet
  <2>6. NoProtocol.state # "PROPOSED"
    BY DEF NoProtocol
  <2> QED BY <2>1, <2>3, <2>5, <2>6, PhaseTwoKept
<1>7. LearnedIsChosen'
  BY <1>a, LearnedKept DEF VotesKept
<1> QED BY <1>1, <1>2, <1>3, <1>4, <1>5, <1>6, <1>7 DEF SafetyInv

\* newProposal draws the ID proposalCount + 1, which no earlier proposal has.
LEMMA RecvExtProposeIsQuiet ==
    ASSUME TypeOK, NEW l \in Leaders, NEW v \in Values, RecvExtPropose(l, v)
    PROVE  Quiet
<1> DEFINE i == highestInstance[l] + 1
           p == NumberedID(l, proposalCount[l] + 1)
<1>1. /\ proposalCount' = [proposalCount EXCEPT ![l] = @ + 1]
      /\ protocols' = [protocols EXCEPT ![l][i][p] = Proposed(v)]
      /\ msgs' = msgs \cup Proposals(l, v, p, i)
      /\ UNCHANGED <<learned, acceptorState, vote>>
  BY DEF RecvExtPropose, acceptorVars
<1>2. p[1] = l /\ p[2] = proposalCount[l] + 1
  BY DEF NumberedID
<1> HIDE DEF i, p
<1>3. \A k \in Leaders : /\ proposalCount[k] \in Nat
                         /\ proposalCount'[k] = IF k = l THEN proposalCount[k] + 1
                                                ELSE proposalCount[k]
  BY <1>1, BoundsAssumption, SMT DEF TypeOK
<1>4. v \in Value /\ v # None
  BY ConstantTypes DEF Value
<1>5. \A m \in msgs' \ msgs :
          /\ m.command = "PROPOSE" /\ m.source = m.proposalID[1]
          /\ m.to \in Acceptors /\ m.value # None
          /\ m.proposalID[2] > proposalCount[m.proposalID[1]]
          /\ m.proposalID[2] <= proposalCount'[m.proposalID[1]]
          /\ \A n \in msgs' \ msgs : SameKey(m, n) => m = n
  BY <1>1, <1>2, <1>3, <1>4, SMT DEF Proposals, SameKey
<1>6. ASSUME NEW k \in Leaders, NEW j \in Instances, NEW q \in ProposalIDs
      PROVE  \/ protocols'[k][j][q] = protocols[k][j][q]
             \/ k = l /\ q = p /\ protocols'[k][j][q] = Proposed(v)
  <2>1. protocols \in [Leaders -> [Instances -> [ProposalIDs -> LeaderProtocol]]]
    BY DEF TypeOK
  <2> QED BY <1>1, <2>1, SMT
<1>7. \A k \in Leaders : proposalCount'[k] >= proposalCount[k]
  BY <1>3, SMTT(30)
<1>8. UNCHANGED <<learned, acceptorState, vote>>
  BY <1>1
<1>9. ASSUME NEW k \in Leaders, NEW j \in Instances, NEW q \in ProposalIDs
      PROVE  \/ protocols'[k][j][q] = protocols[k][j][q]
             \/ protocols'[k][j][q] = NoProtocol
             \/ /\ k = q[1] /\ q[2] > proposalCount[k] /\ q[2] <= proposalCount'[k]
                /\ \E u \in Value : protocols'[k][j][q] = Proposed(u)
  BY <1>2, <1>3, <1>4, <1>6, SMT
<1> QED
  BY <1>5, <1>7, <1>8, <1>9 DEF Quiet

\* findAndFillGaps draws one fresh ID per gap, and garbageCollect only forgets protocols.
LEMMA FillGapsAndCollectIsQuiet ==
    ASSUME TypeOK, NEW l \in Leaders, FillGapsAndCollect(l)
    PROVE  Quiet
<1>1. /\ proposalCount' = [proposalCount EXCEPT ![l] = @ + Cardinality(Gaps(l))]
      /\ protocols' = [protocols EXCEPT ![l] =
             [i \in Instances |-> [p \in ProposalIDs |->
                 IF i \in Gaps(l) /\ p = GapProposalID(l, i) THEN Proposed(NoOp)
                 ELSE IF protocols[l][i][p].state = "ACCEPTED" THEN NoProtocol
                 ELSE protocols[l][i][p]]]]
      /\ msgs' = msgs \cup UNION {Proposals(l, NoOp, GapProposalID(l, i), i) :
                                     i \in Gaps(l)}
      /\ UNCHANGED <<learned, acceptorState, vote>>
      /\ proposalCount[l] + Cardinality(Gaps(l)) <= MaxProposals
  BY DEF FillGapsAndCollect, acceptorVars
<1>2. Cardinality(Gaps(l)) \in Nat
  BY GapsFinite, FS_CardinalityType
<1>3. \A i \in Gaps(l) :
          /\ GapProposalID(l, i)[1] = l
          /\ GapProposalID(l, i)[2] \in Nat
          /\ GapProposalID(l, i)[2] > proposalCount[l]
          /\ GapProposalID(l, i)[2] <= proposalCount[l] + Cardinality(Gaps(l))
  BY <1>1, GapIDs, Shapes
<1>4. \A k \in Leaders :
          /\ proposalCount[k] \in Nat
          /\ proposalCount'[k] = IF k = l THEN proposalCount[k] + Cardinality(Gaps(l))
                                 ELSE proposalCount[k]
  BY <1>1, BoundsAssumption, SMT DEF TypeOK
<1>5. NoOp \in Value /\ NoOp # None
  BY ConstantTypes
<1>6. \A m \in msgs' \ msgs :
          \E i \in Gaps(l) : m \in Proposals(l, NoOp, GapProposalID(l, i), i)
  BY <1>1
<1>7. ASSUME NEW m \in msgs' \ msgs
      PROVE  /\ m.command = "PROPOSE" /\ m.source = m.proposalID[1]
             /\ m.to \in Acceptors /\ m.value # None
             /\ m.proposalID[2] > proposalCount[m.proposalID[1]]
             /\ m.proposalID[2] <= proposalCount'[m.proposalID[1]]
             /\ \A n \in msgs' \ msgs : SameKey(m, n) => m = n
  <2>1. PICK i \in Gaps(l) : m \in Proposals(l, NoOp, GapProposalID(l, i), i)
    BY <1>6
  <2>2. /\ m.command = "PROPOSE" /\ m.source = l /\ m.to \in Acceptors
        /\ m.value = NoOp /\ m.proposalID = GapProposalID(l, i)
    BY <2>1, SMT DEF Proposals
  <2>3. ASSUME NEW n \in msgs' \ msgs, SameKey(m, n) PROVE m = n
    <3>1. PICK j \in Gaps(l) : n \in Proposals(l, NoOp, GapProposalID(l, j), j)
      BY <1>6
    <3>2. i = j
      BY <2>1, <2>3, <3>1, SMT DEF Proposals, SameKey
    <3> QED BY <2>1, <2>3, <3>1, <3>2, SMTT(30) DEF Proposals, SameKey
  <2> QED BY <1>3, <1>4, <1>5, <2>2, <2>3, SMTT(30)
<1>8. ASSUME NEW k \in Leaders, NEW i \in Instances, NEW p \in ProposalIDs
      PROVE  \/ protocols'[k][i][p] = protocols[k][i][p]
             \/ protocols'[k][i][p] = NoProtocol
             \/ /\ k = p[1] /\ p[2] > proposalCount[k] /\ p[2] <= proposalCount'[k]
                /\ \E v \in Value : protocols'[k][i][p] = Proposed(v)
  <2>1. protocols \in [Leaders -> [Instances -> [ProposalIDs -> LeaderProtocol]]]
    BY DEF TypeOK
  <2>2. CASE k # l
    BY <1>1, <2>1, <2>2
  <2>3. CASE k = l
    <3>1. protocols'[k][i][p] =
              IF i \in Gaps(l) /\ p = GapProposalID(l, i) THEN Proposed(NoOp)
              ELSE IF protocols[l][i][p].state = "ACCEPTED" THEN NoProtocol
              ELSE protocols[l][i][p]
      BY <1>1, <2>1, <2>3
    <3> QED BY <1>3, <1>4, <1>5, <2>3, <3>1
  <2> QED BY <2>2, <2>3
<1>9. \A k \in Leaders : proposalCount'[k] >= proposalCount[k]
  BY <1>2, <1>4, SMT
<1>10. UNCHANGED <<learned, acceptorState, vote>>
  BY <1>1
<1> QED
  BY <1>7, <1>8, <1>9, <1>10 DEF Quiet

-----------------------------------------------------------------------------
(***************************************************************************)
(* The leader steps of ToyPaxos that count: an AGREE below the quorum, the *)
(* AGREE that completes it, an ACCEPTED.  Each is described by what it does*)
(* to the state (CountsAgree, CompletesAgree, CountsAccepted) and preserves*)
(* SafetyInv.                                                              *)
(***************************************************************************)

\* The step replaces leader l's protocol for p by new.
SetsProtocol(l, i, p, new) ==
    \A k \in Leaders, j \in Instances, q \in ProposalIDs :
        protocols'[k][j][q] =
            IF k = l /\ j = i /\ q = p THEN new ELSE protocols[k][j][q]

\* An AGREE that does not complete the quorum is counted.
CountsAgree(l, m, i, p, new) ==
    /\ i = m.instanceID /\ p = m.proposalID
    /\ m.command = "AGREE"
    /\ protocols[l][i][p].state = "PROPOSED"
    /\ new.state = "PROPOSED"
    /\ new.value = protocols[l][i][p].value
    /\ new.agreecount = protocols[l][i][p].agreecount + 1
    /\ new.acceptcount = protocols[l][i][p].acceptcount
    /\ SetsProtocol(l, i, p, new)
    /\ msgs' = msgs \ {m}
    /\ UNCHANGED <<proposalCount, learned, acceptorState, vote>>

\* Counting one AGREE keeps agreecount at most the number of acceptors that promised and
\* whose AGREE is no longer on its way.
LEMMA CountAgree ==
    ASSUME TypeOK, SafetyInv, NEW l \in Leaders, NEW m \in msgs,
           NEW i \in Instances, NEW p \in ProposalIDs, NEW new,
           CountsAgree(l, m, i, p, new)
    PROVE  SafetyInv'
<1>1. /\ i = m.instanceID /\ p = m.proposalID /\ m.command = "AGREE"
      /\ SetsProtocol(l, i, p, new)
  BY DEF CountsAgree
<1>2. /\ protocols[l][i][p].state = "PROPOSED" /\ new.state = "PROPOSED"
      /\ new.value = protocols[l][i][p].value
      /\ new.agreecount = protocols[l][i][p].agreecount + 1
      /\ new.acceptcount = protocols[l][i][p].acceptcount
  BY DEF CountsAgree
<1>3. /\ msgs' = msgs \ {m}
      /\ proposalCount' = proposalCount /\ learned' = learned
      /\ acceptorState' = acceptorState /\ vote' = vote
  BY DEF CountsAgree
<1>4. MessageInv' /\ OneMessage' /\ VoteInv'
  BY <1>3, FewerMessages
<1>5. \A k \in Leaders, j \in Instances, q \in ProposalIDs :
          /\ protocols'[k][j][q].state = protocols[k][j][q].state
          /\ protocols'[k][j][q].value = protocols[k][j][q].value
  BY <1>1, <1>2, SMTT(30) DEF SetsProtocol
<1>6. UnusedInv'
  BY <1>3, <1>5, SMT DEF SafetyInv, UnusedInv
<1>7. \A j, q : /\ Agreed(j, q) \subseteq Agreed(j, q)'
                /\ Agreed(j, q)' \subseteq Acceptors
                /\ j = i /\ q = p => m.source \in Agreed(j, q)' \ Agreed(j, q)
  BY <1>1, <1>3, AgreeTaken
<1>8. \A k, j, q : /\ Heard(k, j, q) \subseteq Heard(k, j, q)'
                   /\ Heard(k, j, q)' \subseteq Acceptors
  BY <1>3, SMT DEF Heard
<1>9. ProtocolInv'
  <2> SUFFICES ASSUME NEW k \in Leaders, NEW j \in Instances, NEW q \in ProposalIDs
               PROVE  ProtocolOK(k, j, q)'
    BY DEF ProtocolInv
  <2>1. CASE k = l /\ j = i /\ q = p
    <3> DEFINE n == protocols[l][i][p].agreecount
               c == Cardinality(Agreed(i, p))
               d == Cardinality(Agreed(i, p)')
               h == Cardinality(Heard(l, i, p)')
    <3>1. c \in Nat /\ d \in Nat /\ c + 1 <= d
      BY <1>7, OneMore, AcceptorSets
    <3>2. h \in Nat
      BY <1>8, AcceptorSets
    <3>3. n \in Nat
      BY ProtocolTypes
    <3>4. l = p[1] /\ new.acceptcount = 0 /\ n <= c /\ new.value # None
      BY <1>2, SMT DEF SafetyInv, ProtocolInv, ProtocolOK
    <3>5. new.agreecount = n + 1
      BY <1>2
    <3>6. protocols'[l][i][p] = new
      BY <1>1 DEF SetsProtocol
    <3> HIDE DEF n, c, d, h
    <3>7. new.agreecount <= d /\ new.acceptcount <= h
      BY <3>1, <3>2, <3>3, <3>4, <3>5, SMT
    <3>8. ProtocolOK(l, i, p)'
      BY <3>4, <3>6, <3>7 DEF ProtocolOK, d, h
    <3> QED BY <2>1, <3>8
  <2>2. CASE ~(k = l /\ j = i /\ q = p)
    <3>1. protocols'[k][j][q] = protocols[k][j][q]
      BY <1>1, <2>2 DEF SetsProtocol
    <3> QED BY <1>7, <1>8, <3>1, OtherProtocols
  <2> QED BY <2>1, <2>2
<1>10. CarryInv'
  <2> SUFFICES ASSUME NEW j \in Instances, NEW q \in ProposalIDs, NEW v \in Value,
                      Carries(j, q, v)'
               PROVE  PhaseTwoOK(j, q, v)'
    BY DEF CarryInv
  <2>1. ASSUME NEW w, Carries(j, q, w)' PROVE Carries(j, q, w)
    <3>1. CASE \E x \in msgs' : /\ x.command \in {"ACCEPT", "ACCEPTED"}
                                /\ x.instanceID = j /\ x.proposalID = q /\ x.value = w
      BY <1>3, <3>1 DEF Carries
    <3>2. CASE \E b \in Acceptors : vote'[b][j][q] = w
      BY <1>3, <3>2 DEF Carries
    <3>3. CASE \E k \in Leaders : /\ protocols'[k][j][q].state \in {"AGREED", "ACCEPTED"}
                                  /\ protocols'[k][j][q].value = w
      BY <1>5, <3>3 DEF Carries
    <3> QED BY <2>1, <3>1, <3>2, <3>3 DEF Carries
  <2>2. Promisers(j, q)' = Promisers(j, q)
    BY <1>3 DEF Promisers
  <2>3. protocols'[q[1]][j][q].state = protocols[q[1]][j][q].state
    BY <1>5, Shapes
  <2> QED BY <2>1, <2>2, <2>3, PhaseTwoKept
<1>11. LearnedIsChosen'
  BY <1>3, LearnedKept DEF VotesKept
<1> QED BY <1>4, <1>6, <1>9, <1>10, <1>11 DEF SafetyInv

\* An AGREE completes the quorum.
CompletesAgree(l, m, i, p, v, new) ==
    /\ i = m.instanceID /\ p = m.proposalID
    /\ m.command = "AGREE"
    /\ protocols[l][i][p].state = "PROPOSED"
    /\ protocols[l][i][p].agreecount + 1 >= getQuorumSize
    /\ new.state = "AGREED"
    /\ new.value = v
    /\ new.acceptcount = protocols[l][i][p].acceptcount
    /\ SetsProtocol(l, i, p, new)
    /\ msgs' = (msgs \ {m}) \cup AcceptRequests(l, v, p, i)
    /\ UNCHANGED <<proposalCount, learned, acceptorState, vote>>

\* Phase two starts with a value that is the only one its proposal will ever have.
LEMMA CompleteAgree ==
    ASSUME TypeOK, SafetyInv, NEW l \in Leaders, NEW m \in msgs,
           NEW i \in Instances, NEW p \in ProposalIDs, NEW v \in Value, NEW new,
           CompletesAgree(l, m, i, p, v, new)
    PROVE  SafetyInv'
<1> DEFINE requests == AcceptRequests(l, v, p, i)
<1>1. /\ i = m.instanceID /\ p = m.proposalID /\ m.command = "AGREE"
      /\ SetsProtocol(l, i, p, new)
  BY DEF CompletesAgree
<1>2. /\ protocols[l][i][p].state = "PROPOSED"
      /\ protocols[l][i][p].agreecount + 1 >= getQuorumSize
      /\ new.state = "AGREED" /\ new.value = v
      /\ new.acceptcount = protocols[l][i][p].acceptcount
  BY DEF CompletesAgree
<1>3. /\ msgs' = (msgs \ {m}) \cup requests
      /\ proposalCount' = proposalCount /\ learned' = learned
      /\ acceptorState' = acceptorState /\ vote' = vote
  BY DEF CompletesAgree
<1>4. \A x \in requests :
          /\ x.command = "ACCEPT" /\ x.source = l /\ x.to \in Acceptors
          /\ x.proposalID = p /\ x.instanceID = i /\ x.value = v
          /\ \A y \in requests : SameKey(x, y) => x = y
  BY SMT DEF AcceptRequests, SameKey
<1> HIDE DEF requests
<1>5. m \notin msgs' /\ \A x \in msgs' : x \in msgs \/ x \in requests
  BY <1>1, <1>3, <1>4
<1>6. /\ l = p[1] /\ new.acceptcount = 0
      /\ protocols[l][i][p].agreecount <= Cardinality(Agreed(i, p))
  BY <1>2 DEF SafetyInv, ProtocolInv, ProtocolOK
<1>7. p[2] <= proposalCount[p[1]]
  BY <1>1 DEF SafetyInv, MessageInv, MessageOK
<1>8. \A w \in Value : ~Carries(i, p, w)
  BY <1>2, <1>6 DEF SafetyInv, CarryInv, PhaseTwoOK
<1>9. MessageInv'
  <2> SUFFICES ASSUME NEW x \in msgs' PROVE MessageOK(x)'
    BY DEF MessageInv
  <2>1. CASE x \in msgs
    BY <1>3, <2>1 DEF SafetyInv, MessageInv, MessageOK
  <2>2. CASE x \in requests
    <3>1. /\ x.command = "ACCEPT" /\ x.source = l /\ x.to \in Acceptors
          /\ x.proposalID = p /\ x.value = v
      BY <1>4, <2>2
    <3> QED BY <1>3, <1>6, <1>7, <3>1, Shapes DEF MessageOK
  <2> QED BY <1>5, <2>1, <2>2
<1>10. OneMessage'
  <2>1. ASSUME NEW x \in msgs, x.command = "ACCEPT", x.instanceID = i, x.proposalID = p
        PROVE  FALSE
    <3>1. x.value # None
      BY <2>1 DEF SafetyInv, MessageInv, MessageOK
    <3>2. x.value \in Value
      BY <3>1, Shapes DEF TypeOK
    <3> QED BY <1>8, <2>1, <3>2 DEF Carries
  <2>2. \A x \in msgs, y \in requests : ~SameKey(x, y) /\ ~SameKey(y, x)
    BY <1>4, <2>1 DEF SameKey
  <2> SUFFICES ASSUME NEW x \in msgs', NEW y \in msgs', SameKey(x, y) PROVE x = y
    BY DEF OneMessage, SameKey
  <2> QED BY <1>4, <1>5, <2>2 DEF SafetyInv, OneMessage
<1>11. UnusedInv'
  <2>1. OnlyProposal(p)
    BY <1>1, <1>3, SMT DEF OnlyProposal, SetsProtocol
  <2> QED BY <1>7, <2>1, UnusedKept
<1>12. VoteInv'
  BY <1>3 DEF SafetyInv, VoteInv
<1>13. \A j, q : /\ Agreed(j, q) \subseteq Agreed(j, q)'
                 /\ Agreed(j, q)' \subseteq Promisers(j, q)
                 /\ Promisers(j, q)' = Promisers(j, q)
                 /\ Promisers(j, q) \subseteq Acceptors
                 /\ j = i /\ q = p => m.source \in Agreed(j, q)' \ Agreed(j, q)
  <2>1. \A x \in msgs' \ msgs : x.command # "AGREE"
    BY <1>4, <1>5
  <2> QED BY <1>1, <1>3, <1>5, <2>1, AgreeTaken
<1>14. ProtocolInv'
  <2> SUFFICES ASSUME NEW k \in Leaders, NEW j \in Instances, NEW q \in ProposalIDs
               PROVE  ProtocolOK(k, j, q)'
    BY DEF ProtocolInv
  <2>1. Heard(k, j, q) \subseteq Heard(k, j, q)' /\ Heard(k, j, q)' \subseteq Acceptors
    BY <1>3, <1>4, <1>5 DEF Heard
  <2>2. CASE k = l /\ j = i /\ q = p
    <3> DEFINE h == Cardinality(Heard(k, j, q)')
    <3>1. h \in Nat
      BY <2>1, AcceptorSets
    <3>2. protocols'[k][j][q] = new
      BY <1>1, <2>2 DEF SetsProtocol
    <3> HIDE DEF h
    <3>3. new.acceptcount <= h /\ new.value # None
      BY <1>2, <1>6, <3>1, Shapes, SMT
    <3> QED BY <1>2, <3>2, <3>3 DEF ProtocolOK, h
  <2>3. CASE ~(k = l /\ j = i /\ q = p)
    <3>1. protocols'[k][j][q] = protocols[k][j][q]
      BY <1>1, <2>3 DEF SetsProtocol
    <3>2. Agreed(j, q) \subseteq Agreed(j, q)' /\ Agreed(j, q)' \subseteq Acceptors
      BY <1>13
    <3> QED BY <2>1, <3>1, <3>2, OtherProtocols
  <2> QED BY <2>2, <2>3
<1>15. ASSUME NEW j \in Instances, NEW q \in ProposalIDs, NEW w \in Value, Carries(j, q, w)'
       PROVE  Carries(j, q, w) \/ (j = i /\ q = p /\ w = v)
  <2>1. CASE \E x \in msgs' : /\ x.command \in {"ACCEPT", "ACCEPTED"}
                              /\ x.instanceID = j /\ x.proposalID = q /\ x.value = w
    BY <1>4, <1>5, <2>1 DEF Carries
  <2>2. CASE \E b \in Acceptors : vote'[b][j][q] = w
    BY <1>3, <2>2 DEF Carries
  <2>3. CASE \E k \in Leaders : /\ protocols'[k][j][q].state \in {"AGREED", "ACCEPTED"}
                                /\ protocols'[k][j][q].value = w
    <3>1. PICK k \in Leaders : /\ protocols'[k][j][q].state \in {"AGREED", "ACCEPTED"}
                               /\ protocols'[k][j][q].value = w
      BY <2>3
    <3>2. CASE k = l /\ j = i /\ q = p
      <4>1. protocols'[k][j][q] = new
        BY <1>1, <3>2 DEF SetsProtocol
      <4> QED BY <1>2, <3>1, <3>2, <4>1
    <3>3. CASE ~(k = l /\ j = i /\ q = p)
      <4>1. protocols'[k][j][q] = protocols[k][j][q]
        BY <1>1, <3>3 DEF SetsProtocol
      <4> QED BY <3>1, <4>1 DEF Carries
    <3> QED BY <3>2, <3>3
  <2> QED BY <1>15, <2>1, <2>2, <2>3 DEF Carries
<1>16. IsMajority(Promisers(i, p))
  <2> DEFINE n == protocols[l][i][p].agreecount
             c == Cardinality(Agreed(i, p))
             d == Cardinality(Agreed(i, p)')
  <2>1. c \in Nat /\ d \in Nat /\ c + 1 <= d /\ Cardinality(Acceptors) \in Nat
    BY <1>13, OneMore, AcceptorSets
  <2>2. n \in Nat /\ n <= c /\ n + 1 >= getQuorumSize
    BY <1>2, <1>6, ProtocolTypes
  <2>3. getQuorumSize \in Nat
    BY <2>1, SMT DEF getQuorumSize
  <2> HIDE DEF n, c, d
  <2>4. d >= getQuorumSize
    BY <2>1, <2>2, <2>3, SMT
  <2>5. IsMajority(Agreed(i, p)')
    BY <1>13, <2>4, QuorumIsMajority DEF d
  <2> QED BY <1>13, <2>5, LargerMajority
<1>17. CarryInv'
  <2> SUFFICES ASSUME NEW j \in Instances, NEW q \in ProposalIDs, NEW u \in Value,
                      Carries(j, q, u)'
               PROVE  PhaseTwoOK(j, q, u)'
    BY DEF CarryInv
  <2>1. CASE j = i /\ q = p
    <3>1. \A w \in Value : Carries(j, q, w)' => w = u
      BY <1>8, <1>15, <2>1
    <3>2. protocols'[q[1]][j][q].state # "PROPOSED"
      BY <1>1, <1>2, <1>6, <2>1 DEF SetsProtocol
    <3>3. IsMajority(Promisers(j, q))'
      BY <1>13, <1>16, <2>1 DEF IsMajority
    <3> QED BY <3>1, <3>2, <3>3 DEF PhaseTwoOK
  <2>2. CASE ~(j = i /\ q = p)
    <3>1. protocols'[q[1]][j][q] = protocols[q[1]][j][q]
      BY <1>1, <2>2, Shapes, SMT DEF SetsProtocol
    <3>2. \A w \in Value : Carries(j, q, w)' => Carries(j, q, w)
      BY <1>15, <2>2
    <3>3. Promisers(j, q) \subseteq Promisers(j, q)'
      BY <1>13
    <3> QED BY <3>1, <3>2, <3>3, PhaseTwoKept
  <2> QED BY <2>1, <2>2
<1>18. LearnedIsChosen'
  BY <1>3, LearnedKept DEF VotesKept
<1> QED BY <1>9, <1>10, <1>11, <1>12, <1>14, <1>17, <1>18 DEF SafetyInv

\* An ACCEPTED is counted and may complete the quorum.
CountsAccepted(l, m, i, p, new) ==
    /\ i = m.instanceID /\ p = m.proposalID
    /\ m.command = "ACCEPTED" /\ m.to = l
    /\ new.state \in {"AGREED", "ACCEPTED"}
    /\ \/ /\ protocols[l][i][p].state = "ABSENT"
          /\ new.acceptcount = 1 /\ new.value = m.value
       \/ /\ protocols[l][i][p].state = "AGREED"
          /\ new.acceptcount = protocols[l][i][p].acceptcount + 1
          /\ new.value = protocols[l][i][p].value
    /\ SetsProtocol(l, i, p, new)
    /\ msgs' = msgs \ {m}
    /\ \A k \in Leaders, j \in Instances :
          \/ learned'[k][j] = learned[k][j]
          \/ /\ k = l /\ j = i /\ learned'[k][j] = m.value
             /\ new.acceptcount >= getQuorumSize
    /\ UNCHANGED <<proposalCount, acceptorState, vote>>

\* The ACCEPTED that completes the quorum makes the leader learn its value, which all votes
\* under this proposal are for.
LEMMA CountAccepted ==
    ASSUME TypeOK, SafetyInv, NEW l \in Leaders, NEW m \in msgs,
           NEW i \in Instances, NEW p \in ProposalIDs, NEW new,
           CountsAccepted(l, m, i, p, new)
    PROVE  /\ SafetyInv'
           /\ new.acceptcount >= getQuorumSize =>
                 m.value \in Value /\ IsMajority(Voters(i, p, m.value))
<1>1. /\ i = m.instanceID /\ p = m.proposalID /\ m.command = "ACCEPTED" /\ m.to = l
      /\ SetsProtocol(l, i, p, new) /\ new.state \in {"AGREED", "ACCEPTED"}
  BY DEF CountsAccepted
<1>2. \/ /\ protocols[l][i][p].state = "ABSENT"
         /\ new.acceptcount = 1 /\ new.value = m.value
      \/ /\ protocols[l][i][p].state = "AGREED"
         /\ new.acceptcount = protocols[l][i][p].acceptcount + 1
         /\ new.value = protocols[l][i][p].value
  BY DEF CountsAccepted
<1>3. /\ msgs' = msgs \ {m} /\ proposalCount' = proposalCount
      /\ acceptorState' = acceptorState /\ vote' = vote
  BY DEF CountsAccepted
<1>4. MessageInv' /\ OneMessage' /\ VoteInv'
  BY <1>3, FewerMessages
<1>5. MessageOK(m) /\ m \in Message
  BY DEF SafetyInv, MessageInv, TypeOK
<1>6. /\ m.value \in Value /\ p[2] <= proposalCount[p[1]]
      /\ m.source \in Acceptors /\ vote[m.source][i][p] = m.value
  BY <1>1, <1>5, Shapes DEF MessageOK
<1>7. Carries(i, p, m.value)
  BY <1>6 DEF Carries
<1>8. \A k, j, q :
          /\ Heard(k, j, q) \subseteq Heard(k, j, q)' /\ Heard(k, j, q)' \subseteq Acceptors
          /\ k = l /\ j = i /\ q = p => m.source \in Heard(k, j, q)' \ Heard(k, j, q)
  BY <1>1, <1>3, AcceptedTaken
<1>9. new.acceptcount \in Nat /\ new.acceptcount <= Cardinality(Heard(l, i, p)')
  <2> DEFINE n == protocols[l][i][p].acceptcount
             c == Cardinality(Heard(l, i, p))
             d == Cardinality(Heard(l, i, p)')
  <2>1. c \in Nat /\ d \in Nat /\ c + 1 <= d
    BY <1>8, OneMore, AcceptorSets
  <2>2. protocols[l][i][p].state # "ABSENT" => n <= c
    BY DEF SafetyInv, ProtocolInv, ProtocolOK
  <2>3. n \in Nat
    BY ProtocolTypes
  <2>4. new.acceptcount = 1 \/ (new.acceptcount = n + 1 /\ n <= c)
    BY <1>2, <2>2
  <2> HIDE DEF c, d, n
  <2>5. new.acceptcount \in Nat /\ new.acceptcount <= d
    BY <2>1, <2>3, <2>4, SMT
  <2> QED BY <2>5 DEF d
<1>10. UnusedInv'
  <2>1. OnlyProposal(p)
    BY <1>1, <1>3, SMT DEF OnlyProposal, SetsProtocol
  <2> QED BY <1>6, <2>1, UnusedKept
<1>11. ProtocolInv'
  <2> SUFFICES ASSUME NEW k \in Leaders, NEW j \in Instances, NEW q \in ProposalIDs
               PROVE  ProtocolOK(k, j, q)'
    BY DEF ProtocolInv
  <2>1. CASE k = l /\ j = i /\ q = p
    <3>1. protocols'[l][i][p] = new
      BY <1>1 DEF SetsProtocol
    <3>2. new.value # None
      <4>1. protocols[l][i][p].state # "ABSENT" => protocols[l][i][p].value # None
        BY DEF SafetyInv, ProtocolInv, ProtocolOK
      <4>2. m.value # None
        BY <1>6, Shapes
      <4> QED BY <1>2, <4>1, <4>2
    <3>3. ProtocolOK(l, i, p)'
      BY <1>1, <1>9, <3>1, <3>2 DEF ProtocolOK
    <3> QED BY <2>1, <3>3
  <2>2. CASE ~(k = l /\ j = i /\ q = p)
    <3>1. protocols'[k][j][q] = protocols[k][j][q]
      BY <1>1, <2>2, SMT DEF SetsProtocol
    <3>2. Agreed(j, q) \subseteq Agreed(j, q)' /\ Agreed(j, q)' \subseteq Acceptors
      BY <1>3 DEF Agreed, Promisers
    <3> QED BY <1>8, <3>1, <3>2, OtherProtocols
  <2> QED BY <2>1, <2>2
<1>12. ASSUME NEW j \in Instances, NEW q \in ProposalIDs, NEW w \in Value, Carries(j, q, w)'
       PROVE  Carries(j, q, w)
  <2>1. CASE \E x \in msgs' : /\ x.command \in {"ACCEPT", "ACCEPTED"}
                              /\ x.instanceID = j /\ x.proposalID = q /\ x.value = w
    BY <1>3, <2>1 DEF Carries
  <2>2. CASE \E b \in Acceptors : vote'[b][j][q] = w
    BY <1>3, <2>2 DEF Carries
  <2>3. ASSUME NEW k \in Leaders, protocols'[k][j][q].state \in {"AGREED", "ACCEPTED"},
               protocols'[k][j][q].value = w
        PROVE  Carries(j, q, w)
    <3>1. CASE k = l /\ j = i /\ q = p
      <4>1. w = new.value
        BY <1>1, <2>3, <3>1 DEF SetsProtocol
      <4>2. CASE protocols[l][i][p].state = "AGREED" /\ new.value = protocols[l][i][p].value
        BY <3>1, <4>1, <4>2 DEF Carries
      <4>3. CASE new.value = m.value
        BY <1>7, <3>1, <4>1, <4>3
      <4> QED BY <1>2, <4>2, <4>3
    <3>2. CASE ~(k = l /\ j = i /\ q = p)
      BY <1>1, <2>3, <3>2, SMT DEF Carries, SetsProtocol
    <3> QED BY <3>1, <3>2
  <2> QED BY <1>12, <2>1, <2>2, <2>3 DEF Carries
<1>13. CarryInv'
  <2> SUFFICES ASSUME NEW j \in Instances, NEW q \in ProposalIDs, NEW u \in Value,
                      Carries(j, q, u)'
               PROVE  PhaseTwoOK(j, q, u)'
    BY DEF CarryInv
  <2>1. Promisers(j, q)' = Promisers(j, q)
    BY <1>3 DEF Promisers
  <2>2. \/ protocols'[q[1]][j][q] = protocols[q[1]][j][q]
        \/ protocols'[q[1]][j][q] = new
    BY <1>1, Shapes, SMT DEF SetsProtocol
  <2>3. new.state # "PROPOSED"
    BY <1>1
  <2>4. \A w \in Value : Carries(j, q, w)' => Carries(j, q, w)
    BY <1>12
  <2> QED BY <2>1, <2>2, <2>3, <2>4, PhaseTwoKept
<1>14. ASSUME new.acceptcount >= getQuorumSize
       PROVE  IsMajority(Voters(i, p, m.value))
  <2> DEFINE d == Cardinality(Heard(l, i, p)')
  <2>1. d \in Nat /\ Cardinality(Acceptors) \in Nat /\ new.acceptcount <= d
    BY <1>8, <1>9, AcceptorSets
  <2>2. getQuorumSize \in Nat
    BY <2>1, SMT DEF getQuorumSize
  <2> HIDE DEF d
  <2>3. d >= getQuorumSize
    BY <1>9, <1>14, <2>1, <2>2, SMT
  <2>4. IsMajority(Heard(l, i, p)')
    BY <1>8, <2>3, QuorumIsMajority DEF d
  <2>5. ASSUME NEW a \in Heard(l, i, p)' PROVE a \in Voters(i, p, m.value)
    <3>1. a \in Acceptors /\ vote[a][i][p] # None
      BY <1>3, <2>5 DEF Heard
    <3>2. vote[a][i][p] \in Value
      BY <3>1, SMT DEF TypeOK
    <3>3. Carries(i, p, vote[a][i][p])
      BY <3>1 DEF Carries
    <3>4. vote[a][i][p] = m.value
      BY <1>6, <1>7, <3>2, <3>3 DEF SafetyInv, CarryInv, PhaseTwoOK
    <3> QED BY <3>1, <3>4 DEF Voters
  <2>6. Voters(i, p, m.value) \subseteq Acceptors
    BY DEF Voters
  <2> QED BY <2>4, <2>5, <2>6, LargerMajority
<1>15. LearnedIsChosen'
  <2>1. \A j, q, w : Voters(j, q, w)' = Voters(j, q, w)
    BY <1>3 DEF Voters
  <2> SUFFICES ASSUME NEW k \in Leaders, NEW j \in Instances, learned'[k][j] # None
               PROVE  \E q \in ProposalIDs : IsMajority(Voters(j, q, learned'[k][j]))
    BY <1>3, SMTT(30) DEF LearnedIsChosen, IsMajority, Voters
  <2>2. CASE learned'[k][j] = learned[k][j]
    BY <2>2 DEF SafetyInv, LearnedIsChosen
  <2>3. CASE j = i /\ learned'[k][j] = m.value /\ new.acceptcount >= getQuorumSize
    BY <1>14, <2>3
  <2> QED BY <2>2, <2>3 DEF CountsAccepted
<1> QED BY <1>4, <1>6, <1>10, <1>11, <1>13, <1>14, <1>15 DEF SafetyInv

-----------------------------------------------------------------------------
(***************************************************************************)
(* The acceptor steps of ToyPaxos that promise and vote, described by what *)
(* they do to the state (AnswersProposal, CastsVote), preserve SafetyInv.  *)
(***************************************************************************)

\* An acceptor that knows nothing of the proposal agrees to it, or rejects it in silence.
AnswersProposal(a, m, i, p, st, answer) ==
    /\ i = m.instanceID /\ p = m.proposalID
    /\ m.command = "PROPOSE" /\ m.to = a
    /\ \A b \in Acceptors, j \in Instances, q \in ProposalIDs :
          acceptorState'[b][j][q] =
              IF b = a /\ j = i /\ q = p THEN st ELSE acceptorState[b][j][q]
    /\ answer.command = "AGREE" /\ answer.source = a /\ answer.to = m.source
    /\ answer.proposalID = p /\ answer.instanceID = i
    /\ \/ st = "REJECTED" /\ msgs' = msgs \ {m}
       \/ st = "AGREED" /\ msgs' = (msgs \ {m}) \cup {answer}
    /\ UNCHANGED <<proposalCount, protocols, learned, vote>>

\* An AGREE goes out with the promise it reports; a refusal leaves no message.
LEMMA AnswerProposal ==
    ASSUME TypeOK, SafetyInv, NEW a \in Acceptors, NEW m \in msgs,
           NEW i \in Instances, NEW p \in ProposalIDs, NEW st, NEW answer,
           AnswersProposal(a, m, i, p, st, answer)
    PROVE  SafetyInv'
<1>1. i = m.instanceID /\ p = m.proposalID /\ m.command = "PROPOSE" /\ m.to = a
  BY DEF AnswersProposal
<1>2. \A b \in Acceptors, j \in Instances, q \in ProposalIDs :
          acceptorState'[b][j][q] =
              IF b = a /\ j = i /\ q = p THEN st ELSE acceptorState[b][j][q]
  BY DEF AnswersProposal
<1>3. /\ answer.command = "AGREE" /\ answer.source = a /\ answer.to = m.source
      /\ answer.proposalID = p /\ answer.instanceID = i
  BY DEF AnswersProposal
<1>4. /\ st \in {"AGREED", "REJECTED"}
      /\ \A x \in msgs' : (x \in msgs /\ x # m) \/ (x = answer /\ st = "AGREED")
  BY DEF AnswersProposal
<1>5. /\ proposalCount' = proposalCount /\ protocols' = protocols
      /\ learned' = learned /\ vote' = vote
  BY DEF AnswersProposal
<1>6. MessageOK(m) /\ msgs \subseteq Message
  BY DEF SafetyInv, MessageInv, TypeOK
<1>7. /\ acceptorState[a][i][p] = "ABSENT" /\ m.source = p[1]
      /\ p[2] <= proposalCount[p[1]]
  BY <1>1, <1>6 DEF MessageOK
<1>8. vote[a][i][p] = None
  BY <1>7 DEF SafetyInv, VoteInv
<1>9. MessageInv'
  <2> SUFFICES ASSUME NEW x \in msgs' PROVE MessageOK(x)'
    BY DEF MessageInv
  <2>1. CASE x \in msgs /\ x # m
    <3>1. MessageOK(x) /\ x.instanceID \in Instances /\ x.proposalID \in ProposalIDs
      BY <1>6, <2>1, Shapes DEF SafetyInv, MessageInv
    <3>2. ASSUME x.command = "PROPOSE"
          PROVE  acceptorState'[x.to][x.instanceID][x.proposalID] = "ABSENT"
      <4>1. /\ x.source = x.proposalID[1] /\ x.to \in Acceptors
            /\ acceptorState[x.to][x.instanceID][x.proposalID] = "ABSENT"
        BY <3>1, <3>2 DEF MessageOK
      <4>2. ~(x.to = a /\ x.instanceID = i /\ x.proposalID = p)
        BY <1>1, <1>7, <2>1, <3>2, <4>1, SMT DEF SafetyInv, OneMessage, SameKey
      <4> QED BY <1>2, <3>1, <4>1, <4>2
    <3>3. ASSUME x.command = "AGREE"
          PROVE  acceptorState'[x.source][x.instanceID][x.proposalID] \in {"AGREED", "ACCEPTED"}
      <4>1. /\ x.source \in Acceptors
            /\ acceptorState[x.source][x.instanceID][x.proposalID] \in {"AGREED", "ACCEPTED"}
        BY <3>1, <3>3 DEF MessageOK
      <4>2. ~(x.source = a /\ x.instanceID = i /\ x.proposalID = p)
        BY <1>7, <4>1
      <4> QED BY <1>2, <3>1, <4>1, <4>2
    <3> QED BY <1>5, <3>1, <3>2, <3>3 DEF MessageOK
  <2>2. CASE x = answer /\ st = "AGREED"
    <3>1. acceptorState'[a][i][p] = "AGREED"
      BY <1>2, <2>2
    <3> QED BY <1>3, <1>5, <1>7, <2>2, <3>1 DEF MessageOK
  <2> QED BY <1>4, <2>1, <2>2
<1>10. OneMessage'
  <2>1. \A z \in msgs : ~(z.command = "AGREE" /\ z.source = a /\ z.instanceID = i
                          /\ z.proposalID = p)
    BY <1>7 DEF SafetyInv, MessageInv, MessageOK
  <2>2. \A z \in msgs : ~SameKey(z, answer) /\ ~SameKey(answer, z)
    BY <1>3, <2>1 DEF SameKey
  <2> SUFFICES ASSUME NEW x \in msgs', NEW y \in msgs', SameKey(x, y) PROVE x = y
    BY DEF OneMessage, SameKey
  <2> QED BY <1>4, <2>2 DEF SafetyInv, OneMessage
<1>11. UnusedInv'
  <2>1. OnlyProposal(p)
    BY <1>2, <1>5, SMT DEF OnlyProposal
  <2> QED BY <1>7, <2>1, UnusedKept
<1>12. VoteInv'
  <2> SUFFICES ASSUME NEW b \in Acceptors, NEW j \in Instances, NEW q \in ProposalIDs
               PROVE  vote[b][j][q] # None <=> acceptorState'[b][j][q] = "ACCEPTED"
    BY <1>5 DEF VoteInv
  <2>1. CASE b = a /\ j = i /\ q = p
    BY <1>2, <1>4, <1>8, <2>1
  <2>2. CASE ~(b = a /\ j = i /\ q = p)
    <3>1. acceptorState'[b][j][q] = acceptorState[b][j][q]
      BY <1>2, <2>2
    <3> QED BY <3>1, SMT DEF SafetyInv, VoteInv
  <2> QED BY <2>1, <2>2
<1>13. \A j \in Instances, q \in ProposalIDs :
           /\ Promisers(j, q) \subseteq Promisers(j, q)'
           /\ Promisers(j, q)' \subseteq Acceptors
           /\ j = i /\ q = p => a \notin Promisers(j, q)
  BY <1>2, <1>7, SMT DEF Promisers
<1>14. ProtocolInv'
  <2> SUFFICES ASSUME NEW k \in Leaders, NEW j \in Instances, NEW q \in ProposalIDs
               PROVE  ProtocolOK(k, j, q)'
    BY DEF ProtocolInv
  <2>1. Agreed(j, q)' \subseteq Acceptors
    BY <1>13 DEF Agreed
  <2>2. ASSUME NEW b \in Agreed(j, q) PROVE b \in Agreed(j, q)'
    <3>1. b \in Promisers(j, q) /\ b \in Promisers(j, q)'
      BY <1>13, <2>2 DEF Agreed
    <3>2. ~(b = a /\ j = i /\ q = p)
      BY <1>13, <3>1
    <3>3. \A x \in msgs' : ~(/\ x.command = "AGREE" /\ x.source = b
                             /\ x.instanceID = j /\ x.proposalID = q)
      BY <1>3, <1>4, <2>2, <3>2 DEF Agreed
    <3> QED BY <3>1, <3>3 DEF Agreed
  <2>3. Heard(k, j, q) \subseteq Heard(k, j, q)' /\ Heard(k, j, q)' \subseteq Acceptors
    BY <1>3, <1>4, <1>5 DEF Heard
  <2>4. protocols'[k][j][q] = protocols[k][j][q]
    BY <1>5
  <2> QED BY <2>1, <2>2, <2>3, <2>4, OtherProtocols
<1>15. CarryInv'
  <2> SUFFICES ASSUME NEW j \in Instances, NEW q \in ProposalIDs, NEW u \in Value,
                      Carries(j, q, u)'
               PROVE  PhaseTwoOK(j, q, u)'
    BY DEF CarryInv
  <2>1. \A w \in Value : Carries(j, q, w)' => Carries(j, q, w)
    BY <1>3, <1>4, <1>5 DEF Carries
  <2>2. Promisers(j, q) \subseteq Promisers(j, q)'
    BY <1>13
  <2> QED BY <1>5, <2>1, <2>2, PhaseTwoKept
<1>16. LearnedIsChosen'
  BY <1>5, LearnedKept DEF VotesKept
<1> QED BY <1>9, <1>10, <1>11, <1>12, <1>14, <1>15, <1>16 DEF SafetyInv

\* An acceptor that has agreed votes, and tells every leader.
CastsVote(a, m, i, p, answers) ==
    /\ i = m.instanceID /\ p = m.proposalID
    /\ m.command = "ACCEPT"
    /\ acceptorState[a][i][p] = "AGREED"
    /\ \A b \in Acceptors, j \in Instances, q \in ProposalIDs :
          /\ acceptorState'[b][j][q] =
                IF b = a /\ j = i /\ q = p THEN "ACCEPTED" ELSE acceptorState[b][j][q]
          /\ vote'[b][j][q] =
                IF b = a /\ j = i /\ q = p THEN m.value ELSE vote[b][j][q]
    /\ \A x \in answers :
          /\ x.command = "ACCEPTED" /\ x.source = a /\ x.to \in Leaders
          /\ x.proposalID = p /\ x.instanceID = i /\ x.value = m.value
          /\ \A y \in answers : x.to = y.to => x = y
    /\ msgs' = (msgs \ {m}) \cup answers
    /\ UNCHANGED <<proposalCount, protocols, learned>>

\* The vote is the first of this acceptor and for the only value its proposal has.
LEMMA CastVote ==
    ASSUME TypeOK, SafetyInv, NEW a \in Acceptors, NEW m \in msgs,
           NEW i \in Instances, NEW p \in ProposalIDs, NEW answers,
           CastsVote(a, m, i, p, answers)
    PROVE  /\ SafetyInv'
           /\ vote[a][i][p] = None
           /\ m.value \in Value
           /\ \A b \in Acceptors : vote[b][i][p] \in {None, m.value}
<1>1. /\ i = m.instanceID /\ p = m.proposalID /\ m.command = "ACCEPT"
      /\ acceptorState[a][i][p] = "AGREED"
  BY DEF CastsVote
<1>2. \A b \in Acceptors, j \in Instances, q \in ProposalIDs :
          /\ acceptorState'[b][j][q] =
                IF b = a /\ j = i /\ q = p THEN "ACCEPTED" ELSE acceptorState[b][j][q]
          /\ vote'[b][j][q] =
                IF b = a /\ j = i /\ q = p THEN m.value ELSE vote[b][j][q]
  BY DEF CastsVote
<1>3. \A x \in answers :
          /\ x.command = "ACCEPTED" /\ x.source = a /\ x.to \in Leaders
          /\ x.proposalID = p /\ x.instanceID = i /\ x.value = m.value
          /\ \A y \in answers : x.to = y.to => x = y
  BY DEF CastsVote
<1>4. \A x \in msgs' : x \in msgs \/ x \in answers
  BY DEF CastsVote
<1>5. proposalCount' = proposalCount /\ protocols' = protocols /\ learned' = learned
  BY DEF CastsVote
<1>6. MessageOK(m) /\ msgs \subseteq Message
  BY DEF SafetyInv, MessageInv, TypeOK
<1>7. m.value \in Value /\ m.value # None /\ p[2] <= proposalCount[p[1]]
  BY <1>1, <1>6, Shapes DEF MessageOK
<1>8. vote[a][i][p] = None
  BY <1>1 DEF SafetyInv, VoteInv
<1>9. Carries(i, p, m.value)
  BY <1>1 DEF Carries
<1>10. ASSUME NEW b \in Acceptors, vote[b][i][p] # None PROVE vote[b][i][p] = m.value
  <2>1. vote[b][i][p] \in Value
    BY <1>10, SMT DEF TypeOK
  <2>2. Carries(i, p, vote[b][i][p])
    BY DEF Carries
  <2> QED BY <1>7, <1>9, <2>1, <2>2 DEF SafetyInv, CarryInv, PhaseTwoOK
<1>11. MessageInv'
  <2> SUFFICES ASSUME NEW x \in msgs' PROVE MessageOK(x)'
    BY DEF MessageInv
  <2>1. CASE x \in msgs
    <3>1. MessageOK(x) /\ x.instanceID \in Instances /\ x.proposalID \in ProposalIDs
      BY <1>6, <2>1, Shapes DEF SafetyInv, MessageInv
    <3>2. ASSUME x.command = "PROPOSE"
          PROVE  acceptorState'[x.to][x.instanceID][x.proposalID] = "ABSENT"
      <4>1. /\ x.to \in Acceptors
            /\ acceptorState[x.to][x.instanceID][x.proposalID] = "ABSENT"
        BY <3>1, <3>2 DEF MessageOK
      <4>2. ~(x.to = a /\ x.instanceID = i /\ x.proposalID = p)
        BY <1>1, <4>1
      <4> QED BY <1>2, <3>1, <4>1, <4>2
    <3>3. ASSUME x.command = "AGREE"
          PROVE  acceptorState'[x.source][x.instanceID][x.proposalID] \in {"AGREED", "ACCEPTED"}
      <4>1. /\ x.source \in Acceptors
            /\ acceptorState[x.source][x.instanceID][x.proposalID] \in {"AGREED", "ACCEPTED"}
        BY <3>1, <3>3 DEF MessageOK
      <4> QED BY <1>2, <3>1, <4>1, SMT
    <3>4. ASSUME x.command = "ACCEPTED"
          PROVE  vote'[x.source][x.instanceID][x.proposalID] = x.value
      <4>1. /\ x.source \in Acceptors /\ x.value # None
            /\ vote[x.source][x.instanceID][x.proposalID] = x.value
        BY <3>1, <3>4 DEF MessageOK
      <4>2. ~(x.source = a /\ x.instanceID = i /\ x.proposalID = p)
        BY <1>8, <4>1
      <4> QED BY <1>2, <3>1, <4>1, <4>2
    <3> QED BY <1>5, <3>1, <3>2, <3>3, <3>4 DEF MessageOK
  <2>2. CASE x \in answers
    <3>1. vote'[a][i][p] = m.value
      BY <1>2
    <3>2. /\ x.command = "ACCEPTED" /\ x.source = a /\ x.to \in Leaders
          /\ x.proposalID = p /\ x.instanceID = i /\ x.value = m.value
      BY <1>3, <2>2
    <3> QED BY <1>5, <1>7, <3>1, <3>2 DEF MessageOK
  <2> QED BY <1>4, <2>1, <2>2
<1>12. OneMessage'
  <2>1. \A z \in msgs : ~(z.command = "ACCEPTED" /\ z.source = a /\ z.instanceID = i
                          /\ z.proposalID = p)
    BY <1>8 DEF SafetyInv, MessageInv, MessageOK
  <2>2. \A z \in msgs, n \in answers : ~SameKey(z, n) /\ ~SameKey(n, z)
    BY <1>3, <2>1 DEF SameKey
  <2>3. \A x, y \in answers : SameKey(x, y) => x = y
    BY <1>3 DEF SameKey
  <2> SUFFICES ASSUME NEW x \in msgs', NEW y \in msgs', SameKey(x, y) PROVE x = y
    BY DEF OneMessage, SameKey
  <2> QED BY <1>4, <2>2, <2>3 DEF SafetyInv, OneMessage
<1>13. UnusedInv'
  <2>1. OnlyProposal(p)
    BY <1>2, <1>5, SMT DEF OnlyProposal
  <2> QED BY <1>7, <2>1, UnusedKept
<1>14. VoteInv'
  <2> SUFFICES ASSUME NEW b \in Acceptors, NEW j \in Instances, NEW q \in ProposalIDs
               PROVE  vote'[b][j][q] # None <=> acceptorState'[b][j][q] = "ACCEPTED"
    BY DEF VoteInv
  <2>1. CASE b = a /\ j = i /\ q = p
    BY <1>2, <1>7, <2>1
  <2>2. CASE ~(b = a /\ j = i /\ q = p)
    <3>1. /\ acceptorState'[b][j][q] = acceptorState[b][j][q]
          /\ vote'[b][j][q] = vote[b][j][q]
      BY <1>2, <2>2
    <3> QED BY <3>1, SMT DEF SafetyInv, VoteInv
  <2> QED BY <2>1, <2>2
<1>15. \A j \in Instances, q \in ProposalIDs : Promisers(j, q)' = Promisers(j, q)
  BY <1>1, <1>2, SMT DEF Promisers
<1>16. ProtocolInv'
  <2> SUFFICES ASSUME NEW k \in Leaders, NEW j \in Instances, NEW q \in ProposalIDs
               PROVE  ProtocolOK(k, j, q)'
    BY DEF ProtocolInv
  <2>1. Agreed(j, q) \subseteq Agreed(j, q)' /\ Agreed(j, q)' \subseteq Acceptors
    <3>1. Promisers(j, q) \subseteq Acceptors
      BY DEF Promisers
    <3>2. \A x \in msgs' : x \in msgs \/ x.command = "ACCEPTED"
      BY <1>3, <1>4
    <3> QED BY <1>15, <3>1, <3>2 DEF Agreed
  <2>2. Heard(k, j, q)' \subseteq Acceptors
    BY DEF Heard
  <2>3. ASSUME NEW b \in Heard(k, j, q) PROVE b \in Heard(k, j, q)'
    <3>1. b \in Acceptors /\ vote[b][j][q] # None
      BY <2>3 DEF Heard
    <3>2. ~(b = a /\ j = i /\ q = p)
      BY <1>8, <3>1
    <3>3. \A x \in msgs' : ~(/\ x.command = "ACCEPTED" /\ x.source = b /\ x.to = k
                             /\ x.instanceID = j /\ x.proposalID = q)
      BY <1>3, <1>4, <2>3, <3>2 DEF Heard
    <3>4. vote'[b][j][q] # None
      BY <1>2, <3>1, <3>2
    <3> QED BY <3>1, <3>3, <3>4 DEF Heard
  <2>4. protocols'[k][j][q] = protocols[k][j][q]
    BY <1>5
  <2> QED BY <2>1, <2>2, <2>3, <2>4, OtherProtocols
<1>17. ASSUME NEW j \in Instances, NEW q \in ProposalIDs, NEW w \in Value, Carries(j, q, w)'
       PROVE  Carries(j, q, w)
  <2>1. ASSUME NEW x \in msgs', x.command \in {"ACCEPT", "ACCEPTED"},
               x.instanceID = j, x.proposalID = q, x.value = w
        PROVE  Carries(j, q, w)
    <3>1. CASE x \in msgs
      BY <2>1, <3>1 DEF Carries
    <3>2. CASE x \in answers
      BY <1>3, <1>9, <2>1, <3>2
    <3> QED BY <1>4, <3>1, <3>2
  <2>2. ASSUME NEW b \in Acceptors, vote'[b][j][q] = w
        PROVE  Carries(j, q, w)
    <3>1. CASE b = a /\ j = i /\ q = p
      BY <1>2, <1>9, <2>2, <3>1
    <3>2. CASE ~(b = a /\ j = i /\ q = p)
      BY <1>2, <2>2, <3>2 DEF Carries
    <3> QED BY <3>1, <3>2
  <2>3. CASE \E k \in Leaders : /\ protocols'[k][j][q].state \in {"AGREED", "ACCEPTED"}
                                /\ protocols'[k][j][q].value = w
    BY <1>5, <2>3 DEF Carries
  <2> QED BY <1>17, <2>1, <2>2, <2>3 DEF Carries
<1>18. CarryInv'
  <2> SUFFICES ASSUME NEW j \in Instances, NEW q \in ProposalIDs, NEW u \in Value,
                      Carries(j, q, u)'
               PROVE  PhaseTwoOK(j, q, u)'
    BY DEF CarryInv
  <2>1. \A w \in Value : Carries(j, q, w)' => Carries(j, q, w)
    BY <1>17
  <2>2. Promisers(j, q) \subseteq Promisers(j, q)'
    BY <1>15
  <2> QED BY <1>5, <2>1, <2>2, PhaseTwoKept
<1>19. LearnedIsChosen'
  <2>1. VotesKept
    BY <1>2, <1>8, SMT DEF VotesKept
  <2> QED BY <1>5, <2>1, LearnedKept
<1> QED
  BY <1>7, <1>8, <1>10, <1>11, <1>12, <1>13, <1>14, <1>16, <1>18, <1>19 DEF SafetyInv

-----------------------------------------------------------------------------
(***************************************************************************)
(* Counting messages is safe in ToyPaxos: a leader learns only values that *)
(* a majority accepted under one proposal, and so the protocol implements  *)
(* the ledger of VotingLedger.  Each handler is one of the steps described *)
(* above, so SafetyInv is inductive.                                       *)
(***************************************************************************)

\* A step that only loses messages is quiet.
LEMMA OnlyLosing ==
    ASSUME msgs' \subseteq msgs,
           UNCHANGED <<proposalCount, protocols, learned, acceptorState, vote>>, TypeOK
    PROVE  Quiet
<1>1. \A l \in Leaders : proposalCount[l] \in Nat
  BY BoundsAssumption, SMT DEF TypeOK
<1> QED BY <1>1, SMT DEF Quiet

\* doTransition on AGREE counts it, or completes the quorum and asks for the votes.
LEMMA RecvAgreeSafe ==
    ASSUME TypeOK, TypeOK', SafetyInv, NEW l \in Leaders, NEW m \in msgs, RecvAgree(l, m)
    PROVE  SafetyInv'
<1> DEFINE p == m.proposalID
           i == m.instanceID
           pr == protocols[l][i][p]
           v == AgreedValue(pr.value, m)
           counted == [pr EXCEPT !.agreecount = @ + 1]
           agreed == [state |-> "AGREED", agreecount |-> pr.agreecount + 1,
                      acceptcount |-> pr.acceptcount, value |-> v]
<1>1. m \in Message /\ i \in Instances /\ p \in ProposalIDs /\ m.value \in Value \cup {None}
  BY Shapes DEF TypeOK
<1>2. pr \in LeaderProtocol
  BY <1>1, SMT DEF TypeOK
<1>3. /\ m.command = "AGREE"
      /\ UNCHANGED <<proposalCount, learned, acceptorState, vote>>
      /\ \/ msgs' = msgs \ {m} /\ UNCHANGED protocols
         \/ /\ pr.state = "PROPOSED"
            /\ protocols' = [protocols EXCEPT ![l][i][p] = counted]
            /\ msgs' = msgs \ {m}
         \/ /\ pr.state = "PROPOSED" /\ pr.agreecount + 1 >= getQuorumSize
            /\ protocols' = [protocols EXCEPT ![l][i][p] = agreed]
            /\ msgs' = (msgs \ {m}) \cup AcceptRequests(l, v, p, i)
  BY DEF RecvAgree, acceptorVars
<1>4. /\ counted.state = pr.state /\ counted.value = pr.value
      /\ counted.agreecount = pr.agreecount + 1
      /\ counted.acceptcount = pr.acceptcount
  BY <1>2 DEF LeaderProtocol
<1>5. agreed.state = "AGREED" /\ agreed.value = v /\ agreed.acceptcount = pr.acceptcount
  OBVIOUS
<1>6. pr.state = "PROPOSED" => v \in Value
  <2>1. pr.state = "PROPOSED" => pr.value \in Value
    BY <1>1, <1>2 DEF SafetyInv, ProtocolInv, ProtocolOK, LeaderProtocol
  <2> QED BY <1>1, <2>1 DEF AgreedValue
<1>7. pr = protocols[l][i][p] /\ p = m.proposalID /\ i = m.instanceID
  OBVIOUS
<1>8. protocols \in [Leaders -> [Instances -> [ProposalIDs -> LeaderProtocol]]]
  BY DEF TypeOK
<1> HIDE DEF p, i, pr, v, counted, agreed
<1>9. CASE msgs' = msgs \ {m} /\ UNCHANGED protocols
  <2>1. Quiet
    BY <1>3, <1>9, OnlyLosing
  <2> QED BY <2>1, QuietStep
<1>10. CASE /\ pr.state = "PROPOSED"
            /\ protocols' = [protocols EXCEPT ![l][i][p] = counted]
            /\ msgs' = msgs \ {m}
  <2>1. SetsProtocol(l, i, p, counted)
    BY <1>8, <1>10, SMT DEF SetsProtocol
  <2>2. CountsAgree(l, m, i, p, counted)
    BY <1>3, <1>4, <1>7, <1>10, <2>1 DEF CountsAgree
  <2> QED BY <1>1, <2>2, CountAgree
<1>11. CASE /\ pr.state = "PROPOSED" /\ pr.agreecount + 1 >= getQuorumSize
            /\ protocols' = [protocols EXCEPT ![l][i][p] = agreed]
            /\ msgs' = (msgs \ {m}) \cup AcceptRequests(l, v, p, i)
  <2>1. SetsProtocol(l, i, p, agreed)
    BY <1>8, <1>11, SMT DEF SetsProtocol
  <2>2. CompletesAgree(l, m, i, p, v, agreed)
    BY <1>3, <1>5, <1>7, <1>11, <2>1 DEF CompletesAgree
  <2> QED BY <1>1, <1>6, <1>11, <2>2, CompleteAgree
<1> QED BY <1>3, <1>9, <1>10, <1>11

\* Besides: what is learned is what the ledger allows.
LEMMA RecvAcceptedSafe ==
    ASSUME TypeOK, TypeOK', SafetyInv, NEW l \in Leaders, NEW m \in msgs, RecvAccepted(l, m)
    PROVE  /\ SafetyInv'
           /\ UNCHANGED vote
           /\ \/ UNCHANGED learned
              \/ /\ learned' = [learned EXCEPT ![l][m.instanceID] = m.value]
                 /\ m.value \in Value
                 /\ IsMajority(Voters(m.instanceID, m.proposalID, m.value))
<1> DEFINE p == m.proposalID
           i == m.instanceID
           old == protocols[l][i][p]
           pr == ListenedProtocol(l, m)
           counted == [pr EXCEPT !.acceptcount = @ + 1]
           done == [state |-> "ACCEPTED", agreecount |-> pr.agreecount,
                    acceptcount |-> pr.acceptcount + 1, value |-> pr.value]
<1>1. m \in Message /\ i \in Instances /\ p \in ProposalIDs /\ m.value \in Value \cup {None}
  BY Shapes DEF TypeOK
<1>2. old \in LeaderProtocol
  BY <1>1, SMT DEF TypeOK
<1>3. /\ m.command = "ACCEPTED" /\ m.to = l /\ msgs' = msgs \ {m}
      /\ UNCHANGED <<proposalCount, acceptorState, vote>>
      /\ \/ UNCHANGED <<protocols, learned>>
         \/ /\ pr.state = "AGREED"
            /\ protocols' = [protocols EXCEPT ![l][i][p] = counted]
            /\ UNCHANGED learned
         \/ /\ pr.state = "AGREED" /\ pr.acceptcount + 1 >= getQuorumSize
            /\ protocols' = [protocols EXCEPT ![l][i][p] = done]
            /\ learned' = [learned EXCEPT ![l][i] = m.value]
  BY DEF RecvAccepted, acceptorVars
<1>4. \/ old.state = "ABSENT" /\ pr.acceptcount = 0 /\ pr.value = m.value
      \/ old.state # "ABSENT" /\ pr = old
  BY DEF ListenedProtocol
<1>5. pr \in LeaderProtocol
  BY <1>1, <1>2 DEF ListenedProtocol, LeaderProtocol
<1>6. /\ counted.state = pr.state /\ counted.value = pr.value
      /\ counted.acceptcount = pr.acceptcount + 1
  BY <1>5 DEF LeaderProtocol
<1>7. done.state = "ACCEPTED" /\ done.value = pr.value /\ done.acceptcount = pr.acceptcount + 1
  OBVIOUS
<1>8. old = protocols[l][i][p] /\ p = m.proposalID /\ i = m.instanceID
  OBVIOUS
<1>9. protocols \in [Leaders -> [Instances -> [ProposalIDs -> LeaderProtocol]]]
  BY DEF TypeOK
<1>10. learned \in [Leaders -> [Instances -> Value \cup {None}]]
  BY DEF TypeOK
<1> HIDE DEF p, i, old, pr, counted, done
<1>11. CASE UNCHANGED <<protocols, learned>>
  <2>1. Quiet
    BY <1>3, <1>11, OnlyLosing
  <2>2. SafetyInv'
    BY <2>1, QuietStep
  <2> QED BY <1>3, <1>11, <2>2
<1>12. CASE /\ pr.state = "AGREED"
            /\ protocols' = [protocols EXCEPT ![l][i][p] = counted]
            /\ UNCHANGED learned
  <2>1. SetsProtocol(l, i, p, counted)
    BY <1>9, <1>12, SMT DEF SetsProtocol
  <2>2. \/ old.state = "ABSENT" /\ counted.acceptcount = 1 /\ counted.value = m.value
        \/ /\ old.state = "AGREED" /\ counted.acceptcount = old.acceptcount + 1
           /\ counted.value = old.value
    BY <1>4, <1>6, <1>12, SMT
  <2>3. \A k \in Leaders, j \in Instances : learned'[k][j] = learned[k][j]
    BY <1>12
  <2>4. CountsAccepted(l, m, i, p, counted)
    BY <1>3, <1>6, <1>8, <1>12, <2>1, <2>2, <2>3 DEF CountsAccepted
  <2>5. SafetyInv'
    BY <1>1, <2>4, CountAccepted
  <2> QED BY <1>3, <1>12, <2>5
<1>13. CASE /\ pr.state = "AGREED" /\ pr.acceptcount + 1 >= getQuorumSize
            /\ protocols' = [protocols EXCEPT ![l][i][p] = done]
            /\ learned' = [learned EXCEPT ![l][i] = m.value]
  <2>1. SetsProtocol(l, i, p, done)
    BY <1>9, <1>13, SMT DEF SetsProtocol
  <2>2. \/ old.state = "ABSENT" /\ done.acceptcount = 1 /\ done.value = m.value
        \/ /\ old.state = "AGREED" /\ done.acceptcount = old.acceptcount + 1
           /\ done.value = old.value
    BY <1>4, <1>7, <1>13, SMT
  <2>3. \A k \in Leaders, j \in Instances :
            \/ learned'[k][j] = learned[k][j]
            \/ k = l /\ j = i /\ learned'[k][j] = m.value /\ done.acceptcount >= getQuorumSize
    BY <1>7, <1>10, <1>13
  <2>4. CountsAccepted(l, m, i, p, done)
    BY <1>3, <1>7, <1>8, <2>1, <2>2, <2>3 DEF CountsAccepted
  <2>5. SafetyInv' /\ m.value \in Value /\ IsMajority(Voters(i, p, m.value))
    BY <1>1, <1>7, <1>13, <2>4, CountAccepted
  <2> QED BY <1>3, <1>8, <1>13, <2>5
<1> QED BY <1>3, <1>11, <1>12, <1>13

\* recvProposal promises and answers, or refuses without an answer.
LEMMA RecvProposalSafe ==
    ASSUME TypeOK, TypeOK', SafetyInv, NEW a \in Acceptors, NEW m \in msgs, RecvProposal(a, m)
    PROVE  SafetyInv'
<1> DEFINE p == m.proposalID
           i == m.instanceID
           answer == [command |-> "AGREE", source |-> a, to |-> m.source,
                      proposalID |-> p, instanceID |-> i,
                      value |-> accepted[a][i], sequence |-> highestID[a][i]]
<1>1. i \in Instances /\ p \in ProposalIDs
  BY Shapes DEF TypeOK
<1>2. /\ m.command = "PROPOSE" /\ m.to = a
      /\ UNCHANGED <<proposalCount, protocols, learned, vote>>
      /\ \E st \in {"AGREED", "REJECTED"} :
            /\ acceptorState' = [acceptorState EXCEPT ![a][i][p] = st]
            /\ \/ st = "REJECTED" /\ msgs' = msgs \ {m}
               \/ st = "AGREED" /\ msgs' = (msgs \ {m}) \cup {answer}
  BY DEF RecvProposal, leaderVars
<1>3. /\ answer.command = "AGREE" /\ answer.source = a /\ answer.to = m.source
      /\ answer.proposalID = p /\ answer.instanceID = i
  OBVIOUS
<1>4. p = m.proposalID /\ i = m.instanceID
  OBVIOUS
<1>5. acceptorState \in [Acceptors -> [Instances -> [ProposalIDs -> AcceptorState]]]
  BY DEF TypeOK
<1> HIDE DEF p, i, answer
<1>6. PICK st \in {"AGREED", "REJECTED"} :
            /\ acceptorState' = [acceptorState EXCEPT ![a][i][p] = st]
            /\ \/ st = "REJECTED" /\ msgs' = msgs \ {m}
               \/ st = "AGREED" /\ msgs' = (msgs \ {m}) \cup {answer}
  BY <1>2
<1>7. \A b \in Acceptors, j \in Instances, q \in ProposalIDs :
          acceptorState'[b][j][q] =
              IF b = a /\ j = i /\ q = p THEN st ELSE acceptorState[b][j][q]
  BY <1>5, <1>6, SMT
<1>8. AnswersProposal(a, m, i, p, st, answer)
  BY <1>2, <1>3, <1>4, <1>6, <1>7 DEF AnswersProposal
<1> QED BY <1>1, <1>8, AnswerProposal

\* Besides: the vote is one the ledger allows.
LEMMA RecvAcceptSafe ==
    ASSUME TypeOK, TypeOK', SafetyInv, NEW a \in Acceptors, NEW m \in msgs, RecvAccept(a, m)
    PROVE  /\ SafetyInv'
           /\ UNCHANGED learned
           /\ \/ UNCHANGED vote
              \/ /\ vote' = [vote EXCEPT ![a][m.instanceID][m.proposalID] = m.value]
                 /\ vote[a][m.instanceID][m.proposalID] = None
                 /\ m.value \in Value
                 /\ \A b \in Acceptors :
                       vote[b][m.instanceID][m.proposalID] \in {None, m.value}
<1> DEFINE p == m.proposalID
           i == m.instanceID
           answers == {[command |-> "ACCEPTED", source |-> a, to |-> l,
                        proposalID |-> p, instanceID |-> i,
                        value |-> m.value, sequence |-> NoID] : l \in Leaders}
<1>1. i \in Instances /\ p \in ProposalIDs
  BY Shapes DEF TypeOK
<1>2. /\ m.command = "ACCEPT"
      /\ UNCHANGED <<proposalCount, protocols, learned>>
      /\ \/ /\ acceptorState[a][i][p] = "AGREED"
            /\ acceptorState' = [acceptorState EXCEPT ![a][i][p] = "ACCEPTED"]
            /\ vote' = [vote EXCEPT ![a][i][p] = m.value]
            /\ msgs' = (msgs \ {m}) \cup answers
         \/ msgs' = msgs \ {m} /\ UNCHANGED <<acceptorState, vote>>
  BY DEF RecvAccept, leaderVars
<1>3. \A x \in answers :
          /\ x.command = "ACCEPTED" /\ x.source = a /\ x.to \in Leaders
          /\ x.proposalID = p /\ x.instanceID = i /\ x.value = m.value
          /\ \A y \in answers : x.to = y.to => x = y
  BY SMT
<1>4. p = m.proposalID /\ i = m.instanceID
  OBVIOUS
<1>5. acceptorState \in [Acceptors -> [Instances -> [ProposalIDs -> AcceptorState]]]
  BY DEF TypeOK
<1>6. vote \in [Acceptors -> [Instances -> [ProposalIDs -> Value \cup {None}]]]
  BY DEF TypeOK
<1> HIDE DEF p, i, answers
<1>7. CASE msgs' = msgs \ {m} /\ UNCHANGED <<acceptorState, vote>>
  <2>1. Quiet
    BY <1>2, <1>7, OnlyLosing
  <2>2. SafetyInv'
    BY <2>1, QuietStep
  <2> QED BY <1>2, <1>7, <2>2
<1>8. CASE /\ acceptorState[a][i][p] = "AGREED"
           /\ acceptorState' = [acceptorState EXCEPT ![a][i][p] = "ACCEPTED"]
           /\ vote' = [vote EXCEPT ![a][i][p] = m.value]
           /\ msgs' = (msgs \ {m}) \cup answers
  <2>1. \A b \in Acceptors, j \in Instances, q \in ProposalIDs :
            acceptorState'[b][j][q] =
                IF b = a /\ j = i /\ q = p THEN "ACCEPTED" ELSE acceptorState[b][j][q]
    BY <1>5, <1>8, SMT
  <2>2. \A b \in Acceptors, j \in Instances, q \in ProposalIDs :
            vote'[b][j][q] = IF b = a /\ j = i /\ q = p THEN m.value ELSE vote[b][j][q]
    BY <1>6, <1>8, SMT
  <2>3. CastsVote(a, m, i, p, answers)
    BY <1>2, <1>3, <1>4, <1>8, <2>1, <2>2, SMTT(30) DEF CastsVote
  <2>4. /\ SafetyInv'
        /\ vote[a][i][p] = None
        /\ m.value \in Value
        /\ \A b \in Acceptors : vote[b][i][p] \in {None, m.value}
    BY <1>1, <2>3, CastVote
  <2> QED BY <1>2, <1>4, <1>8, <2>4
<1> QED BY <1>2, <1>7, <1>8

\* Before the first message no proposal, promise or vote exists.
LEMMA SafetyInit == Init => SafetyInv
<1> SUFFICES ASSUME Init PROVE SafetyInv
  OBVIOUS
<1>1. /\ msgs = {}
      /\ \A l \in Leaders, i \in Instances, p \in ProposalIDs : protocols[l][i][p] = NoProtocol
      /\ \A l \in Leaders, i \in Instances : learned[l][i] = None
      /\ \A a \in Acceptors, i \in Instances, p \in ProposalIDs :
            acceptorState[a][i][p] = "ABSENT" /\ vote[a][i][p] = None
  BY DEF Init
<1>2. NoProtocol.state = "ABSENT"
  BY DEF NoProtocol
<1>3. MessageInv /\ OneMessage
  BY <1>1 DEF MessageInv, OneMessage
<1>4. UnusedInv /\ VoteInv
  BY <1>1, <1>2 DEF UnusedInv, VoteInv
<1>5. ProtocolInv
  BY <1>1, <1>2 DEF ProtocolInv, ProtocolOK
<1>6. CarryInv
  BY <1>1, <1>2, Shapes, SMT DEF CarryInv, Carries
<1>7. LearnedIsChosen
  BY <1>1 DEF LearnedIsChosen
<1> QED BY <1>3, <1>4, <1>5, <1>6, <1>7 DEF SafetyInv

\* Every step preserves the invariant: one case per action of Next.
LEMMA SafetyStep ==
    ASSUME TypeOK, TypeOK', SafetyInv, [Next]_vars
    PROVE  SafetyInv'
<1>1. ASSUME NEW l \in Leaders, NEW v \in Values, RecvExtPropose(l, v) PROVE SafetyInv'
  BY <1>1, RecvExtProposeIsQuiet, QuietStep
<1>2. ASSUME NEW l \in Leaders, LeaderReceives(l) PROVE SafetyInv'
  BY <1>2, RecvAgreeSafe, RecvAcceptedSafe DEF LeaderReceives
<1>3. ASSUME NEW l \in Leaders, FillGapsAndCollect(l) PROVE SafetyInv'
  BY <1>3, FillGapsAndCollectIsQuiet, QuietStep
<1>4. ASSUME NEW l \in Leaders, GainPrimary(l) \/ LosePrimary(l) \/ StopLeader(l)
      PROVE  SafetyInv'
  <2>1. Quiet
    BY <1>4, OnlyLosing DEF GainPrimary, LosePrimary, StopLeader, acceptorVars
  <2> QED BY <2>1, QuietStep
<1>5. ASSUME NEW a \in Acceptors, NEW m \in msgs, DropWhileFailed(a, m) PROVE SafetyInv'
  <2>1. Quiet
    BY <1>5, OnlyLosing DEF DropWhileFailed, leaderVars, acceptorVars
  <2> QED BY <2>1, QuietStep
<1>6. ASSUME NEW a \in Acceptors, AcceptorReceives(a) PROVE SafetyInv'
  BY <1>5, <1>6, RecvProposalSafe, RecvAcceptSafe DEF AcceptorReceives
<1>7. ASSUME NEW a \in Acceptors, Fail(a) \/ Recover(a) \/ StopAcceptor(a) PROVE SafetyInv'
  <2>1. Quiet
    BY <1>7, OnlyLosing DEF Fail, Recover, StopAcceptor, leaderVars
  <2> QED BY <2>1, QuietStep
<1>8. ASSUME NEW m \in msgs, Lose(m) PROVE SafetyInv'
  <2>1. Quiet
    BY <1>8, OnlyLosing DEF Lose, leaderVars, acceptorVars
  <2> QED BY <2>1, QuietStep
<1>9. CASE UNCHANGED vars
  <2>1. Quiet
    BY <1>9, OnlyLosing DEF vars, leaderVars, acceptorVars
  <2> QED BY <2>1, QuietStep
<1> QED
  BY <1>1, <1>2, <1>3, <1>4, <1>6, <1>7, <1>8, <1>9 DEF Next

-----------------------------------------------------------------------------
(***************************************************************************)
(* Theorems.                                                               *)
(***************************************************************************)

\* The inductive invariant: a proposal ID is used once, every message is sent once, counters
\* never exceed the number of acceptors they stand for, and a proposal in phase two has one
\* value and the agreement of a majority.
THEOREM SafetyInvariant == Spec => []SafetyInv
<1>1. TypeOK /\ TypeOK' /\ SafetyInv /\ [Next]_vars => SafetyInv'
  BY SafetyStep
<1> QED
  BY TypeCorrect, SafetyInit, <1>1, PTL DEF Spec

\* A leader records a value for an instance (notifyLeader) only when a majority of the
\* acceptors has accepted it under one proposal, for any number of leaders and acceptors and
\* with messages lost and reordered, although doTransition counts messages and not senders.
THEOREM LearnedIsAlwaysChosen == Spec => []LearnedIsChosen
<1>1. SafetyInv => LearnedIsChosen
  BY DEF SafetyInv
<1> QED BY SafetyInvariant, <1>1, PTL

\* All acceptors that accept under one proposal accept the same value.
THEOREM OneValueAlways == Spec => []OneValuePerProposal
<1>1. TypeOK /\ SafetyInv => OneValuePerProposal
  <2> SUFFICES ASSUME TypeOK, SafetyInv, NEW a \in Acceptors, NEW b \in Acceptors,
                      NEW i \in Instances, NEW p \in ProposalIDs,
                      vote[a][i][p] # None, vote[b][i][p] # None
               PROVE  vote[a][i][p] = vote[b][i][p]
    BY SMT DEF OneValuePerProposal
  <2>1. vote[a][i][p] \in Value /\ vote[b][i][p] \in Value
    BY SMT DEF TypeOK
  <2>2. Carries(i, p, vote[a][i][p]) /\ Carries(i, p, vote[b][i][p])
    BY DEF Carries
  <2> QED BY <2>1, <2>2 DEF SafetyInv, CarryInv, PhaseTwoOK
<1> QED BY TypeCorrect, SafetyInvariant, <1>1, PTL

\* No acceptor accepts before a majority has agreed to the proposal: phase two never
\* starts early.
THEOREM PromisesPrecedeVotes == Spec => []VoteNeedsPromises
<1>1. TypeOK /\ SafetyInv => VoteNeedsPromises
  <2> SUFFICES ASSUME TypeOK, SafetyInv, NEW a \in Acceptors,
                      NEW i \in Instances, NEW p \in ProposalIDs, vote[a][i][p] # None
               PROVE  IsMajority(Promisers(i, p))
    BY DEF VoteNeedsPromises
  <2>1. vote[a][i][p] \in Value
    BY SMT DEF TypeOK
  <2>2. Carries(i, p, vote[a][i][p])
    BY DEF Carries
  <2> QED BY <2>1, <2>2 DEF SafetyInv, CarryInv, PhaseTwoOK
<1> QED BY TypeCorrect, SafetyInvariant, <1>1, PTL

\* The protocol implements the ledger, for any numbers of leaders, acceptors, instances and
\* proposals: RecvAccept casts a vote, RecvAccepted learns, and no other handler touches a
\* vote or a learned value.
THEOREM ImplementsTheLedger == Spec => ImplementsLedger
<1>1. Init => Ledger!Init
  BY DEF Init, Ledger!Init
<1>2. ASSUME TypeOK, TypeOK', SafetyInv, [Next]_vars
      PROVE  [Ledger!Next]_<<vote, learned>>
  <2>1. ASSUME NEW l \in Leaders, NEW m \in msgs, RecvAccepted(l, m)
        PROVE  [Ledger!Next]_<<vote, learned>>
    <3> DEFINE i == m.instanceID
               p == m.proposalID
               v == m.value
    <3>1. i \in Instances /\ p \in ProposalIDs
      BY <1>2, Shapes DEF TypeOK
    <3>2. /\ UNCHANGED vote
          /\ \/ UNCHANGED learned
             \/ /\ learned' = [learned EXCEPT ![l][i] = v]
                /\ v \in Value
                /\ IsMajority(Voters(i, p, v))
      BY <1>2, <2>1, RecvAcceptedSafe
    <3> HIDE DEF i, p, v
    <3>3. CASE /\ learned' = [learned EXCEPT ![l][i] = v]
               /\ v \in Value
               /\ IsMajority(Voters(i, p, v))
      <4>1. Ledger!Learn(l, i, p, v)
        BY <3>2, <3>3 DEF Ledger!Learn, Majorities, Voters
      <4>2. Ledger!Next
        BY <3>1, <3>3, <4>1 DEF Ledger!Next
      <4> QED BY <4>2
    <3> QED BY <3>2, <3>3
  <2>2. ASSUME NEW a \in Acceptors, NEW m \in msgs, RecvAccept(a, m)
        PROVE  [Ledger!Next]_<<vote, learned>>
    <3> DEFINE i == m.instanceID
               p == m.proposalID
               v == m.value
    <3>1. i \in Instances /\ p \in ProposalIDs
      BY <1>2, Shapes DEF TypeOK
    <3>2. /\ UNCHANGED learned
          /\ \/ UNCHANGED vote
             \/ /\ vote' = [vote EXCEPT ![a][i][p] = v]
                /\ vote[a][i][p] = None
                /\ v \in Value
                /\ \A b \in Acceptors : vote[b][i][p] \in {None, v}
      BY <1>2, <2>2, RecvAcceptSafe
    <3> HIDE DEF i, p, v
    <3>3. CASE /\ vote' = [vote EXCEPT ![a][i][p] = v]
               /\ vote[a][i][p] = None
               /\ v \in Value
               /\ \A b \in Acceptors : vote[b][i][p] \in {None, v}
      <4>1. Ledger!Cast(a, i, p, v)
        BY <3>2, <3>3 DEF Ledger!Cast
      <4>2. Ledger!Next
        BY <3>1, <3>3, <4>1 DEF Ledger!Next
      <4> QED BY <4>2
    <3> QED BY <3>2, <3>3
  <2>3. ASSUME NEW l \in Leaders, LeaderReceives(l)
        PROVE  [Ledger!Next]_<<vote, learned>>
    <3>1. ASSUME NEW m \in msgs, RecvAgree(l, m) PROVE UNCHANGED <<vote, learned>>
      BY <3>1 DEF RecvAgree, acceptorVars
    <3> QED BY <2>1, <2>3, <3>1 DEF LeaderReceives
  <2>4. ASSUME NEW a \in Acceptors, AcceptorReceives(a)
        PROVE  [Ledger!Next]_<<vote, learned>>
    <3>1. ASSUME NEW m \in msgs, RecvProposal(a, m) \/ DropWhileFailed(a, m)
          PROVE  UNCHANGED <<vote, learned>>
      BY <3>1 DEF RecvProposal, DropWhileFailed, leaderVars, acceptorVars
    <3> QED BY <2>2, <2>4, <3>1 DEF AcceptorReceives
  <2>5. ASSUME NEW l \in Leaders,
               \/ \E v \in Values : RecvExtPropose(l, v)
               \/ FillGapsAndCollect(l)
               \/ GainPrimary(l)
               \/ LosePrimary(l)
               \/ StopLeader(l)
        PROVE  UNCHANGED <<vote, learned>>
    BY <2>5 DEF RecvExtPropose, FillGapsAndCollect, GainPrimary, LosePrimary, StopLeader,
                acceptorVars
  <2>6. ASSUME NEW a \in Acceptors, Fail(a) \/ Recover(a) \/ StopAcceptor(a)
        PROVE  UNCHANGED <<vote, learned>>
    BY <2>6 DEF Fail, Recover, StopAcceptor, leaderVars
  <2>7. ASSUME NEW m \in msgs, Lose(m) PROVE UNCHANGED <<vote, learned>>
    BY <2>7 DEF Lose, leaderVars, acceptorVars
  <2>8. CASE UNCHANGED vars
    BY <2>8 DEF vars, leaderVars, acceptorVars
  <2> QED BY <1>2, <2>3, <2>4, <2>5, <2>6, <2>7, <2>8 DEF Next
<1> QED
  BY TypeCorrect, SafetyInvariant, <1>1, <1>2, PTL DEF Spec, ImplementsLedger, Ledger!Spec

-----------------------------------------------------------------------------
(***************************************************************************)
(* A proposal ID stands for one instance.                                  *)
(***************************************************************************)

\* Somebody, or a message in flight, knows proposal p as one for instance i.
Used(i, p) ==
    \/ \E m \in msgs : m.instanceID = i /\ m.proposalID = p
    \/ \E a \in Acceptors : acceptorState[a][i][p] # "ABSENT"
    \/ \E l \in Leaders : protocols[l][i][p].state # "ABSENT"

UseInv == \A i, j \in Instances, p \in ProposalIDs : Used(i, p) /\ Used(j, p) => i = j

\* An ID in use has been drawn from the counter of its leader.
LEMMA UsedIsDrawn ==
    ASSUME TypeOK, SafetyInv, NEW i \in Instances, NEW p \in ProposalIDs, Used(i, p)
    PROVE  p[2] <= proposalCount[p[1]]
<1>1. p[1] \in Leaders /\ p[2] \in Int /\ proposalCount[p[1]] \in Int
  BY BoundsAssumption, SMT DEF TypeOK, ProposalIDs
<1>2. CASE \E m \in msgs : m.instanceID = i /\ m.proposalID = p
  BY <1>2 DEF SafetyInv, MessageInv, MessageOK
<1>3. CASE ~ \E m \in msgs : m.instanceID = i /\ m.proposalID = p
  BY <1>1, <1>3, SMT DEF SafetyInv, UnusedInv, Used
<1> QED BY <1>2, <1>3

\* A step that puts no ID into use.
LEMMA NoNewUse ==
    ASSUME UseInv, \A i \in Instances, p \in ProposalIDs : Used(i, p)' => Used(i, p)
    PROVE  UseInv'
BY DEF UseInv

\* A leader's step that only changes the protocol of an ID in use.
LEMMA LeaderUses ==
    ASSUME TypeOK, UseInv, NEW l \in Leaders, NEW i \in Instances, NEW p \in ProposalIDs,
           Used(i, p), NEW r, UNCHANGED acceptorState,
           protocols' \in {protocols, [protocols EXCEPT ![l][i][p] = r]},
           \A m \in msgs' : m \in msgs \/ (m.instanceID = i /\ m.proposalID = p)
    PROVE  UseInv'
<1>1. ASSUME NEW k \in Leaders, NEW j \in Instances, NEW q \in ProposalIDs,
             protocols'[k][j][q] # protocols[k][j][q]
      PROVE  j = i /\ q = p
  <2>1. protocols' = [protocols EXCEPT ![l][i][p] = r]
    BY <1>1
  <2>2. protocols'[k] = IF k = l THEN [protocols[l] EXCEPT ![i][p] = r] ELSE protocols[k]
    BY <2>1 DEF TypeOK
  <2>3. \A h \in Instances : [protocols[l] EXCEPT ![i][p] = r][h] =
                               IF h = i THEN [protocols[l][i] EXCEPT ![p] = r] ELSE protocols[l][h]
    BY DEF TypeOK
  <2>4. protocols'[k][j] = IF k = l /\ j = i THEN [protocols[l][i] EXCEPT ![p] = r] ELSE protocols[k][j]
    BY <2>2, <2>3
  <2> QED BY <1>1, <2>4, SMT DEF TypeOK
<1>2. ASSUME NEW j \in Instances, NEW q \in ProposalIDs, Used(j, q)' PROVE Used(j, q)
  <2>1. CASE \E m \in msgs' : m.instanceID = j /\ m.proposalID = q
    BY <2>1 DEF Used
  <2>2. CASE \E a \in Acceptors : acceptorState'[a][j][q] # "ABSENT"
    BY <2>2 DEF Used
  <2>3. CASE \E k \in Leaders : protocols'[k][j][q].state # "ABSENT"
    BY <1>1, <2>3 DEF Used
  <2> QED BY <1>2, <2>1, <2>2, <2>3 DEF Used
<1> QED BY <1>2, NoNewUse

\* An acceptor's step that only changes the protocol of an ID in use.
LEMMA AcceptorUses ==
    ASSUME TypeOK, UseInv, NEW a \in Acceptors, NEW i \in Instances, NEW p \in ProposalIDs,
           Used(i, p), NEW s, UNCHANGED protocols,
           acceptorState' \in {acceptorState, [acceptorState EXCEPT ![a][i][p] = s]},
           \A m \in msgs' : m \in msgs \/ (m.instanceID = i /\ m.proposalID = p)
    PROVE  UseInv'
<1>1. ASSUME NEW b \in Acceptors, NEW j \in Instances, NEW q \in ProposalIDs,
             acceptorState'[b][j][q] # acceptorState[b][j][q]
      PROVE  j = i /\ q = p
  <2>1. acceptorState' = [acceptorState EXCEPT ![a][i][p] = s]
    BY <1>1
  <2>2. acceptorState'[b] = IF b = a THEN [acceptorState[a] EXCEPT ![i][p] = s] ELSE acceptorState[b]
    BY <2>1 DEF TypeOK
  <2>3. \A h \in Instances : [acceptorState[a] EXCEPT ![i][p] = s][h] =
                               IF h = i THEN [acceptorState[a][i] EXCEPT ![p] = s] ELSE acceptorState[a][h]
    BY DEF TypeOK
  <2>4. acceptorState'[b][j] = IF b = a /\ j = i THEN [acceptorState[a][i] EXCEPT ![p] = s] ELSE acceptorState[b][j]
    BY <2>2, <2>3
  <2> QED BY <1>1, <2>4, SMT DEF TypeOK
<1>2. ASSUME NEW j \in Instances, NEW q \in ProposalIDs, Used(j, q)' PROVE Used(j, q)
  <2>1. CASE \E m \in msgs' : m.instanceID = j /\ m.proposalID = q
    BY <2>1 DEF Used
  <2>2. CASE \E b \in Acceptors : acceptorState'[b][j][q] # "ABSENT"
    BY <1>1, <2>2 DEF Used
  <2>3. CASE \E k \in Leaders : protocols'[k][j][q].state # "ABSENT"
    BY <2>3 DEF Used
  <2> QED BY <1>2, <2>1, <2>2, <2>3 DEF Used
<1> QED BY <1>2, NoNewUse

\* findAndFillGaps draws a new ID for every gap.
LEMMA GapIDsDiffer ==
    ASSUME TypeOK, NEW l \in Leaders, NEW i \in Gaps(l), NEW j \in Gaps(l),
           GapProposalID(l, i) = GapProposalID(l, j)
    PROVE  i = j
<1> DEFINE below(k) == {h \in Gaps(l) : h <= k}
<1>1. IsFiniteSet(Gaps(l)) /\ i \in Int /\ j \in Int /\ \A h \in Gaps(l) : h \in Int
  BY GapsFinite, HighestInstanceType, SMT DEF Gaps
<1>2. \A k : IsFiniteSet(below(k)) /\ Cardinality(below(k)) \in Nat
  <2>1. \A k : below(k) \in SUBSET Gaps(l)
    OBVIOUS
  <2> QED BY <1>1, <2>1, FS_Subset, FS_CardinalityType
<1>3. proposalCount[l] \in Nat
  BY BoundsAssumption, SMT DEF TypeOK
<1>4. Cardinality(below(i)) = Cardinality(below(j))
  <2>1. PICK c, d \in Nat : c = Cardinality(below(i)) /\ d = Cardinality(below(j))
    BY <1>2
  <2>2. proposalCount[l] + c = proposalCount[l] + d
    BY <2>1 DEF GapProposalID, NumberedID
  <2> QED BY <1>3, <2>1, <2>2, SMT
<1>5. ASSUME NEW x \in Gaps(l), NEW y \in Gaps(l), x < y, Cardinality(below(x)) = Cardinality(below(y))
      PROVE  FALSE
  <2>1. below(x) \in SUBSET below(y)
    <3>1. \A h \in Gaps(l) : h <= x => h <= y
      BY <1>1, <1>5, SMT
    <3> QED BY <3>1
  <2>2. below(x) = below(y)
    BY <1>2, <1>5, <2>1, FS_Subset
  <2>3. y \in below(y) /\ y \notin below(x)
    BY <1>1, <1>5, SMT
  <2> QED BY <2>2, <2>3
<1> HIDE DEF below
<1> QED BY <1>1, <1>4, <1>5, SMT

\* newProposal draws a new ID.
LEMMA RecvExtProposeUses ==
    ASSUME TypeOK, SafetyInv, UseInv, NEW l \in Leaders, NEW v \in Values, RecvExtPropose(l, v)
    PROVE  UseInv'
<1>1. PICK i, p : i = highestInstance[l] + 1 /\ p = NumberedID(l, proposalCount[l] + 1)
  OBVIOUS
<1>2. /\ protocols' = [protocols EXCEPT ![l][i][p] = Proposed(v)]
      /\ msgs' = msgs \cup Proposals(l, v, p, i) /\ UNCHANGED acceptorState
  BY <1>1 DEF RecvExtPropose, acceptorVars
<1>3. p[1] = l /\ p[2] > proposalCount[l] /\ proposalCount[l] \in Int
  <2>1. proposalCount[l] \in 0 .. MaxProposals
    BY DEF TypeOK
  <2> QED BY <1>1, <2>1, BoundsAssumption, SMT DEF NumberedID
<1>4. ASSUME NEW j \in Instances, NEW q \in ProposalIDs, Used(j, q)'
      PROVE  Used(j, q) \/ (j = i /\ q = p)
  <2>1. ASSUME NEW k \in Leaders, protocols'[k][j][q] # protocols[k][j][q]
        PROVE  j = i /\ q = p
    BY <1>2, <2>1, SMT DEF TypeOK
  <2>2. \A m \in msgs' : m \in msgs \/ (m.instanceID = i /\ m.proposalID = p)
    BY <1>2, SMT DEF Proposals
  <2>3. CASE \E m \in msgs' : m.instanceID = j /\ m.proposalID = q
    BY <2>2, <2>3 DEF Used
  <2>4. CASE \E a \in Acceptors : acceptorState'[a][j][q] # "ABSENT"
    BY <1>2, <2>4 DEF Used
  <2>5. CASE \E k \in Leaders : protocols'[k][j][q].state # "ABSENT"
    BY <2>1, <2>5 DEF Used
  <2> QED BY <1>4, <2>3, <2>4, <2>5 DEF Used
<1>5. ASSUME NEW j \in Instances, NEW q \in ProposalIDs, Used(j, q) PROVE q # p
  <2>1. q[2] <= proposalCount[q[1]] /\ q[2] \in Int
    BY <1>5, UsedIsDrawn, BoundsAssumption, SMT DEF ProposalIDs
  <2> QED BY <1>3, <2>1, SMT
<1> QED BY <1>4, <1>5 DEF UseInv

\* findAndFillGaps and garbageCollect.
LEMMA FillGapsAndCollectUses ==
    ASSUME TypeOK, SafetyInv, UseInv, NEW l \in Leaders, FillGapsAndCollect(l)
    PROVE  UseInv'
<1>1. /\ msgs' = msgs \cup UNION {Proposals(l, NoOp, GapProposalID(l, i), i) : i \in Gaps(l)}
      /\ UNCHANGED acceptorState
      /\ proposalCount[l] + Cardinality(Gaps(l)) <= MaxProposals
      /\ proposalCount[l] \in Int
  BY BoundsAssumption, SMT DEF FillGapsAndCollect, acceptorVars, TypeOK
<1>2. ASSUME NEW k \in Leaders, NEW i \in Instances, NEW p \in ProposalIDs
      PROVE  protocols'[k][i][p] \in
                 {protocols[k][i][p], NoProtocol} \cup
                 (IF i \in Gaps(l) /\ p = GapProposalID(l, i) THEN {Proposed(NoOp)} ELSE {})
  BY DEF FillGapsAndCollect, TypeOK
<1>3. ASSUME NEW j \in Instances, NEW q \in ProposalIDs, Used(j, q)'
      PROVE  Used(j, q) \/ (j \in Gaps(l) /\ q = GapProposalID(l, j))
  <2>1. CASE \E k \in Leaders : protocols'[k][j][q].state # "ABSENT"
    BY <1>2, <2>1, SMT DEF Used, NoProtocol
  <2>2. CASE \E m \in msgs' : m.instanceID = j /\ m.proposalID = q
    <3>1. PICK m \in msgs' : m.instanceID = j /\ m.proposalID = q
      BY <2>2
    <3>2. CASE m \in msgs
      BY <3>1, <3>2 DEF Used
    <3>3. CASE m \notin msgs
      <4>1. PICK i \in Gaps(l) : m \in Proposals(l, NoOp, GapProposalID(l, i), i)
        BY <1>1, <3>3
      <4>2. m.instanceID = i /\ m.proposalID = GapProposalID(l, i)
        BY <4>1, SMT DEF Proposals
      <4> QED BY <3>1, <4>1, <4>2
    <3> QED BY <3>2, <3>3
  <2> QED BY <1>1, <1>3, <2>1, <2>2 DEF Used
<1>4. ASSUME NEW i \in Gaps(l), NEW j \in Instances, NEW q \in ProposalIDs, Used(j, q)
      PROVE  q # GapProposalID(l, i)
  <2>1. GapProposalID(l, i)[1] = l /\ GapProposalID(l, i)[2] > proposalCount[l]
        /\ GapProposalID(l, i) \in ProposalIDs
    BY <1>1, GapIDs
  <2>2. q[2] <= proposalCount[q[1]]
    BY <1>4, UsedIsDrawn
  <2>3. \A r \in ProposalIDs : r[2] \in Int
    BY BoundsAssumption, SMT DEF ProposalIDs
  <2> QED BY <1>1, <2>1, <2>2, <2>3, SMT
<1>5. ASSUME NEW i \in Instances, NEW j \in Instances, NEW p \in ProposalIDs,
             Used(i, p)', Used(j, p)'
      PROVE  i = j
  BY <1>3, <1>4, <1>5, GapIDsDiffer, SMT DEF UseInv
<1> QED BY <1>5 DEF UseInv

\* Every step keeps a proposal ID to its instance.
LEMMA UseStep ==
    ASSUME TypeOK, SafetyInv, UseInv, [Next]_vars
    PROVE  UseInv'
<1>1. ASSUME NEW m \in msgs
      PROVE  /\ m.instanceID \in Instances /\ m.proposalID \in ProposalIDs
             /\ Used(m.instanceID, m.proposalID)
  BY DEF TypeOK, Message, Used
<1>2. ASSUME UNCHANGED <<protocols, acceptorState>>, msgs' \subseteq msgs PROVE UseInv'
  BY <1>2, NoNewUse DEF Used
<1>3. ASSUME NEW l \in Leaders, NEW m \in msgs, RecvAgree(l, m) PROVE UseInv'
  <2>1. PICK i, p : i = m.instanceID /\ p = m.proposalID
    OBVIOUS
  <2>2. \E r : protocols' \in {protocols, [protocols EXCEPT ![l][i][p] = r]}
    BY <1>3, <2>1 DEF RecvAgree
  <2>3. UNCHANGED acceptorState
    BY <1>3 DEF RecvAgree, acceptorVars
  <2>4. \A n \in msgs' : n \in msgs \/ (n.instanceID = i /\ n.proposalID = p)
    <3>1. PICK v : msgs' \subseteq msgs \cup AcceptRequests(l, v, p, i)
      BY <1>3, <2>1 DEF RecvAgree
    <3> QED BY <3>1, SMT DEF AcceptRequests
  <2> QED BY <1>1, <2>1, <2>2, <2>3, <2>4, LeaderUses, SMT
<1>4. ASSUME NEW l \in Leaders, NEW m \in msgs, RecvAccepted(l, m) PROVE UseInv'
  <2>1. PICK i, p : i = m.instanceID /\ p = m.proposalID
    OBVIOUS
  <2>2. \E r : protocols' \in {protocols, [protocols EXCEPT ![l][i][p] = r]}
    BY <1>4, <2>1 DEF RecvAccepted
  <2>3. UNCHANGED acceptorState /\ msgs' \subseteq msgs
    BY <1>4 DEF RecvAccepted, acceptorVars
  <2>4. \A n \in msgs' : n \in msgs \/ (n.instanceID = i /\ n.proposalID = p)
    BY <2>3
  <2> QED BY <1>1, <2>1, <2>2, <2>3, <2>4, LeaderUses
<1>5. ASSUME NEW a \in Acceptors, NEW m \in msgs, RecvProposal(a, m) \/ RecvAccept(a, m)
      PROVE  UseInv'
  <2>1. PICK i, p : i = m.instanceID /\ p = m.proposalID
    OBVIOUS
  <2>2. \E s : acceptorState' \in {acceptorState, [acceptorState EXCEPT ![a][i][p] = s]}
    BY <1>5, <2>1 DEF RecvProposal, RecvAccept
  <2>3. UNCHANGED protocols
    BY <1>5 DEF RecvProposal, RecvAccept, leaderVars
  <2>4. \A n \in msgs' : n \in msgs \/ (n.instanceID = i /\ n.proposalID = p)
    BY <1>5, <2>1, SMT DEF RecvProposal, RecvAccept
  <2> QED BY <1>1, <2>1, <2>2, <2>3, <2>4, AcceptorUses, SMT
<1>6. ASSUME NEW a \in Acceptors, NEW m \in msgs, DropWhileFailed(a, m) PROVE UseInv'
  BY <1>2, <1>6 DEF DropWhileFailed, leaderVars, acceptorVars
<1>7. ASSUME NEW m \in msgs, Lose(m) PROVE UseInv'
  BY <1>2, <1>7 DEF Lose, leaderVars, acceptorVars
<1>8. ASSUME NEW l \in Leaders, GainPrimary(l) \/ LosePrimary(l) \/ StopLeader(l) PROVE UseInv'
  BY <1>2, <1>8 DEF GainPrimary, LosePrimary, StopLeader, acceptorVars
<1>9. ASSUME NEW a \in Acceptors, Fail(a) \/ Recover(a) \/ StopAcceptor(a) PROVE UseInv'
  BY <1>2, <1>9 DEF Fail, Recover, StopAcceptor, leaderVars
<1>10. CASE UNCHANGED vars
  BY <1>2, <1>10 DEF vars, leaderVars, acceptorVars
<1> QED
  BY <1>3, <1>4, <1>5, <1>6, <1>7, <1>8, <1>9, <1>10, RecvExtProposeUses, FillGapsAndCollectUses
  DEF Next, LeaderReceives, AcceptorReceives

\* An acceptor never meets a proposal ID, drawn by newProposal or by findAndFillGaps, in
\* two instances.
THEOREM IDsStandForOneInstance == Spec => []OneInstancePerProposal
<1>1. Init => UseInv
  BY SMT DEF Init, UseInv, Used, NoProtocol
<1>2. TypeOK /\ SafetyInv /\ UseInv /\ [Next]_vars => UseInv'
  BY UseStep
<1>3. UseInv => OneInstancePerProposal
  BY SMT DEF UseInv, Used, OneInstancePerProposal
<1> QED BY <1>1, <1>2, <1>3, TypeCorrect, SafetyInvariant, PTL DEF Spec
=============================================================================
