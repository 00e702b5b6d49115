---------------------------- MODULE VotingLedger ----------------------------
(***************************************************************************)
(* What toy_paxos.py promises about the history its leaders report: an     *)
(* acceptor votes at most once in an instance under a proposal, all votes  *)
(* under one proposal are for one value, and a leader records only a value *)
(* that a majority has voted for under a single proposal.                  *)
(*                                                                         *)
(* Nothing ties the votes of two proposals together: the code does not     *)
(* promise that two proposals decide the same value for an instance.       *)
(***************************************************************************)
CONSTANTS Leaders, Acceptors, Instances, ProposalIDs, Value, None,
          Quorums     \* the sets of acceptors whose common vote decides

VARIABLES
    vote,       \* the value an acceptor voted for in an instance under a proposal
    learned     \* the value a leader reports for an instance

Init ==
    /\ vote = [a \in Acceptors |-> [i \in Instances |-> [p \in ProposalIDs |-> None]]]
    /\ learned = [l \in Leaders |-> [i \in Instances |-> None]]

Cast(a, i, p, v) ==
    /\ vote[a][i][p] = None
    /\ \A b \in Acceptors : vote[b][i][p] \in {None, v}
    /\ vote' = [vote EXCEPT ![a][i][p] = v]
    /\ UNCHANGED learned

Learn(l, i, p, v) ==
    /\ {a \in Acceptors : vote[a][i][p] = v} \in Quorums
    /\ learned' = [learned EXCEPT ![l][i] = v]
    /\ UNCHANGED vote

Next ==
    \E i \in Instances, p \in ProposalIDs, v \in Value :
        \/ \E a \in Acceptors : Cast(a, i, p, v)
        \/ \E l \in Leaders : Learn(l, i, p, v)

Spec == Init /\ [][Next]_<<vote, learned>>

=============================================================================
