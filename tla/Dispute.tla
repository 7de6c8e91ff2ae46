------------------------------ MODULE Dispute ------------------------------
(***************************************************************************)
(* The class DisputeTransaction of src/src/Consensus/ConsensusParams.hpp   *)
(* and ConsensusParams.cpp: one transaction that some positions of a round *)
(* hold and others do not, with the votes on it.  A dispute is a record    *)
(*                                                                         *)
(*   ourVote     : whether this node wants the transaction in the set      *)
(*   yays, nays  : how many other nodes want it, and do not                *)
(*   votes       : node -> BOOLEAN, the unordered_map of their votes       *)
(*                                                                         *)
(* The ratio converge is counted in hundredths.  The counters cannot wrap: *)
(* they count the entries of votes (theorem CountersStayExact).            *)
(***************************************************************************)
EXTENDS Integers

CONSTANT Stage      \* values of Consensus::converge_, in hundredths

ASSUME StageAssumption == Stage \subseteq Nat

\* Mutant of NewDispute: this node is in favour of every transaction.
NewDisputeInFavour(vote) ==
    [ourVote |-> TRUE, yays |-> 0, nays |-> 0, votes |-> [p \in {} |-> TRUE]]

NewDispute(vote) ==
    [ourVote |-> vote, yays |-> 0, nays |-> 0, votes |-> [p \in {} |-> TRUE]]

One(b) == IF b THEN 1 ELSE 0

\* Mutant of setVote: a changed vote is counted on both sides.
setVoteTwice(d, node, vote) ==
    LET fresh == node \notin DOMAIN d.votes \/ d.votes[node] # vote
    IN  [ourVote |-> d.ourVote,
         yays |-> d.yays + One(fresh /\ vote),
         nays |-> d.nays + One(fresh /\ ~ vote),
         votes |-> [p \in DOMAIN d.votes \union {node} |->
                      IF p = node THEN vote ELSE d.votes[p]]]

\* DisputeTransaction::setVote.  The vote of a node is counted when it is its
\* first one, and moved to the other counter when it is a different one.
setVote(d, node, vote) ==
    LET known == node \in DOMAIN d.votes
        moved == known /\ d.votes[node] # vote
        Count(old, v) == IF ~ known THEN old + One(v)
                         ELSE IF moved THEN old + One(v) - One(~ v) ELSE old
    IN  [ourVote |-> d.ourVote,
         yays |-> Count(d.yays, vote),
         nays |-> Count(d.nays, ~ vote),
         votes |-> [p \in DOMAIN d.votes \union {node} |->
                      IF p = node THEN vote ELSE d.votes[p]]]

\* DisputeTransaction::unVote.
unVote(d, node) ==
    IF node \in DOMAIN d.votes
    THEN [ourVote |-> d.ourVote,
          yays |-> d.yays - One(d.votes[node]),
          nays |-> d.nays - One(~ d.votes[node]),
          votes |-> [p \in DOMAIN d.votes \ {node} |-> d.votes[p]]]
    ELSE d

\* The share of yes votes, in hundredths, the local vote has to exceed.
Threshold(converge) ==
    CASE converge < 50 -> 50
      [] converge >= 50 /\ converge < 85 -> 65
      [] converge >= 85 /\ converge < 200 -> 70
      [] OTHER -> 95

\* Mutant of newVote: the share of yes votes is not rounded down.
newVoteByShare(d, converge) ==
    100 * (d.yays + One(d.ourVote)) > Threshold(converge) * (d.yays + d.nays + 1)

\* DisputeTransaction::updateVote.  The quotient is one of two unsigned
\* integers, computed before it is compared with the double.
newVote(d, converge) ==
    100 * ((d.yays + One(d.ourVote)) \div (d.yays + d.nays + 1)) > Threshold(converge)

updateVote(d, converge) == [d EXCEPT !.ourVote = newVote(d, converge)]
============================================================================
