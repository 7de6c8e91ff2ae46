------------------------- MODULE DisputeTransaction -------------------------
(***************************************************************************)
(* The life of one dispute: createDisputes makes it, gotTxSet and          *)
(* updateProposals set and withdraw the votes of the other nodes (setVote, *)
(* unVote, in any order, as proposals come and go stale) and every tick of *)
(* the establish phase reconsiders the local vote (updateVote).            *)
(***************************************************************************)
EXTENDS Dispute, FiniteSets

CONSTANT Voter      \* the nodes whose positions vote on the transaction

ASSUME VoterAssumption == IsFiniteSet(Voter)

VARIABLE dispute

disputeVars == <<dispute>>

DisputeInit == \E vote \in BOOLEAN : dispute = NewDispute(vote)

SetVote(p, vote) == dispute' = setVote(dispute, p, vote)

UnVote(p) == p \in DOMAIN dispute.votes /\ dispute' = unVote(dispute, p)

UpdateVote(converge) == dispute' = updateVote(dispute, converge)

DisputeNext ==
    \/ \E p \in Voter, vote \in BOOLEAN : SetVote(p, vote)
    \/ \E p \in Voter : UnVote(p)
    \/ \E converge \in Stage : UpdateVote(converge)

DisputeSpec == DisputeInit /\ [][DisputeNext]_disputeVars

-----------------------------------------------------------------------------
Voted(vote) == {p \in DOMAIN dispute.votes : dispute.votes[p] = vote}

IsDispute(d, voters) ==
    /\ d = [ourVote |-> d.ourVote, yays |-> d.yays, nays |-> d.nays, votes |-> d.votes]
    /\ d.ourVote \in BOOLEAN
    /\ d.yays \in Nat
    /\ d.nays \in Nat
    /\ DOMAIN d.votes \subseteq voters
    /\ d.votes \in [DOMAIN d.votes -> BOOLEAN]

DisputeTypeOK == IsDispute(dispute, Voter)

\* yays_ and nays_ are kept apart from votes_ and adjusted step by step
\* (setVote and unVote); they always count its entries, whatever votes come,
\* change and are withdrawn.
CountersCountVotes ==
    /\ dispute.yays = Cardinality(Voted(TRUE))
    /\ dispute.nays = Cardinality(Voted(FALSE))

\* updateVote divides integers, so the quotient is 1 when everybody says yes
\* and 0 otherwise: the local vote never turns to yes, and a single no of any
\* node turns it to no, at every stage of the round.
OnlyVetoesChangeOurVote ==
    [][dispute'.ourVote # dispute.ourVote =>
         dispute.ourVote /\ \E p \in DOMAIN dispute.votes : ~ dispute.votes[p]]_disputeVars
=============================================================================
