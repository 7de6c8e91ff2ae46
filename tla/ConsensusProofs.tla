-------------------------- MODULE ConsensusProofs ---------------------------
(***************************************************************************)
(* Theorems about consensus: the life of a dispute, for any number of      *)
(* voters and any stages; the rounds of one node, for every UNL and every  *)
(* set of transactions; and the network of consensus nodes, for every      *)
(* number of validators and every bound on the rounds.                     *)
(***************************************************************************)
EXTENDS ConsensusVotes, OneRound, DisputeTransaction, FoldProofs, ChainTreeProofs

-----------------------------------------------------------------------------
(* A dispute *)

\* The voters of d that vote as told.
VotersOf(d, vote) == {p \in DOMAIN d.votes : d.votes[p] = vote}

CountsVotes(d) ==
    /\ d.yays = Cardinality(VotersOf(d, TRUE))
    /\ d.nays = Cardinality(VotersOf(d, FALSE))

DisputeInv(d, P) == IsDispute(d, P) /\ CountsVotes(d)

\* The voters of a dispute are finitely many.
LEMMA VotersFinite ==
    ASSUME NEW P, IsFiniteSet(P), NEW d, IsDispute(d, P), NEW vote
    PROVE  IsFiniteSet(VotersOf(d, vote)) /\ Cardinality(VotersOf(d, vote)) \in Nat
<1>1. VotersOf(d, vote) \in SUBSET P
  BY DEF VotersOf, IsDispute
<1> QED
  BY <1>1, FS_Subset, FS_CardinalityType

LEMMA NewDisputeInv ==
    ASSUME NEW P, NEW vote \in BOOLEAN
    PROVE  DisputeInv(NewDispute(vote), P)
<1> DEFINE d == NewDispute(vote)
<1>1. IsDispute(d, P)
  BY DEF IsDispute, NewDispute
<1>2. VotersOf(d, TRUE) = {} /\ VotersOf(d, FALSE) = {}
  BY DEF VotersOf, NewDispute
<1> QED
  BY <1>1, <1>2, FS_EmptySet DEF DisputeInv, CountsVotes, NewDispute

\* Votes and counters of a dispute that agree again.
LEMMA DisputeInvIntro ==
    ASSUME NEW P, NEW d, IsDispute(d, P), NEW votes, NEW y \in Nat, NEW n \in Nat,
           NEW e, e = [ourVote |-> d.ourVote, yays |-> y, nays |-> n, votes |-> votes],
           DOMAIN votes \subseteq P, votes \in [DOMAIN votes -> BOOLEAN],
           y = Cardinality(VotersOf(e, TRUE)), n = Cardinality(VotersOf(e, FALSE))
    PROVE  DisputeInv(e, P)
BY DEF DisputeInv, IsDispute, CountsVotes

\* setVote keeps the counters exact: of the two sets of voters, one gains the
\* node and the other one loses it.
LEMMA SetVoteInv ==
    ASSUME NEW P, IsFiniteSet(P), NEW d, DisputeInv(d, P), NEW node \in P, NEW vote \in BOOLEAN
    PROVE  DisputeInv(setVote(d, node, vote), P)
<1> DEFINE e == setVote(d, node, vote)
           known == node \in DOMAIN d.votes
           moved == known /\ d.votes[node] # vote
           votes == [p \in DOMAIN d.votes \union {node} |->
                       IF p = node THEN vote ELSE d.votes[p]]
           Count(old, v) == IF ~ known THEN old + One(v)
                            ELSE IF moved THEN old + One(v) - One(~ v) ELSE old
           yes == VotersOf(d, TRUE)
           no == VotersOf(d, FALSE)
<1>1. IsDispute(d, P) /\ d.yays = Cardinality(yes) /\ d.nays = Cardinality(no)
  BY DEF DisputeInv, CountsVotes
<1>2. /\ DOMAIN d.votes \subseteq P
      /\ \A p \in DOMAIN d.votes : d.votes[p] \in BOOLEAN
  BY <1>1 DEF IsDispute
<1>3. e = [ourVote |-> d.ourVote, yays |-> Count(d.yays, vote),
           nays |-> Count(d.nays, ~ vote), votes |-> votes]
  BY DEF setVote
<1>4. DOMAIN votes \subseteq P /\ votes \in [DOMAIN votes -> BOOLEAN]
  BY <1>2
<1>5. /\ IsFiniteSet(yes) /\ Cardinality(yes) \in Nat
      /\ IsFiniteSet(no) /\ Cardinality(no) \in Nat
  BY <1>1, VotersFinite
<1>6. /\ node \in yes <=> known /\ d.votes[node] = TRUE
      /\ node \in no <=> known /\ d.votes[node] = FALSE
      /\ known => d.votes[node] \in BOOLEAN
  BY <1>2 DEF VotersOf
<1>7. /\ Cardinality(yes \union {node}) = IF node \in yes THEN Cardinality(yes) ELSE Cardinality(yes) + 1
      /\ Cardinality(yes \ {node}) = IF node \in yes THEN Cardinality(yes) - 1 ELSE Cardinality(yes)
      /\ Cardinality(no \union {node}) = IF node \in no THEN Cardinality(no) ELSE Cardinality(no) + 1
      /\ Cardinality(no \ {node}) = IF node \in no THEN Cardinality(no) - 1 ELSE Cardinality(no)
      /\ Cardinality(yes \ {node}) \in Nat /\ Cardinality(no \ {node}) \in Nat
  <2>1. IsFiniteSet(yes \ {node}) /\ IsFiniteSet(no \ {node})
    BY <1>5, FS_RemoveElement
  <2> HIDE DEF yes, no
  <2> QED
    BY <1>5, <2>1, FS_AddElement, FS_RemoveElement, FS_CardinalityType
<1>8. CASE vote = TRUE
  <2>1. VotersOf(e, TRUE) = yes \union {node} /\ VotersOf(e, FALSE) = no \ {node}
    <3>1. /\ DOMAIN e.votes = DOMAIN d.votes \union {node}
          /\ e.votes[node] = TRUE
          /\ \A p \in DOMAIN d.votes \ {node} : e.votes[p] = d.votes[p]
      <4>1. e.votes = votes
        BY <1>3
      <4> QED
        BY <4>1, <1>8
    <3> HIDE DEF e
    <3> QED
      BY <3>1 DEF VotersOf
  <2>2. /\ Count(d.yays, vote) = Cardinality(yes \union {node})
        /\ Count(d.nays, ~ vote) = Cardinality(no \ {node})
        /\ Count(d.yays, vote) \in Nat /\ Count(d.nays, ~ vote) \in Nat
    <3>1. moved <=> known /\ d.votes[node] = FALSE
      BY <1>6, <1>8
    <3>2. One(vote) = 1 /\ One(~ vote) = 0
      BY <1>8 DEF One
    <3> HIDE DEF yes, no, known, moved
    <3> QED
      BY <1>1, <1>5, <1>6, <1>7, <3>1, <3>2
  <2> HIDE DEF e, votes, Count, yes, no
  <2>3. DisputeInv(e, P)
    BY <1>1, <1>3, <1>4, <2>1, <2>2, DisputeInvIntro
  <2> QED
    BY <2>3 DEF e
<1>9. CASE vote = FALSE
  <2>1. VotersOf(e, FALSE) = no \union {node} /\ VotersOf(e, TRUE) = yes \ {node}
    <3>1. /\ DOMAIN e.votes = DOMAIN d.votes \union {node}
          /\ e.votes[node] = FALSE
          /\ \A p \in DOMAIN d.votes \ {node} : e.votes[p] = d.votes[p]
      <4>1. e.votes = votes
        BY <1>3
      <4> QED
        BY <4>1, <1>9
    <3> HIDE DEF e
    <3> QED
      BY <3>1 DEF VotersOf
  <2>2. /\ Count(d.yays, vote) = Cardinality(yes \ {node})
        /\ Count(d.nays, ~ vote) = Cardinality(no \union {node})
        /\ Count(d.yays, vote) \in Nat /\ Count(d.nays, ~ vote) \in Nat
    <3>1. moved <=> known /\ d.votes[node] = TRUE
      BY <1>6, <1>9
    <3>2. One(vote) = 0 /\ One(~ vote) = 1
      BY <1>9 DEF One
    <3> HIDE DEF yes, no, known, moved
    <3> QED
      BY <1>1, <1>5, <1>6, <1>7, <3>1, <3>2
  <2> HIDE DEF e, votes, Count, yes, no
  <2>3. DisputeInv(e, P)
    BY <1>1, <1>3, <1>4, <2>1, <2>2, DisputeInvIntro
  <2> QED
    BY <2>3 DEF e
<1> QED
  BY <1>8, <1>9

\* unVote keeps the counters exact: the node leaves the set it is counted in.
LEMMA UnVoteInv ==
    ASSUME NEW P, IsFiniteSet(P), NEW d, DisputeInv(d, P), NEW node \in DOMAIN d.votes
    PROVE  DisputeInv(unVote(d, node), P)
<1> DEFINE e == unVote(d, node)
           votes == [p \in DOMAIN d.votes \ {node} |-> d.votes[p]]
           y == d.yays - One(d.votes[node])
           n == d.nays - One(~ d.votes[node])
           yes == VotersOf(d, TRUE)
           no == VotersOf(d, FALSE)
<1>1. IsDispute(d, P) /\ d.yays = Cardinality(yes) /\ d.nays = Cardinality(no)
  BY DEF DisputeInv, CountsVotes
<1>2. /\ DOMAIN d.votes \subseteq P
      /\ \A p \in DOMAIN d.votes : d.votes[p] \in BOOLEAN
  BY <1>1 DEF IsDispute
<1>3. e = [ourVote |-> d.ourVote, yays |-> y, nays |-> n, votes |-> votes]
  BY DEF unVote
<1>4. DOMAIN votes \subseteq P /\ votes \in [DOMAIN votes -> BOOLEAN]
  BY <1>2
<1>5. VotersOf(e, TRUE) = yes \ {node} /\ VotersOf(e, FALSE) = no \ {node}
  BY <1>2, <1>3 DEF VotersOf
<1>6. /\ IsFiniteSet(yes) /\ Cardinality(yes) \in Nat
      /\ IsFiniteSet(no) /\ Cardinality(no) \in Nat
  BY <1>1, VotersFinite
<1>7. /\ node \in yes <=> d.votes[node] = TRUE
      /\ node \in no <=> d.votes[node] = FALSE
      /\ d.votes[node] \in BOOLEAN
  BY <1>2 DEF VotersOf
<1>8. /\ Cardinality(yes \ {node}) = IF node \in yes THEN Cardinality(yes) - 1 ELSE Cardinality(yes)
      /\ Cardinality(no \ {node}) = IF node \in no THEN Cardinality(no) - 1 ELSE Cardinality(no)
      /\ Cardinality(yes \ {node}) \in Nat /\ Cardinality(no \ {node}) \in Nat
  <2>1. IsFiniteSet(yes \ {node}) /\ IsFiniteSet(no \ {node})
    BY <1>6, FS_RemoveElement
  <2> HIDE DEF yes, no
  <2> QED
    BY <1>6, <2>1, FS_RemoveElement, FS_CardinalityType
<1>9. /\ y = Cardinality(yes \ {node}) /\ n = Cardinality(no \ {node})
      /\ y \in Nat /\ n \in Nat
  <2> HIDE DEF yes, no
  <2> QED
    BY <1>1, <1>6, <1>7, <1>8 DEF One
<1> HIDE DEF e, votes, y, n, yes, no
<1>10. DisputeInv(e, P)
  BY <1>1, <1>3, <1>4, <1>5, <1>9, DisputeInvIntro
<1> QED
  BY <1>10 DEF e

\* What the integer division makes of updateVote.
LEMMA UpdateVoteValue ==
    ASSUME NEW P, NEW d, IsDispute(d, P), NEW converge \in Nat
    PROVE  newVote(d, converge) <=> d.ourVote /\ d.nays = 0
<1> DEFINE wanted == d.yays + One(d.ourVote)
           all == d.yays + d.nays + 1
<1>1. d.ourVote \in BOOLEAN /\ d.yays \in Nat /\ d.nays \in Nat
  BY DEF IsDispute
<1>2. wanted \in Nat /\ all \in Nat \ {0} /\ wanted <= all
  BY <1>1 DEF One
<1>3. Threshold(converge) \in {50, 65, 70, 95}
  BY DEF Threshold
<1>4. wanted = all <=> d.ourVote /\ d.nays = 0
  BY <1>1, SMTT(60) DEF One
<1>5. wanted \div all = IF wanted = all THEN 1 ELSE 0
  BY <1>2, SMTT(30)
<1>6. newVote(d, converge) <=> 100 * (wanted \div all) > Threshold(converge)
  BY DEF newVote
<1> HIDE DEF wanted, all
<1> QED
  BY <1>3, <1>4, <1>5, <1>6

LEMMA UpdateVoteInv ==
    ASSUME NEW P, NEW d, DisputeInv(d, P), NEW converge \in Nat
    PROVE  DisputeInv(updateVote(d, converge), P)
<1>1. IsDispute(d, P) /\ CountsVotes(d)
  BY DEF DisputeInv
<1>2. newVote(d, converge) \in BOOLEAN
  BY DEF newVote
<1> DEFINE e == updateVote(d, converge)
<1>3. /\ e = [ourVote |-> newVote(d, converge), yays |-> d.yays, nays |-> d.nays,
              votes |-> d.votes]
  BY <1>1 DEF updateVote, IsDispute
<1> QED
  BY <1>1, <1>2, <1>3 DEF DisputeInv, CountsVotes, IsDispute, VotersOf

-----------------------------------------------------------------------------
DisputeIInv == DisputeInv(dispute, Voter)

LEMMA DisputeNextInv == DisputeIInv /\ [DisputeNext]_disputeVars => DisputeIInv'
<1> SUFFICES ASSUME DisputeIInv, [DisputeNext]_disputeVars PROVE DisputeIInv'
  OBVIOUS
<1>1. CASE \E p \in Voter, vote \in BOOLEAN : SetVote(p, vote)
  BY <1>1, VoterAssumption, SetVoteInv DEF SetVote, DisputeIInv
<1>2. CASE \E p \in Voter : UnVote(p)
  BY <1>2, VoterAssumption, UnVoteInv DEF UnVote, DisputeIInv
<1>3. CASE \E converge \in Stage : UpdateVote(converge)
  BY <1>3, StageAssumption, UpdateVoteInv DEF UpdateVote, DisputeIInv
<1>4. CASE UNCHANGED disputeVars
  BY <1>4 DEF disputeVars, DisputeIInv
<1> QED
  BY <1>1, <1>2, <1>3, <1>4 DEF DisputeNext

\* The inductive invariant: types, and counters that count the votes.
THEOREM DisputeInvariance == DisputeSpec => []DisputeIInv
<1>1. DisputeInit => DisputeIInv
  BY NewDisputeInv DEF DisputeInit, DisputeIInv
<1> QED
  BY <1>1, DisputeNextInv, PTL DEF DisputeSpec

\* The dispute keeps its type, for any finite set of voters: in particular the
\* unsigned counters never go below zero.
THEOREM DisputeTypeCorrect == DisputeSpec => []DisputeTypeOK
<1>1. DisputeIInv => DisputeTypeOK
  BY DEF DisputeIInv, DisputeInv, DisputeTypeOK
<1> QED
  BY <1>1, DisputeInvariance, PTL

\* The counters of yes and no votes always count the recorded votes.
THEOREM CountersStayExact == DisputeSpec => []CountersCountVotes
<1>1. DisputeIInv => CountersCountVotes
  BY DEF DisputeIInv, DisputeInv, CountsVotes, VotersOf, Voted, CountersCountVotes
<1> QED
  BY <1>1, DisputeInvariance, PTL

\* The local vote changes only from yes to no, and only when some node votes
\* no, whatever the stage of the round.
THEOREM OurVoteOnlyVetoed == DisputeSpec => OnlyVetoesChangeOurVote
<1> DEFINE Step == dispute'.ourVote # dispute.ourVote =>
                     dispute.ourVote /\ \E p \in DOMAIN dispute.votes : ~ dispute.votes[p]
<1>1. DisputeIInv /\ [DisputeNext]_disputeVars => [Step]_disputeVars
  <2> SUFFICES ASSUME DisputeIInv, DisputeNext, dispute'.ourVote # dispute.ourVote PROVE Step
    BY DEF disputeVars
  <2>1. IsDispute(dispute, Voter) /\ CountsVotes(dispute)
    BY DEF DisputeIInv, DisputeInv
  <2>2. PICK converge \in Stage : UpdateVote(converge)
    <3>1. ASSUME NEW p \in Voter, NEW vote \in BOOLEAN, SetVote(p, vote) PROVE FALSE
      BY <2>1, <3>1 DEF SetVote, setVote, IsDispute
    <3>2. ASSUME NEW p \in Voter, UnVote(p) PROVE FALSE
      BY <2>1, <3>2 DEF UnVote, unVote, IsDispute
    <3> QED
      BY <3>1, <3>2 DEF DisputeNext
  <2>3. dispute'.ourVote = newVote(dispute, converge)
    BY <2>1, <2>2 DEF UpdateVote, updateVote, IsDispute
  <2>4. dispute'.ourVote <=> dispute.ourVote /\ dispute.nays = 0
    BY <2>1, <2>3, StageAssumption, UpdateVoteValue
  <2>5. dispute.ourVote \in BOOLEAN /\ dispute'.ourVote \in BOOLEAN
    BY <2>1, <2>3 DEF IsDispute, newVote
  <2>6. dispute.ourVote /\ dispute.nays # 0
    BY <2>4, <2>5
  <2>7. VotersOf(dispute, FALSE) # {}
    BY <2>1, <2>6, FS_EmptySet DEF CountsVotes
  <2> QED
    BY <2>1, <2>6, <2>7 DEF VotersOf, IsDispute
<1> QED
  BY <1>1, DisputeInvariance, PTL DEF DisputeSpec, OnlyVetoesChangeOurVote

\* Positions are those of the other validators.
PeersHavePositions == DOMAIN own.currPeerProposals \subseteq Validator \ {Self}

-----------------------------------------------------------------------------
(* The quotient of haveConsensus *)

LEMMA QuotientOfSmaller ==
    ASSUME NEW a \in Nat, NEW b \in Nat, a < b
    PROVE  a \div b = 0
OBVIOUS

LEMMA UNLcountIsOthers ==
    ASSUME NEW S, S \subseteq Validator \ {Self}
    PROVE  /\ IsFiniteSet(S) /\ Cardinality(S) \in Nat
           /\ UNLcount \in Nat
           /\ Cardinality(S) <= UNLcount
           /\ Cardinality(S) = UNLcount => S = Validator \ {Self}
<1>1. IsFiniteSet(Validator \ {Self}) /\ Cardinality(Validator \ {Self}) = UNLcount
  BY ValidatorAssumption, SelfAssumption, FS_RemoveElement DEF UNLcount
<1>2. UNLcount \in Nat
  BY <1>1, FS_CardinalityType
<1> QED
  BY <1>1, <1>2, FS_Subset, FS_CardinalityType

LEMMA AllPropose ==
    ASSUME PeersHavePositions
    PROVE  ConsensusIsUnanimous
<1> DEFINE S == PeersWith(own, own.txns)
<1>1. S \subseteq Validator \ {Self}
  BY DEF PeersWith, PeersHavePositions
<1>2. /\ Cardinality(S) \in Nat /\ UNLcount \in Nat
      /\ Cardinality(S) <= UNLcount
      /\ Cardinality(S) = UNLcount => S = Validator \ {Self}
  BY <1>1, UNLcountIsOthers
<1>3. SUFFICES ASSUME haveConsensus(own), Cardinality(S) # UNLcount
               PROVE  FALSE
  BY <1>2 DEF ConsensusIsUnanimous
<1>4. (Cardinality(S) + 1) \div (UNLcount + 1) = 0
  BY <1>2, <1>3, QuotientOfSmaller
<1> QED
  BY <1>3, <1>4 DEF haveConsensus

-----------------------------------------------------------------------------
(* Positions *)

LEMMA HearSetPositions ==
    ASSUME NEW r, NEW id, NEW set, NEW diff
    PROVE  HearSet(r, id, set, diff).currPeerProposals = r.currPeerProposals
BY DEF HearSet, updateDisputes, createDisputes

LEMMA GotTxSetPositions ==
    ASSUME NEW r, NEW p, NEW prop, NEW set, NEW diff
    PROVE  DOMAIN gotTxSet(r, p, prop, set, diff).currPeerProposals
                \subseteq DOMAIN r.currPeerProposals \union {p}
<1> DEFINE f == Put(r.currPeerProposals, p, [txSet |-> prop.txSet, seq |-> prop.seq])
           heard == [r EXCEPT !.currPeerProposals = f]
           acquired == [heard EXCEPT !.acquiredSets = emplace(@, prop.txSet, set)]
           s == HearSet(acquired, prop.txSet, set, diff)
           g == gotTxSet(r, p, prop, set, diff)
<1>1. DOMAIN f = DOMAIN r.currPeerProposals \union {p}
  BY DEF Put
<1> HIDE DEF f
<1>2. heard.currPeerProposals = f \/ heard.currPeerProposals = r.currPeerProposals
  OBVIOUS
<1>3. acquired.currPeerProposals = heard.currPeerProposals
  OBVIOUS
<1> HIDE DEF acquired
<1>4. s.currPeerProposals = acquired.currPeerProposals
  BY HearSetPositions
<1>5. g \in {r, heard, acquired, s}
  BY DEF gotTxSet, acquired, f
<1> HIDE DEF heard, s, g
<1>6. DOMAIN g.currPeerProposals \subseteq DOMAIN r.currPeerProposals \union {p}
  BY <1>1, <1>2, <1>3, <1>4, <1>5
<1> QED
  BY <1>6 DEF g

LEMMA UpdateProposalsPositions ==
    ASSUME NEW r, NEW stale, NEW staleSets, NEW converge
    PROVE  DOMAIN updateProposals(r, stale, staleSets, converge).currPeerProposals
                \subseteq DOMAIN r.currPeerProposals
<1> DEFINE fresh == DropStale(r, stale, staleSets)
           decided == DecideDisputes(fresh, converge)
           txns == DecidedSet(fresh, decided)
           voted == [fresh EXCEPT !.disputes = decided]
           proposed == [voted EXCEPT !.txns = txns, !.seq = @ + 1,
                                     !.acquiredSets = emplace(@, txns, txns)]
           s == HearSet(proposed, txns, txns, {})
           u == updateProposals(r, stale, staleSets, converge)
<1>1. DOMAIN fresh.currPeerProposals \subseteq DOMAIN r.currPeerProposals
  BY DEF DropStale
<1>2. u \in {voted, proposed, s}
  BY DEF updateProposals
<1> HIDE DEF fresh, decided, txns
<1>3. voted.currPeerProposals = fresh.currPeerProposals
  OBVIOUS
<1>4. proposed.currPeerProposals = voted.currPeerProposals
  OBVIOUS
<1> HIDE DEF voted, proposed, u
<1>5. s.currPeerProposals = proposed.currPeerProposals
  BY HearSetPositions
<1> HIDE DEF s
<1>6. DOMAIN u.currPeerProposals \subseteq DOMAIN r.currPeerProposals
  BY <1>1, <1>2, <1>3, <1>4, <1>5
<1> QED
  BY <1>6 DEF u

LEMMA PeersKeepPositions == OwnSpec => []PeersHavePositions
<1>1. OwnInit => PeersHavePositions
  BY DEF OwnInit, PeersHavePositions, NewRound
<1>2. PeersHavePositions /\ [OwnNext]_ownVars => PeersHavePositions'
  <2> SUFFICES ASSUME PeersHavePositions, [OwnNext]_ownVars
               PROVE  PeersHavePositions'
    OBVIOUS
  <2>1. CASE BeginOwnRound
    BY <2>1 DEF BeginOwnRound, PeersHavePositions, NewRound
  <2>2. ASSUME NEW pool \in SUBSET Tx, CloseOwnBlock(pool)
        PROVE  PeersHavePositions'
    <3>1. own'.currPeerProposals = own.currPeerProposals
      BY <2>2 DEF CloseOwnBlock, closeBlock
    <3> QED
      BY <3>1 DEF PeersHavePositions
  <2>3. ASSUME NEW p \in Validator \ {Self}, NEW set \in TxSet, NEW seq \in 0 .. MaxSeq,
               GotTxSet(p, set, seq)
        PROVE  PeersHavePositions'
    <3>1. DOMAIN own'.currPeerProposals \subseteq DOMAIN own.currPeerProposals \union {p}
      BY <2>3, GotTxSetPositions DEF GotTxSet
    <3> QED
      BY <3>1 DEF PeersHavePositions
  <2>4. ASSUME NEW stale, NEW staleSets, NEW converge,
               UpdateOwnProposals(stale, staleSets, converge)
        PROVE  PeersHavePositions'
    <3>1. DOMAIN own'.currPeerProposals \subseteq DOMAIN own.currPeerProposals
      BY <2>4, UpdateProposalsPositions DEF UpdateOwnProposals
    <3> QED
      BY <3>1 DEF PeersHavePositions
  <2>5. CASE UNCHANGED ownVars
    BY <2>5 DEF ownVars, PeersHavePositions
  <2> QED
    BY <2>1, <2>2, <2>3, <2>4, <2>5 DEF OwnNext
<1> QED
  BY <1>1, <1>2, PTL DEF OwnSpec

\* haveConsensus lets a round end only with a set that all validators of the UNL
\* propose, however large the UNL: its share is a quotient of unsigned integers.
THEOREM RoundsEndUnanimously == OwnSpec => []ConsensusIsUnanimous
BY PeersKeepPositions, AllPropose, PTL
-----------------------------------------------------------------------------
(* Many votes on a dispute: the folds over peers. *)

\* The disputes with voters in P.
DisputesOf(P) ==
    {d \in [ourVote : BOOLEAN, yays : Nat, nays : Nat,
            votes : UNION {[D -> BOOLEAN] : D \in SUBSET P}] : DisputeInv(d, P)}

LEMMA DisputesOfType ==
    ASSUME NEW P, NEW d
    PROVE  d \in DisputesOf(P) <=> DisputeInv(d, P)
<1>1. ASSUME DisputeInv(d, P)
      PROVE  d \in [ourVote : BOOLEAN, yays : Nat, nays : Nat,
                    votes : UNION {[D -> BOOLEAN] : D \in SUBSET P}]
  <2>1. d.votes \in UNION {[D -> BOOLEAN] : D \in SUBSET P}
    BY <1>1 DEF DisputeInv, IsDispute
  <2> QED
    BY <1>1, <2>1 DEF DisputeInv, IsDispute
<1> QED
  BY <1>1 DEF DisputesOf

\* it sets the votes f of the nodes of S one after the other, beginning with d;
\* it withdraws them.
Votes(it, S, d, f) ==
    it = [s \in SUBSET S |-> IF s = {} THEN d
                             ELSE setVote(it[s \ {First(S)[s]}], First(S)[s], f[First(S)[s]])]

Withdraws(it, S, d) ==
    it = [s \in SUBSET S |-> IF s = {} THEN d
                             ELSE unVote(it[s \ {First(S)[s]}], First(S)[s])]

LEMMA FirstIsChoice ==
    ASSUME NEW S
    PROVE  /\ IsChoice(First(S), S)
           /\ \A s \in SUBSET S : First(S)[s] = CHOOSE x \in s : TRUE
BY DEF IsChoice, First

LEMMA SetVoteKeepsOurVote ==
    ASSUME NEW d, NEW p, NEW vote
    PROVE  setVote(d, p, vote).ourVote = d.ourVote
BY DEF setVote

LEMMA VotesExist ==
    ASSUME NEW P, IsFiniteSet(P), NEW S \in SUBSET P, NEW d, DisputeInv(d, P),
           NEW f, \A p \in S : f[p] \in BOOLEAN
    PROVE  \E it : Votes(it, S, d, f)
<1> DEFINE V == DisputesOf(P)
           c == First(S)
           step == [p \in S |-> [e \in V |-> setVote(e, p, f[p])]]
<1>1. step \in [S -> [V -> V]]
  <2> SUFFICES ASSUME NEW p \in S, NEW e \in V PROVE setVote(e, p, f[p]) \in V
    OBVIOUS
  <2>1. DisputeInv(e, P) /\ p \in P /\ f[p] \in BOOLEAN
    BY DisputesOfType
  <2>2. DisputeInv(setVote(e, p, f[p]), P)
    BY <2>1, SetVoteInv
  <2> QED
    BY <2>2, DisputesOfType
<1>2. d \in V /\ IsFiniteSet(S) /\ IsChoice(c, S)
  BY DisputesOfType, FirstIsChoice, FS_Subset
<1> HIDE DEF V, step, c
<1>3. PICK it \in [SUBSET S -> V] : IsFold(it, S, d, step, c)
  BY ONLY <1>1, <1>2, FoldExists, Zenon
<1>4. \A s \in SUBSET S : it[s] = IF s = {} THEN d ELSE setVote(it[s \ {c[s]}], c[s], f[c[s]])
  <2> SUFFICES ASSUME NEW s \in SUBSET S, s # {}
               PROVE  it[s] = setVote(it[s \ {c[s]}], c[s], f[c[s]])
    BY <1>3 DEF IsFold
  <2>1. it[s] = step[c[s]][it[s \ {c[s]}]]
    BY <1>3 DEF IsFold
  <2>2. c[s] \in S /\ it[s \ {c[s]}] \in V
    BY <1>2 DEF IsChoice
  <2> QED
    BY <2>1, <2>2 DEF step
<1> QED
  BY <1>4 DEF Votes, c

LEMMA VotesKeepInv ==
    ASSUME NEW P, IsFiniteSet(P), NEW S \in SUBSET P, NEW d, DisputeInv(d, P),
           NEW f, \A p \in S : f[p] \in BOOLEAN, NEW it, Votes(it, S, d, f)
    PROVE  DisputeInv(it[S], P) /\ it[S].ourVote = d.ourVote
<1> DEFINE Good == {U \in SUBSET S : DisputeInv(it[U], P) /\ it[U].ourVote = d.ourVote}
           c == First(S)
<1>1. ASSUME NEW U \in SUBSET S, \A W \in SUBSET U : W # U => W \in Good
      PROVE  U \in Good
  <2>1. CASE U = {}
    BY <2>1 DEF Votes
  <2>2. CASE U # {}
    <3>1. c[U] \in U
      BY <2>2, FirstIsChoice DEF IsChoice
    <3> DEFINE W == U \ {c[U]}
    <3>2. it[U] = setVote(it[W], c[U], f[c[U]])
      BY <2>2 DEF Votes
    <3>3. W \in Good
      BY <1>1, <3>1
    <3> HIDE DEF W, c
    <3>4. DisputeInv(it[W], P) /\ it[W].ourVote = d.ourVote /\ c[U] \in P /\ f[c[U]] \in BOOLEAN
      BY <3>1, <3>3
    <3>5. DisputeInv(setVote(it[W], c[U], f[c[U]]), P)
      BY <3>4, SetVoteInv
    <3> QED
      BY <3>2, <3>4, <3>5, SetVoteKeepsOurVote
  <2> QED
    BY <2>1, <2>2
<1> HIDE DEF Good
<1>2. IsFiniteSet(S)
  BY FS_Subset
<1>3. \A U \in SUBSET S : U \in Good
  BY <1>1, <1>2, SubsetInduction
<1> QED
  BY <1>3 DEF Good

\* The positions known by content vote on a new dispute.
LEMMA DisputeOnInv ==
    ASSUME NEW P, IsFiniteSet(P), NEW r, DOMAIN r.currPeerProposals \subseteq P, NEW tx
    PROVE  /\ DisputeInv(DisputeOn(r, tx), P)
           /\ DisputeOn(r, tx).ourVote = exists(r.txns, tx)
<1> DEFINE S == {p \in DOMAIN r.currPeerProposals :
                   r.currPeerProposals[p].txSet \in DOMAIN r.acquiredSets}
           d == NewDispute(exists(r.txns, tx))
           v(p) == exists(r.acquiredSets[r.currPeerProposals[p].txSet], tx)
           f == [p \in S |-> v(p)]
           c(s) == CHOOSE x \in s : TRUE
           I(it) == it = [s \in SUBSET S |-> IF s = {} THEN d
                                             ELSE setVote(it[s \ {c(s)}], c(s), v(c(s)))]
           sum == CHOOSE it : I(it)
<1>1. DisputeOn(r, tx) = sum[S]
  BY DEF DisputeOn, FoldSet, MapThenFoldSet
<1>2. \A p : v(p) \in BOOLEAN
  BY DEF exists
<1>3. \A it : Votes(it, S, d, f) <=> I(it)
  <2>1. \A s \in SUBSET S : First(S)[s] = c(s)
    BY FirstIsChoice
  <2>2. \A s \in SUBSET S : s # {} => c(s) \in S
    BY <2>1, FirstIsChoice DEF IsChoice
  <2> HIDE DEF c
  <2>3. \A s \in SUBSET S : s # {} => f[First(S)[s]] = v(c(s)) /\ First(S)[s] = c(s)
    BY <2>1, <2>2
  <2> HIDE DEF f, v, S, d
  <2> QED
    BY <2>3 DEF Votes
<1>4. S \in SUBSET P /\ \A p \in S : f[p] \in BOOLEAN
  BY <1>2
<1>5. DisputeInv(d, P) /\ d.ourVote = exists(r.txns, tx)
  <2>1. exists(r.txns, tx) \in BOOLEAN
    BY DEF exists
  <2> QED
    BY <2>1, NewDisputeInv DEF NewDispute
<1> HIDE DEF S, f, d
<1>6. PICK it : Votes(it, S, d, f)
  BY <1>4, <1>5, VotesExist
<1>7. I(sum)
  <2>1. I(it)
    BY <1>3, <1>6
  <2> QED
    BY <2>1, Zenon
<1>8. Votes(sum, S, d, f)
  BY <1>3, <1>7
<1> HIDE DEF sum
<1>9. DisputeInv(sum[S], P) /\ sum[S].ourVote = d.ourVote
  <2>1. IsFiniteSet(P) /\ DisputeInv(d, P)
    BY <1>5
  <2> QED
    BY ONLY <1>4, <1>8, <2>1, VotesKeepInv
<1> QED
  BY <1>1, <1>5, <1>9

\* The peers that propose a set vote on a dispute as the set says.
HeardOn(d, peers, set, tx) == FoldSet(LAMBDA p, e : setVote(e, p, exists(set, tx)), d, peers)

LEMMA HeardOnInv ==
    ASSUME NEW P, IsFiniteSet(P), NEW S \in SUBSET P, NEW d, DisputeInv(d, P), NEW set, NEW tx
    PROVE  /\ DisputeInv(HeardOn(d, S, set, tx), P)
           /\ HeardOn(d, S, set, tx).ourVote = d.ourVote
<1> DEFINE v == exists(set, tx)
           f == [p \in S |-> v]
           c(s) == CHOOSE x \in s : TRUE
           I(it) == it = [s \in SUBSET S |-> IF s = {} THEN d
                                             ELSE setVote(it[s \ {c(s)}], c(s), v)]
           sum == CHOOSE it : I(it)
<1>1. HeardOn(d, S, set, tx) = sum[S]
  BY DEF HeardOn, FoldSet, MapThenFoldSet
<1>2. v \in BOOLEAN
  BY DEF exists
<1>3. \A it : Votes(it, S, d, f) <=> I(it)
  <2>1. \A s \in SUBSET S : First(S)[s] = c(s)
    BY FirstIsChoice
  <2>2. \A s \in SUBSET S : s # {} => c(s) \in S
    BY <2>1, FirstIsChoice DEF IsChoice
  <2> HIDE DEF c
  <2>3. \A s \in SUBSET S : s # {} => f[First(S)[s]] = v /\ First(S)[s] = c(s)
    BY <2>1, <2>2
  <2> HIDE DEF f, v
  <2> QED
    BY <2>3 DEF Votes
<1>4. \A p \in S : f[p] \in BOOLEAN
  BY <1>2
<1> HIDE DEF f
<1>6. PICK it : Votes(it, S, d, f)
  BY <1>4, VotesExist
<1>7. I(sum)
  <2>1. I(it)
    BY <1>3, <1>6
  <2> QED
    BY <2>1, Zenon
<1>8. Votes(sum, S, d, f)
  BY <1>3, <1>7
<1> HIDE DEF sum
<1>9. DisputeInv(sum[S], P) /\ sum[S].ourVote = d.ourVote
  <2>1. IsFiniteSet(P) /\ DisputeInv(d, P) /\ S \in SUBSET P
    OBVIOUS
  <2> QED
    BY ONLY <1>4, <1>8, <2>1, VotesKeepInv
<1> QED
  BY <1>1, <1>9

\* unVote, whether the node has voted or not.
LEMMA UnVoteFacts ==
    ASSUME NEW P, IsFiniteSet(P), NEW d, DisputeInv(d, P), NEW p
    PROVE  /\ DisputeInv(unVote(d, p), P)
           /\ DOMAIN unVote(d, p).votes = DOMAIN d.votes \ {p}
           /\ unVote(d, p).ourVote = d.ourVote
<1>1. CASE p \in DOMAIN d.votes
  BY <1>1, UnVoteInv DEF unVote
<1>2. CASE p \notin DOMAIN d.votes
  BY <1>2 DEF unVote
<1> QED
  BY <1>1, <1>2

\* A dispute without its stale voters.
WithdrawnFrom(d, stale) == FoldSet(LAMBDA p, e : unVote(e, p), d, stale)

LEMMA WithdrawsExist ==
    ASSUME NEW P, IsFiniteSet(P), NEW S \in SUBSET P, NEW d, DisputeInv(d, P)
    PROVE  \E it : Withdraws(it, S, d)
<1> DEFINE V == DisputesOf(P)
           c == First(S)
           step == [p \in S |-> [e \in V |-> unVote(e, p)]]
<1>1. step \in [S -> [V -> V]]
  <2> SUFFICES ASSUME NEW p \in S, NEW e \in V PROVE unVote(e, p) \in V
    OBVIOUS
  <2>1. DisputeInv(e, P)
    BY DisputesOfType
  <2>2. DisputeInv(unVote(e, p), P)
    BY <2>1, UnVoteFacts
  <2> QED
    BY <2>2, DisputesOfType
<1>2. d \in V /\ IsFiniteSet(S) /\ IsChoice(c, S)
  BY DisputesOfType, FirstIsChoice, FS_Subset
<1> HIDE DEF V, step, c
<1>3. PICK it \in [SUBSET S -> V] : IsFold(it, S, d, step, c)
  BY ONLY <1>1, <1>2, FoldExists, Zenon
<1>4. \A s \in SUBSET S : it[s] = IF s = {} THEN d ELSE unVote(it[s \ {c[s]}], c[s])
  <2> SUFFICES ASSUME NEW s \in SUBSET S, s # {}
               PROVE  it[s] = unVote(it[s \ {c[s]}], c[s])
    BY <1>3 DEF IsFold
  <2>1. it[s] = step[c[s]][it[s \ {c[s]}]]
    BY <1>3 DEF IsFold
  <2>2. c[s] \in S /\ it[s \ {c[s]}] \in V
    BY <1>2 DEF IsChoice
  <2> QED
    BY <2>1, <2>2 DEF step
<1> QED
  BY <1>4 DEF Withdraws, c

LEMMA WithdrawsInv ==
    ASSUME NEW P, IsFiniteSet(P), NEW S \in SUBSET P, NEW d, DisputeInv(d, P),
           NEW it, Withdraws(it, S, d)
    PROVE  /\ DisputeInv(it[S], P)
           /\ it[S].ourVote = d.ourVote
           /\ \A p \in S : p \notin DOMAIN it[S].votes
<1> DEFINE Good == {U \in SUBSET S : /\ DisputeInv(it[U], P) /\ it[U].ourVote = d.ourVote
                                     /\ U \cap DOMAIN it[U].votes = {}}
           c == First(S)
<1>1. ASSUME NEW U \in SUBSET S, \A W \in SUBSET U : W # U => W \in Good
      PROVE  U \in Good
  <2>1. CASE U = {}
    BY <2>1 DEF Withdraws
  <2>2. CASE U # {}
    <3>1. c[U] \in U
      BY <2>2, FirstIsChoice DEF IsChoice
    <3> DEFINE W == U \ {c[U]}
    <3>2. it[U] = unVote(it[W], c[U])
      BY <2>2 DEF Withdraws
    <3>3. W \in Good
      BY <1>1, <3>1
    <3>a. U = W \union {c[U]}
      BY <3>1
    <3> HIDE DEF W, c
    <3>4. DisputeInv(it[W], P) /\ it[W].ourVote = d.ourVote /\ W \cap DOMAIN it[W].votes = {}
      BY <3>3
    <3>5. /\ DisputeInv(unVote(it[W], c[U]), P)
          /\ DOMAIN unVote(it[W], c[U]).votes = DOMAIN it[W].votes \ {c[U]}
          /\ unVote(it[W], c[U]).ourVote = it[W].ourVote
      BY <3>4, UnVoteFacts
    <3>6. U \cap DOMAIN it[U].votes = {}
      BY <3>2, <3>4, <3>5, <3>a
    <3> QED
      BY <3>2, <3>4, <3>5, <3>6
  <2> QED
    BY <2>1, <2>2
<1> HIDE DEF Good
<1>2. IsFiniteSet(S)
  BY FS_Subset
<1>3. \A U \in SUBSET S : U \in Good
  BY <1>1, <1>2, SubsetInduction
<1> QED
  BY <1>3 DEF Good

LEMMA WithdrawnFromInv ==
    ASSUME NEW P, IsFiniteSet(P), NEW S \in SUBSET P, NEW d, DisputeInv(d, P)
    PROVE  DisputeInv(WithdrawnFrom(d, S), P \ S) /\ WithdrawnFrom(d, S).ourVote = d.ourVote
<1> DEFINE c(s) == CHOOSE x \in s : TRUE
           I(it) == it = [s \in SUBSET S |-> IF s = {} THEN d
                                             ELSE unVote(it[s \ {c(s)}], c(s))]
           sum == CHOOSE it : I(it)
<1>1. WithdrawnFrom(d, S) = sum[S]
  BY DEF WithdrawnFrom, FoldSet, MapThenFoldSet
<1>3. \A it : Withdraws(it, S, d) <=> I(it)
  <2>1. \A s \in SUBSET S : First(S)[s] = c(s)
    BY FirstIsChoice
  <2> HIDE DEF c
  <2> QED
    BY <2>1 DEF Withdraws
<1>6. PICK it : Withdraws(it, S, d)
  BY WithdrawsExist
<1>7. I(sum)
  <2>1. I(it)
    BY <1>3, <1>6
  <2> QED
    BY <2>1, Zenon
<1>8. Withdraws(sum, S, d)
  BY <1>3, <1>7
<1> HIDE DEF sum
<1>9. /\ DisputeInv(sum[S], P)
      /\ sum[S].ourVote = d.ourVote
      /\ \A p \in S : p \notin DOMAIN sum[S].votes
  <2>1. IsFiniteSet(P) /\ DisputeInv(d, P) /\ S \in SUBSET P
    OBVIOUS
  <2> QED
    BY ONLY <1>8, <2>1, WithdrawsInv
<1> QED
  BY <1>1, <1>9 DEF DisputeInv, IsDispute

\* it inserts and erases transactions of D one after the other, as decided.
Decides(it, D, base, decided) ==
    it = [s \in SUBSET D |-> IF s = {} THEN base
                             ELSE IF decided[First(D)[s]].ourVote
                                  THEN insertTx(it[s \ {First(D)[s]}], First(D)[s])
                                  ELSE eraseTx(it[s \ {First(D)[s]}], First(D)[s])]

LEMMA DecidesExist ==
    ASSUME NEW D \in SUBSET Tx, NEW base \in SUBSET Tx, NEW decided
    PROVE  \E it : Decides(it, D, base, decided)
<1> DEFINE V == SUBSET Tx
           c == First(D)
           step == [t \in D |-> [set \in V |-> IF decided[t].ourVote THEN insertTx(set, t)
                                               ELSE eraseTx(set, t)]]
<1>1. step \in [D -> [V -> V]]
  BY DEF insertTx, eraseTx
<1>2. base \in V /\ IsFiniteSet(D) /\ IsChoice(c, D)
  BY FirstIsChoice, FS_Subset, TxAssumption
<1> HIDE DEF V, step, c
<1>3. PICK it \in [SUBSET D -> V] : IsFold(it, D, base, step, c)
  BY ONLY <1>1, <1>2, FoldExists, Zenon
<1>4. \A s \in SUBSET D : it[s] = IF s = {} THEN base
                                  ELSE IF decided[c[s]].ourVote
                                       THEN insertTx(it[s \ {c[s]}], c[s])
                                       ELSE eraseTx(it[s \ {c[s]}], c[s])
  <2> SUFFICES ASSUME NEW s \in SUBSET D, s # {}
               PROVE  it[s] = IF decided[c[s]].ourVote THEN insertTx(it[s \ {c[s]}], c[s])
                              ELSE eraseTx(it[s \ {c[s]}], c[s])
    BY <1>3 DEF IsFold
  <2>1. it[s] = step[c[s]][it[s \ {c[s]}]]
    BY <1>3 DEF IsFold
  <2>2. c[s] \in D /\ it[s \ {c[s]}] \in V
    BY <1>2 DEF IsChoice
  <2> QED
    BY <2>1, <2>2 DEF step
<1> QED
  BY <1>4 DEF Decides, c

\* With no vote for any of them, all of D, and what shares a slot with it, is gone.
LEMMA DecidesRemoves ==
    ASSUME NEW D \in SUBSET Tx, NEW base \in SUBSET Tx, NEW decided,
           \A t \in D : ~ decided[t].ourVote, NEW it, Decides(it, D, base, decided)
    PROVE  it[D] = {t \in base : \A u \in D : Slot[t] # Slot[u]}
<1> DEFINE Good == {U \in SUBSET D : it[U] = {t \in base : \A u \in U : Slot[t] # Slot[u]}}
           c == First(D)
<1>1. ASSUME NEW U \in SUBSET D, \A W \in SUBSET U : W # U => W \in Good
      PROVE  U \in Good
  <2>1. CASE U = {}
    BY <2>1 DEF Decides
  <2>2. CASE U # {}
    <3>1. c[U] \in U
      BY <2>2, FirstIsChoice DEF IsChoice
    <3> DEFINE W == U \ {c[U]}
    <3>2. it[U] = eraseTx(it[W], c[U])
      BY <2>2, <3>1 DEF Decides
    <3>3. W \in Good
      BY <1>1, <3>1
    <3>4. U = W \union {c[U]}
      BY <3>1
    <3> HIDE DEF W, c
    <3> QED
      BY <3>2, <3>3, <3>4 DEF eraseTx
  <2> QED
    BY <2>1, <2>2
<1> HIDE DEF Good
<1>2. IsFiniteSet(D)
  BY FS_Subset, TxAssumption
<1>3. \A U \in SUBSET D : U \in Good
  BY <1>1, <1>2, SubsetInduction
<1> QED
  BY <1>3 DEF Good

LEMMA DecidedSetRemoves ==
    ASSUME NEW r, r.txns \in SUBSET Tx, NEW decided, NEW D \in SUBSET Tx,
           D = {t \in DOMAIN decided : decided[t].ourVote # r.disputes[t].ourVote},
           \A t \in D : ~ decided[t].ourVote
    PROVE  DecidedSet(r, decided) = {t \in r.txns : \A u \in D : Slot[t] # Slot[u]}
<1> DEFINE base == r.txns
           c(s) == CHOOSE x \in s : TRUE
           I(it) == it = [s \in SUBSET D |-> IF s = {} THEN base
                            ELSE IF decided[c(s)].ourVote THEN insertTx(it[s \ {c(s)}], c(s))
                                 ELSE eraseTx(it[s \ {c(s)}], c(s))]
           sum == CHOOSE it : I(it)
<1>1. DecidedSet(r, decided) = sum[D]
  BY DEF DecidedSet, FoldSet, MapThenFoldSet
<1>3. \A it : Decides(it, D, base, decided) <=> I(it)
  <2>1. \A s \in SUBSET D : First(D)[s] = c(s)
    BY FirstIsChoice
  <2> HIDE DEF c
  <2> QED
    BY <2>1, ZenonT(60) DEF Decides
<1>5. base \in SUBSET Tx /\ D \in SUBSET Tx
  OBVIOUS
<1>6. PICK it : Decides(it, D, base, decided)
  BY ONLY <1>5, DecidesExist
<1> HIDE DEF I
<1>7. I(sum)
  <2>1. I(it)
    BY ONLY <1>3, <1>6
  <2> QED
    BY ONLY <2>1, Zenon
<1>8. Decides(sum, D, base, decided)
  BY ONLY <1>3, <1>7
<1> HIDE DEF sum, base
<1>9. sum[D] = {t \in base : \A u \in D : Slot[t] # Slot[u]}
  <2>1. \A t \in D : ~ decided[t].ourVote
    OBVIOUS
  <2> QED
    BY ONLY <1>5, <1>8, <2>1, DecidesRemoves
<1> QED
  BY <1>1, <1>9 DEF base

-----------------------------------------------------------------------------
(* The state of a round. *)

\* The votes on the disputes are those of nodes with a position.
RoundInv(r) ==
    /\ r = [phase |-> r.phase, prevBlockId |-> r.prevBlockId, txns |-> r.txns,
            seq |-> r.seq, compares |-> r.compares, disputes |-> r.disputes,
            currPeerProposals |-> r.currPeerProposals, acquiredSets |-> r.acquiredSets]
    /\ IsRound(r)
    /\ \A p \in DOMAIN r.currPeerProposals : r.currPeerProposals[p].txSet \in TxSet
    /\ r.disputes = [t \in DOMAIN r.disputes |-> r.disputes[t]]
    /\ \A t \in DOMAIN r.disputes : DisputeInv(r.disputes[t], DOMAIN r.currPeerProposals)

\* Our vote on a dispute says whether the transaction is in our set.
VotesAgree(r) == \A t \in DOMAIN r.disputes : r.disputes[t].ourVote = exists(r.txns, t)

LEMMA TxSetFacts ==
    /\ {} \in TxSet
    /\ \A S \in TxSet : S \subseteq Tx
    /\ \A S \in TxSet : \A U \in SUBSET S : U \in TxSet
    /\ \A pool \in SUBSET Tx : getCurrentTransactionSet(pool) \in TxSet
<1>1. {} \in TxSet
  BY TxSetAssumption DEF IsTransactionSet
<1>2. ASSUME NEW S \in TxSet, NEW U \in SUBSET S PROVE U \in TxSet /\ S \subseteq Tx
  BY <1>2, TxSetAssumption DEF IsTransactionSet
<1>3. ASSUME NEW pool \in SUBSET Tx PROVE getCurrentTransactionSet(pool) \in TxSet
  <2> DEFINE S == getCurrentTransactionSet(pool)
  <2>1. S \in SUBSET Tx
    BY DEF getCurrentTransactionSet
  <2>2. \A t, u \in S : Slot[t] = Slot[u] => t = u
    <3> SUFFICES ASSUME NEW t \in S, NEW u \in S, Slot[t] = Slot[u] PROVE t = u
      OBVIOUS
    <3>1. t \in Nat /\ u \in Nat
      BY <2>1, TxAssumption
    <3>2. t <= u /\ u <= t
      BY DEF getCurrentTransactionSet
    <3> QED
      BY <3>1, <3>2
  <2> QED
    BY <2>1, <2>2, TxSetAssumption DEF IsTransactionSet
<1> QED
  BY <1>1, <1>2, <1>3

LEMMA NewRoundInv ==
    ASSUME NEW prev \in BlockId
    PROVE  RoundInv(NewRound(prev)) /\ VotesAgree(NewRound(prev))
BY TxSetFacts DEF RoundInv, VotesAgree, IsRound, NewRound

LEMMA PeersFinite ==
    ASSUME NEW r, RoundInv(r)
    PROVE  IsFiniteSet(DOMAIN r.currPeerProposals)
BY ValidatorAssumption, FS_Subset DEF RoundInv, IsRound

\* createDisputes and updateDisputes: only disputes and compares change.
OnlyDisputes(r, s) ==
    s = [phase |-> r.phase, prevBlockId |-> r.prevBlockId, txns |-> r.txns,
         seq |-> r.seq, compares |-> s.compares, disputes |-> s.disputes,
         currPeerProposals |-> r.currPeerProposals, acquiredSets |-> r.acquiredSets]

LEMMA CreateDisputesInv ==
    ASSUME NEW r, RoundInv(r), NEW id \in TxSet, NEW diff \in SUBSET Tx
    PROVE  /\ RoundInv(createDisputes(r, id, diff))
           /\ OnlyDisputes(r, createDisputes(r, id, diff))
           /\ VotesAgree(r) => VotesAgree(createDisputes(r, id, diff))
<1> DEFINE P == DOMAIN r.currPeerProposals
           s == createDisputes(r, id, diff)
           grown == [t \in DOMAIN r.disputes \union diff |->
                       IF t \in DOMAIN r.disputes THEN r.disputes[t] ELSE DisputeOn(r, t)]
           disputes == IF id = r.txns THEN r.disputes ELSE grown
           compares == r.compares \union {id}
<1>1. CASE id \in r.compares
  <2>1. s = r
    BY <1>1 DEF createDisputes
  <2> QED
    BY <2>1 DEF RoundInv, OnlyDisputes
<1>2. CASE id \notin r.compares
  <2>1. s = [phase |-> r.phase, prevBlockId |-> r.prevBlockId, txns |-> r.txns,
             seq |-> r.seq, compares |-> compares, disputes |-> disputes,
             currPeerProposals |-> r.currPeerProposals, acquiredSets |-> r.acquiredSets]
    <3>1. s = [r EXCEPT !.compares = compares, !.disputes = disputes]
      BY <1>2, Zenon DEF createDisputes
    <3> HIDE DEF s, compares, disputes
    <3> QED
      BY <3>1 DEF RoundInv
  <2>2. \A t \in DOMAIN grown :
           DisputeInv(grown[t], P) /\ (VotesAgree(r) => grown[t].ourVote = exists(r.txns, t))
    <3> SUFFICES ASSUME NEW t \in DOMAIN grown
                 PROVE  /\ DisputeInv(grown[t], P)
                        /\ VotesAgree(r) => grown[t].ourVote = exists(r.txns, t)
      OBVIOUS
    <3>1. CASE t \in DOMAIN r.disputes
      <4>1. grown[t] = r.disputes[t]
        BY <3>1
      <4> QED
        BY <3>1, <4>1 DEF RoundInv, VotesAgree
    <3>2. CASE t \notin DOMAIN r.disputes
      <4>1. grown[t] = DisputeOn(r, t)
        BY <3>2
      <4>2. /\ DisputeInv(DisputeOn(r, t), P)
            /\ DisputeOn(r, t).ourVote = exists(r.txns, t)
        BY PeersFinite, DisputeOnInv
      <4> QED
        BY <4>1, <4>2
    <3> QED
      BY <3>1, <3>2
  <2>3. DOMAIN grown \subseteq Tx /\ DOMAIN r.disputes \subseteq Tx
    BY DEF RoundInv, IsRound
  <2>4. grown = [t \in DOMAIN grown |-> grown[t]]
    OBVIOUS
  <2> HIDE DEF grown
  <2>5. /\ DOMAIN disputes \subseteq Tx
        /\ disputes = [t \in DOMAIN disputes |-> disputes[t]]
        /\ \A t \in DOMAIN disputes :
             DisputeInv(disputes[t], P) /\ (VotesAgree(r) => disputes[t].ourVote = exists(r.txns, t))
    <3>1. CASE id = r.txns
      BY <2>3, <3>1 DEF RoundInv, VotesAgree
    <3>2. CASE id # r.txns
      BY <2>2, <2>3, <2>4, <3>2
    <3> QED
      BY <3>1, <3>2
  <2>6. compares \subseteq TxSet
    BY DEF RoundInv, IsRound
  <2> HIDE DEF s, disputes, compares
  <2>7. /\ s.phase = r.phase /\ s.prevBlockId = r.prevBlockId /\ s.txns = r.txns
        /\ s.seq = r.seq /\ s.compares = compares /\ s.disputes = disputes
        /\ s.currPeerProposals = r.currPeerProposals /\ s.acquiredSets = r.acquiredSets
    BY <2>1
  <2>8. OnlyDisputes(r, s)
    BY <2>1, <2>7 DEF OnlyDisputes
  <2>9. IsRound(s)
    BY <2>5, <2>6, <2>7 DEF RoundInv, IsRound
  <2>10. RoundInv(s)
    BY <2>5, <2>7, <2>8, <2>9 DEF RoundInv, OnlyDisputes
  <2>11. VotesAgree(r) => VotesAgree(s)
    BY <2>5, <2>7 DEF VotesAgree
  <2> QED
    BY <2>8, <2>10, <2>11 DEF s
<1> QED
  BY <1>1, <1>2

LEMMA HearSetInv ==
    ASSUME NEW r, RoundInv(r), NEW id \in TxSet, NEW set, NEW diff \in SUBSET Tx
    PROVE  /\ RoundInv(HearSet(r, id, set, diff))
           /\ OnlyDisputes(r, HearSet(r, id, set, diff))
           /\ VotesAgree(r) => VotesAgree(HearSet(r, id, set, diff))
<1> DEFINE P == DOMAIN r.currPeerProposals
           nodes == PeersWith(r, id)
           c == createDisputes(r, id, diff)
           heard == [t \in DOMAIN c.disputes |-> HeardOn(c.disputes[t], nodes, set, t)]
           s == HearSet(r, id, set, diff)
<1>1. CASE nodes = {}
  BY <1>1 DEF HearSet, RoundInv, OnlyDisputes
<1>2. CASE nodes # {}
  <2>1. /\ RoundInv(c) /\ OnlyDisputes(r, c)
        /\ VotesAgree(r) => VotesAgree(c)
    BY CreateDisputesInv
  <2>2. s = [c EXCEPT !.disputes = heard]
    BY <1>2, Zenon DEF HearSet, updateDisputes, HeardOn
  <2>3. c.currPeerProposals = r.currPeerProposals /\ c.txns = r.txns
    BY <2>1 DEF OnlyDisputes
  <2>4. IsFiniteSet(P) /\ nodes \in SUBSET P
    BY PeersFinite DEF PeersWith
  <2>5. \A t \in DOMAIN c.disputes :
          /\ DisputeInv(HeardOn(c.disputes[t], nodes, set, t), P)
          /\ HeardOn(c.disputes[t], nodes, set, t).ourVote = c.disputes[t].ourVote
    <3> SUFFICES ASSUME NEW t \in DOMAIN c.disputes
                 PROVE  /\ DisputeInv(HeardOn(c.disputes[t], nodes, set, t), P)
                        /\ HeardOn(c.disputes[t], nodes, set, t).ourVote = c.disputes[t].ourVote
      OBVIOUS
    <3>1. DisputeInv(c.disputes[t], P)
      BY <2>1, <2>3 DEF RoundInv
    <3> HIDE DEF c, nodes, P
    <3> QED
      BY <2>4, <3>1, HeardOnInv
  <2>6. /\ DOMAIN heard = DOMAIN c.disputes
        /\ heard = [t \in DOMAIN heard |-> heard[t]]
        /\ \A t \in DOMAIN heard : /\ DisputeInv(heard[t], P)
                                   /\ heard[t].ourVote = c.disputes[t].ourVote
    BY <2>5
  <2> HIDE DEF c, heard, s
  <2>7. s = [phase |-> c.phase, prevBlockId |-> c.prevBlockId, txns |-> c.txns,
             seq |-> c.seq, compares |-> c.compares, disputes |-> heard,
             currPeerProposals |-> c.currPeerProposals, acquiredSets |-> c.acquiredSets]
    BY <2>1, <2>2 DEF RoundInv
  <2>8. RoundInv(s)
    BY <2>1, <2>3, <2>6, <2>7 DEF RoundInv, IsRound
  <2>9. OnlyDisputes(r, s)
    BY <2>1, <2>7 DEF OnlyDisputes
  <2>10. VotesAgree(c) => VotesAgree(s)
    BY <2>6, <2>7 DEF VotesAgree
  <2> QED
    BY <2>1, <2>8, <2>9, <2>10 DEF s
<1> QED
  BY <1>1, <1>2

\* acquiredSets_ keeps its type when a set is added.
LEMMA EmplaceType ==
    ASSUME NEW sets, NEW id \in TxSet, NEW set \in TxSet,
           DOMAIN sets \subseteq TxSet, \A i \in DOMAIN sets : sets[i] \in TxSet
    PROVE  /\ DOMAIN emplace(sets, id, set) = DOMAIN sets \union {id}
           /\ \A i \in DOMAIN emplace(sets, id, set) : emplace(sets, id, set)[i] \in TxSet
BY DEF emplace, Put

LEMMA CloseBlockInv ==
    ASSUME NEW r, RoundInv(r), NEW pool \in SUBSET Tx,
           NEW diff, \A id \in ProposedSets(r) : diff[id] \in SUBSET Tx
    PROVE  /\ RoundInv(closeBlock(r, pool, diff))
           /\ VotesAgree(closeBlock(r, pool, diff))
           /\ closeBlock(r, pool, diff).phase = "ESTABLISH"
           /\ closeBlock(r, pool, diff).prevBlockId = r.prevBlockId
<1> DEFINE txns == getCurrentTransactionSet(pool)
           acquired == emplace(r.acquiredSets, txns, txns)
           closed == [r EXCEPT !.phase = "ESTABLISH", !.txns = txns,
                               !.acquiredSets = emplace(@, txns, txns)]
           sets == ProposedSets(closed)
           T == UNION {diff[id] : id \in sets \ {txns}}
           disputes == [t \in T |-> DisputeOn(closed, t)]
           s == closeBlock(r, pool, diff)
           P == DOMAIN r.currPeerProposals
<1>1. txns \in TxSet
  BY TxSetFacts
<1>3. s = [closed EXCEPT !.compares = sets, !.disputes = disputes]
  BY Zenon DEF closeBlock
<1>a. closed = [r EXCEPT !.phase = "ESTABLISH", !.txns = txns, !.acquiredSets = acquired]
  BY Zenon
<1>b. /\ DOMAIN acquired = DOMAIN r.acquiredSets \union {txns}
      /\ DOMAIN acquired \subseteq TxSet
      /\ \A id \in DOMAIN acquired : acquired[id] \in TxSet
  <2>1. /\ DOMAIN r.acquiredSets \subseteq TxSet
        /\ \A id \in DOMAIN r.acquiredSets : r.acquiredSets[id] \in TxSet
    BY DEF RoundInv, IsRound
  <2> HIDE DEF txns
  <2>2. /\ DOMAIN emplace(r.acquiredSets, txns, txns) = DOMAIN r.acquiredSets \union {txns}
        /\ \A id \in DOMAIN emplace(r.acquiredSets, txns, txns) :
             emplace(r.acquiredSets, txns, txns)[id] \in TxSet
    BY <1>1, <2>1, EmplaceType, Zenon
  <2> HIDE DEF acquired
  <2>3. /\ DOMAIN acquired = DOMAIN r.acquiredSets \union {txns}
        /\ \A id \in DOMAIN acquired : acquired[id] \in TxSet
    BY <2>2, Zenon DEF acquired
  <2> QED
    BY <1>1, <2>1, <2>3
<1> HIDE DEF txns, s, T, sets, closed, acquired
<1>6. closed = [phase |-> "ESTABLISH", prevBlockId |-> r.prevBlockId, txns |-> txns,
                seq |-> r.seq, compares |-> r.compares, disputes |-> r.disputes,
                currPeerProposals |-> r.currPeerProposals, acquiredSets |-> acquired]
  BY <1>a DEF RoundInv
<1>7. /\ closed.currPeerProposals = r.currPeerProposals /\ closed.txns = txns
  BY <1>6
<1>2. sets \subseteq TxSet /\ T \subseteq Tx
  <2>1. closed.acquiredSets = acquired
    BY <1>6
  <2>2. sets \ {txns} \subseteq ProposedSets(r) /\ sets \subseteq TxSet
    BY <1>7, <1>b, <2>1 DEF sets, ProposedSets
  <2> QED
    BY <2>2 DEF T
<1>8. \A t \in T : DisputeInv(DisputeOn(closed, t), P) /\ DisputeOn(closed, t).ourVote = exists(txns, t)
  <2>1. IsFiniteSet(P) /\ DOMAIN closed.currPeerProposals \subseteq P
    BY <1>7, PeersFinite
  <2> QED
    BY <2>1, <1>7, DisputeOnInv, ZenonT(60)
<1>9. /\ DOMAIN disputes = T
      /\ disputes = [t \in DOMAIN disputes |-> disputes[t]]
      /\ \A t \in T : DisputeInv(disputes[t], P) /\ disputes[t].ourVote = exists(txns, t)
  BY <1>8
<1> HIDE DEF disputes
<1>11. s = [phase |-> "ESTABLISH", prevBlockId |-> r.prevBlockId, txns |-> txns,
            seq |-> r.seq, compares |-> sets, disputes |-> disputes,
            currPeerProposals |-> r.currPeerProposals, acquiredSets |-> acquired]
  BY <1>3, <1>6
<1>12. /\ s.phase = "ESTABLISH" /\ s.prevBlockId = r.prevBlockId /\ s.txns = txns
       /\ s.seq = r.seq /\ s.compares = sets /\ s.disputes = disputes
       /\ s.currPeerProposals = r.currPeerProposals /\ s.acquiredSets = acquired
  BY <1>11
<1>13. IsRound(s)
  BY <1>1, <1>2, <1>9, <1>b, <1>12 DEF RoundInv, IsRound
<1>14. RoundInv(s)
  BY <1>9, <1>11, <1>12, <1>13 DEF RoundInv
<1>15. VotesAgree(s)
  BY <1>9, <1>12 DEF VotesAgree
<1> QED
  BY <1>12, <1>14, <1>15 DEF s

\* Votes of nodes with a position stay such when more nodes have one.
LEMMA DisputeInvMonotone ==
    ASSUME NEW P, NEW Q, P \subseteq Q, NEW d, DisputeInv(d, P)
    PROVE  DisputeInv(d, Q)
BY DEF DisputeInv, IsDispute

LEMMA GotTxSetInv ==
    ASSUME NEW r, RoundInv(r), NEW p \in Validator, NEW prop, prop.txSet \in TxSet,
           NEW set \in TxSet, NEW diff \in SUBSET Tx
    PROVE  /\ RoundInv(gotTxSet(r, p, prop, set, diff))
           /\ VotesAgree(r) => VotesAgree(gotTxSet(r, p, prop, set, diff))
           /\ gotTxSet(r, p, prop, set, diff).phase = r.phase
           /\ gotTxSet(r, p, prop, set, diff).prevBlockId = r.prevBlockId
           /\ gotTxSet(r, p, prop, set, diff).txns = r.txns
<1> DEFINE f == Put(r.currPeerProposals, p, [txSet |-> prop.txSet, seq |-> prop.seq])
           heard == [r EXCEPT !.currPeerProposals = f]
           sets == emplace(r.acquiredSets, prop.txSet, set)
           acquired == [heard EXCEPT !.acquiredSets = emplace(@, prop.txSet, set)]
           s == HearSet(acquired, prop.txSet, set, diff)
           g == gotTxSet(r, p, prop, set, diff)
<1>1. /\ DOMAIN f = DOMAIN r.currPeerProposals \union {p}
      /\ \A q \in DOMAIN f : f[q].txSet \in TxSet
  BY DEF Put, RoundInv
<1>2. g \in {r, heard, acquired, s}
  BY DEF gotTxSet
<1> HIDE DEF f, g
<1>a. acquired = [heard EXCEPT !.acquiredSets = emplace(heard.acquiredSets, prop.txSet, set)]
  BY Zenon
<1>b. DOMAIN sets \subseteq TxSet /\ \A id \in DOMAIN sets : sets[id] \in TxSet
  <2>1. /\ DOMAIN r.acquiredSets \subseteq TxSet
        /\ \A id \in DOMAIN r.acquiredSets : r.acquiredSets[id] \in TxSet
    BY DEF RoundInv, IsRound
  <2> HIDE DEF sets
  <2>2. /\ DOMAIN sets = DOMAIN r.acquiredSets \union {prop.txSet}
        /\ \A id \in DOMAIN sets : sets[id] \in TxSet
    BY <2>1, EmplaceType, Zenon DEF sets
  <2> QED
    BY <2>1, <2>2
<1>3. heard = [phase |-> r.phase, prevBlockId |-> r.prevBlockId, txns |-> r.txns,
               seq |-> r.seq, compares |-> r.compares, disputes |-> r.disputes,
               currPeerProposals |-> f, acquiredSets |-> r.acquiredSets]
  BY DEF RoundInv
<1>4. acquired = [phase |-> r.phase, prevBlockId |-> r.prevBlockId, txns |-> r.txns,
                  seq |-> r.seq, compares |-> r.compares, disputes |-> r.disputes,
                  currPeerProposals |-> f, acquiredSets |-> sets]
  <2>1. heard.acquiredSets = r.acquiredSets
    BY <1>3
  <2>2. acquired = [heard EXCEPT !.acquiredSets = sets]
    BY <1>a, <2>1, Zenon
  <2> HIDE DEF acquired, sets, heard
  <2> QED
    BY <1>3, <2>2
<1> HIDE DEF heard, acquired, sets
<1>5. \A t \in DOMAIN r.disputes : DisputeInv(r.disputes[t], DOMAIN f)
  BY <1>1, DisputeInvMonotone DEF RoundInv
<1>6. RoundInv(heard)
  BY <1>1, <1>3, <1>5 DEF RoundInv, IsRound
<1>7. RoundInv(acquired)
  BY <1>1, <1>4, <1>5, <1>b DEF RoundInv, IsRound
<1>8. /\ RoundInv(s) /\ OnlyDisputes(acquired, s)
      /\ VotesAgree(acquired) => VotesAgree(s)
  BY <1>7, HearSetInv
<1>9. VotesAgree(r) => VotesAgree(heard) /\ VotesAgree(acquired)
  BY <1>3, <1>4 DEF VotesAgree
<1>10. /\ heard.phase = r.phase /\ heard.prevBlockId = r.prevBlockId /\ heard.txns = r.txns
       /\ acquired.phase = r.phase /\ acquired.prevBlockId = r.prevBlockId
       /\ acquired.txns = r.txns
  BY <1>3, <1>4
<1>11. s.phase = r.phase /\ s.prevBlockId = r.prevBlockId /\ s.txns = r.txns
  BY <1>8, <1>10 DEF OnlyDisputes
<1> HIDE DEF s
<1>12. /\ RoundInv(g)
       /\ VotesAgree(r) => VotesAgree(g)
       /\ g.phase = r.phase /\ g.prevBlockId = r.prevBlockId /\ g.txns = r.txns
  BY <1>2, <1>6, <1>7, <1>8, <1>9, <1>10, <1>11
<1> QED
  BY <1>12 DEF g

\* DropStale leaves the round without the stale positions, and their votes.
LEMMA DropStaleInv ==
    ASSUME NEW r, RoundInv(r), NEW stale \in SUBSET DOMAIN r.currPeerProposals, NEW staleSets
    PROVE  LET s == DropStale(r, stale, staleSets)
           IN  /\ RoundInv(s)
               /\ s.phase = r.phase /\ s.prevBlockId = r.prevBlockId
               /\ s.txns = r.txns /\ s.seq = r.seq
               /\ DOMAIN s.disputes = DOMAIN r.disputes
               /\ \A t \in DOMAIN r.disputes : s.disputes[t].ourVote = r.disputes[t].ourVote
<1> DEFINE P == DOMAIN r.currPeerProposals
           f == [p \in P \ stale |-> r.currPeerProposals[p]]
           disputes == [t \in DOMAIN r.disputes |-> WithdrawnFrom(r.disputes[t], stale)]
           acquired == [id \in DOMAIN r.acquiredSets \ staleSets |-> r.acquiredSets[id]]
           s == DropStale(r, stale, staleSets)
<1>1. s = [r EXCEPT !.currPeerProposals = f, !.acquiredSets = acquired, !.disputes = disputes]
  BY Zenon DEF DropStale, WithdrawnFrom
<1>2. /\ DOMAIN f = P \ stale
      /\ \A p \in DOMAIN f : f[p].txSet \in TxSet
  BY DEF RoundInv
<1>3. \A t \in DOMAIN r.disputes : /\ DisputeInv(WithdrawnFrom(r.disputes[t], stale), P \ stale)
                                   /\ WithdrawnFrom(r.disputes[t], stale).ourVote = r.disputes[t].ourVote
  <2> SUFFICES ASSUME NEW t \in DOMAIN r.disputes
               PROVE  /\ DisputeInv(WithdrawnFrom(r.disputes[t], stale), P \ stale)
                      /\ WithdrawnFrom(r.disputes[t], stale).ourVote = r.disputes[t].ourVote
    OBVIOUS
  <2>1. IsFiniteSet(P) /\ DisputeInv(r.disputes[t], P) /\ stale \in SUBSET P
    BY PeersFinite DEF RoundInv
  <2> HIDE DEF P
  <2> QED
    BY ONLY <2>1, WithdrawnFromInv
<1>4. /\ DOMAIN disputes = DOMAIN r.disputes
      /\ disputes = [t \in DOMAIN disputes |-> disputes[t]]
      /\ \A t \in DOMAIN disputes : /\ DisputeInv(disputes[t], DOMAIN f)
                                    /\ disputes[t].ourVote = r.disputes[t].ourVote
  BY <1>2, <1>3
<1>5. DOMAIN acquired \subseteq TxSet /\ \A id \in DOMAIN acquired : acquired[id] \in TxSet
  BY DEF RoundInv, IsRound
<1> HIDE DEF f, disputes, acquired, s
<1>6. s = [phase |-> r.phase, prevBlockId |-> r.prevBlockId, txns |-> r.txns,
           seq |-> r.seq, compares |-> r.compares, disputes |-> disputes,
           currPeerProposals |-> f, acquiredSets |-> acquired]
  BY <1>1 DEF RoundInv
<1>7. RoundInv(s)
  BY <1>2, <1>4, <1>5, <1>6 DEF RoundInv, IsRound
<1> QED
  BY <1>4, <1>6, <1>7 DEF s

LEMMA DecideDisputesInv ==
    ASSUME NEW r, RoundInv(r), NEW converge \in Nat
    PROVE  LET D == DecideDisputes(r, converge)
           IN  /\ DOMAIN D = DOMAIN r.disputes
               /\ D = [t \in DOMAIN D |-> D[t]]
               /\ \A t \in DOMAIN D :
                    /\ DisputeInv(D[t], DOMAIN r.currPeerProposals)
                    /\ D[t].ourVote \in BOOLEAN /\ r.disputes[t].ourVote \in BOOLEAN
                    /\ D[t].ourVote => r.disputes[t].ourVote
<1> DEFINE D == DecideDisputes(r, converge)
           P == DOMAIN r.currPeerProposals
<1>1. /\ DOMAIN D = DOMAIN r.disputes
      /\ D = [t \in DOMAIN D |-> D[t]]
      /\ \A t \in DOMAIN D : D[t] = updateVote(r.disputes[t], converge)
  BY DEF DecideDisputes
<1> HIDE DEF D
<1>2. ASSUME NEW t \in DOMAIN D
      PROVE  /\ DisputeInv(D[t], P)
             /\ D[t].ourVote \in BOOLEAN /\ r.disputes[t].ourVote \in BOOLEAN
             /\ D[t].ourVote => r.disputes[t].ourVote
  <2>1. DisputeInv(r.disputes[t], P) /\ D[t] = updateVote(r.disputes[t], converge)
    BY <1>1, <1>2 DEF RoundInv
  <2>2. DisputeInv(D[t], P)
    BY <2>1, UpdateVoteInv
  <2>3. IsDispute(r.disputes[t], P)
    BY <2>1 DEF DisputeInv
  <2>4. newVote(r.disputes[t], converge) => r.disputes[t].ourVote
    BY <2>3, UpdateVoteValue
  <2>5. D[t].ourVote = newVote(r.disputes[t], converge)
    BY <2>1, <2>3 DEF updateVote, IsDispute
  <2> QED
    BY <2>2, <2>3, <2>4, <2>5 DEF newVote, IsDispute
<1> QED
  BY <1>1, <1>2 DEF D

\* No two transactions are taken for the same one.
SlotsDiffer == \A t, u \in Tx : Slot[t] = Slot[u] => t = u

\* A tick of the establish phase: what the votes decide is to remove
\* transactions, whichever positions and sets went stale.
LEMMA UpdateProposalsInv ==
    ASSUME NEW r, RoundInv(r), NEW stale \in SUBSET DOMAIN r.currPeerProposals,
           NEW staleSets, NEW converge \in Nat
    PROVE  LET u == updateProposals(r, stale, staleSets, converge)
           IN  /\ RoundInv(u)
               /\ u.phase = r.phase /\ u.prevBlockId = r.prevBlockId
               /\ u.txns \subseteq r.txns
               /\ SlotsDiffer /\ VotesAgree(r) => VotesAgree(u)
<1> DEFINE fresh == DropStale(r, stale, staleSets)
           decided == DecideDisputes(fresh, converge)
           txns == DecidedSet(fresh, decided)
           voted == [fresh EXCEPT !.disputes = decided]
           proposed == [voted EXCEPT !.txns = txns, !.seq = @ + 1,
                                     !.acquiredSets = emplace(@, txns, txns)]
           s == HearSet(proposed, txns, txns, {})
           u == updateProposals(r, stale, staleSets, converge)
           D == {t \in DOMAIN decided : decided[t].ourVote # fresh.disputes[t].ourVote}
           acquired == emplace(fresh.acquiredSets, txns, txns)
           seq == fresh.seq + 1
<1>1. u \in {voted, proposed, s} /\ (u = voted => txns = r.txns \/ u = proposed \/ u = s)
  BY DEF updateProposals
<1>2. /\ RoundInv(fresh)
      /\ fresh.phase = r.phase /\ fresh.prevBlockId = r.prevBlockId
      /\ fresh.txns = r.txns
      /\ DOMAIN fresh.disputes = DOMAIN r.disputes
      /\ \A t \in DOMAIN r.disputes : fresh.disputes[t].ourVote = r.disputes[t].ourVote
  BY DropStaleInv
<1> HIDE DEF fresh, u
<1>3. /\ DOMAIN decided = DOMAIN fresh.disputes
      /\ decided = [t \in DOMAIN decided |-> decided[t]]
      /\ \A t \in DOMAIN decided :
           /\ DisputeInv(decided[t], DOMAIN fresh.currPeerProposals)
           /\ decided[t].ourVote \in BOOLEAN /\ fresh.disputes[t].ourVote \in BOOLEAN
           /\ decided[t].ourVote => fresh.disputes[t].ourVote
  BY <1>2, DecideDisputesInv
<1> HIDE DEF decided
<1>4. D \in SUBSET Tx /\ \A t \in D : ~ decided[t].ourVote
  <2>1. DOMAIN decided \subseteq Tx
    BY <1>2, <1>3 DEF RoundInv, IsRound
  <2>2. \A t \in D : ~ decided[t].ourVote
    BY <1>3
  <2> QED
    BY <2>1, <2>2
<1>5. r.txns \in TxSet /\ r.txns \in SUBSET Tx
  BY TxSetFacts DEF RoundInv, IsRound
<1>6. txns = {t \in r.txns : \A x \in D : Slot[t] # Slot[x]}
  <2>1. D = {t \in DOMAIN decided : decided[t].ourVote # fresh.disputes[t].ourVote}
    OBVIOUS
  <2>2. fresh.txns \in SUBSET Tx /\ fresh.txns = r.txns
    BY <1>2, <1>5
  <2> HIDE DEF D
  <2> QED
    BY ONLY <1>4, <2>1, <2>2, DecidedSetRemoves
<1>7. txns \subseteq r.txns /\ txns \in TxSet
  BY <1>5, <1>6, TxSetFacts
<1>8. voted = [phase |-> r.phase, prevBlockId |-> r.prevBlockId, txns |-> r.txns,
               seq |-> fresh.seq, compares |-> fresh.compares, disputes |-> decided,
               currPeerProposals |-> fresh.currPeerProposals, acquiredSets |-> fresh.acquiredSets]
  BY <1>2 DEF RoundInv
<1>a. proposed = [voted EXCEPT !.txns = txns, !.seq = voted.seq + 1,
                               !.acquiredSets = emplace(voted.acquiredSets, txns, txns)]
  BY Zenon
<1>b. /\ DOMAIN acquired \subseteq TxSet /\ \A id \in DOMAIN acquired : acquired[id] \in TxSet
      /\ seq \in Nat
  <2>1. /\ DOMAIN fresh.acquiredSets \subseteq TxSet /\ fresh.seq \in Nat
        /\ \A id \in DOMAIN fresh.acquiredSets : fresh.acquiredSets[id] \in TxSet
    BY <1>2 DEF RoundInv, IsRound
  <2> HIDE DEF txns, fresh, acquired
  <2>2. /\ DOMAIN acquired = DOMAIN fresh.acquiredSets \union {txns}
        /\ \A id \in DOMAIN acquired : acquired[id] \in TxSet
    BY <1>7, <2>1, EmplaceType, Zenon DEF acquired
  <2> QED
    BY <1>7, <2>1, <2>2
<1> HIDE DEF voted, proposed, txns
<1>9. proposed = [phase |-> r.phase, prevBlockId |-> r.prevBlockId, txns |-> txns,
                  seq |-> seq, compares |-> fresh.compares, disputes |-> decided,
                  currPeerProposals |-> fresh.currPeerProposals, acquiredSets |-> acquired]
  <2>1. voted.acquiredSets = fresh.acquiredSets /\ voted.seq = fresh.seq
    BY <1>8
  <2>2. proposed = [voted EXCEPT !.txns = txns, !.seq = seq, !.acquiredSets = acquired]
    BY <1>a, <2>1, Zenon
  <2> HIDE DEF acquired, seq
  <2> QED
    BY <1>8, <2>2
<1> HIDE DEF acquired, seq, D
<1>10. /\ voted.phase = r.phase /\ voted.prevBlockId = r.prevBlockId /\ voted.txns = r.txns
       /\ voted.seq = fresh.seq /\ voted.compares = fresh.compares /\ voted.disputes = decided
       /\ voted.currPeerProposals = fresh.currPeerProposals
       /\ voted.acquiredSets = fresh.acquiredSets
  BY <1>8
<1>11. /\ proposed.phase = r.phase /\ proposed.prevBlockId = r.prevBlockId /\ proposed.txns = txns
       /\ proposed.seq = seq /\ proposed.compares = fresh.compares /\ proposed.disputes = decided
       /\ proposed.currPeerProposals = fresh.currPeerProposals
       /\ proposed.acquiredSets = acquired
  BY <1>9
<1>12. RoundInv(voted)
  <2>1. IsRound(voted)
    BY <1>2, <1>3, <1>5, <1>10 DEF RoundInv, IsRound
  <2> QED
    BY <1>2, <1>3, <1>8, <1>10, <2>1 DEF RoundInv
<1>13. RoundInv(proposed)
  <2>1. IsRound(proposed)
    BY <1>2, <1>3, <1>7, <1>11, <1>b DEF RoundInv, IsRound
  <2> QED
    BY <1>2, <1>3, <1>9, <1>11, <2>1 DEF RoundInv
<1>14. /\ RoundInv(s) /\ OnlyDisputes(proposed, s)
       /\ VotesAgree(proposed) => VotesAgree(s)
  BY <1>7, <1>13, HearSetInv
<1>15. s.phase = r.phase /\ s.prevBlockId = r.prevBlockId /\ s.txns = txns
  BY <1>11, <1>14 DEF OnlyDisputes
<1>16. ASSUME SlotsDiffer, VotesAgree(r), NEW t \in DOMAIN decided
       PROVE  decided[t].ourVote = exists(txns, t)
  <2>1. fresh.disputes[t].ourVote = exists(r.txns, t)
    BY <1>2, <1>3, <1>16 DEF VotesAgree
  <2>2. t \in Tx
    BY <1>2, <1>3 DEF RoundInv, IsRound
  <2>3. CASE t \in D
    <3>1. ~ decided[t].ourVote /\ decided[t].ourVote \in BOOLEAN
      BY <1>3, <1>4, <2>3
    <3>2. ~ exists(txns, t)
      BY <1>6, <2>3 DEF exists
    <3>3. exists(txns, t) \in BOOLEAN
      BY DEF exists
    <3> QED
      BY <3>1, <3>2, <3>3
  <2>4. CASE t \notin D
    <3>1. decided[t].ourVote = fresh.disputes[t].ourVote
      BY <2>4 DEF D
    <3>2. ASSUME NEW x \in r.txns, Slot[x] = Slot[t] PROVE x \in txns
      <4>1. \A y \in D : Slot[x] # Slot[y]
        BY <1>4, <1>5, <1>16, <2>2, <2>4, <3>2 DEF SlotsDiffer
      <4> QED
        BY <1>6, <4>1
    <3>3. exists(txns, t) = exists(r.txns, t)
      BY <1>7, <3>2 DEF exists
    <3> QED
      BY <2>1, <3>1, <3>3
  <2> QED
    BY <2>3, <2>4
<1>17. SlotsDiffer /\ VotesAgree(r) => VotesAgree(proposed)
  BY <1>11, <1>16 DEF VotesAgree
<1>18. SlotsDiffer /\ VotesAgree(r) /\ txns = r.txns => VotesAgree(voted)
  BY <1>10, <1>16 DEF VotesAgree
<1> HIDE DEF s
<1>19. /\ RoundInv(u)
       /\ u.phase = r.phase /\ u.prevBlockId = r.prevBlockId
       /\ u.txns \subseteq r.txns
       /\ SlotsDiffer /\ VotesAgree(r) => VotesAgree(u)
  <2>1. CASE u = voted /\ txns = r.txns
    BY <1>10, <1>12, <1>18, <2>1
  <2>2. CASE u = proposed
    BY <1>7, <1>11, <1>13, <1>17, <2>2
  <2>3. CASE u = s
    BY <1>7, <1>14, <1>15, <1>17, <2>3
  <2> QED
    BY <1>1, <2>1, <2>2, <2>3
<1> QED
  BY <1>19 DEF u

-----------------------------------------------------------------------------
(* The rounds of one node. *)

\* What is left of a proposed set is a set, and so are its differences.
LEMMA KeptFacts ==
    ASSUME NEW set \in TxSet, NEW pool, NEW kept \in Checked(set, pool),
           NEW mine \in TxSet, NEW diff \in Differences(mine, kept)
    PROVE  kept \in TxSet /\ kept \subseteq Tx /\ diff \in SUBSET Tx
<1>1. kept \in TxSet /\ kept \subseteq Tx /\ mine \subseteq Tx
  BY TxSetFacts DEF Checked
<1> QED
  BY <1>1 DEF Differences

\* The inductive invariant: what a round is, and peers that are other nodes.
OwnInv == RoundInv(own) /\ PeersHavePositions

\* A round that goes on only loses transactions.
RoundStep ==
    own.phase = "ESTABLISH" /\ own'.phase = "ESTABLISH" => own'.txns \subseteq own.txns

LEMMA OwnNextInv == OwnInv /\ [OwnNext]_ownVars => RoundInv(own)' /\ [RoundStep]_ownVars
<1> SUFFICES ASSUME OwnInv, [OwnNext]_ownVars PROVE RoundInv(own)' /\ [RoundStep]_ownVars
  OBVIOUS
<1>1. RoundInv(own)
  BY DEF OwnInv
<1>2. CASE BeginOwnRound
  <2>1. Genesis \in BlockId
    BY DEF Genesis, BlockId
  <2>2. RoundInv(own')
    BY <1>2, <2>1, NewRoundInv DEF BeginOwnRound
  <2>3. own'.phase = "OPEN"
    BY <1>2 DEF BeginOwnRound, NewRound
  <2> QED
    BY <2>2, <2>3 DEF RoundStep
<1>3. ASSUME NEW pool \in SUBSET Tx, CloseOwnBlock(pool)
      PROVE  RoundInv(own)' /\ [RoundStep]_ownVars
  <2>1. PICK diff \in ClosingDifferences(own, pool) : own' = closeBlock(own, pool, diff)
    BY <1>3 DEF CloseOwnBlock
  <2>2. \A id \in ProposedSets(own) : diff[id] \in SUBSET Tx
    BY DEF ClosingDifferences
  <2>3. RoundInv(own')
    BY <1>1, <2>1, <2>2, CloseBlockInv
  <2>4. own.phase = "OPEN"
    BY <1>3 DEF CloseOwnBlock
  <2> QED
    BY <2>3, <2>4 DEF RoundStep
<1>4. ASSUME NEW p \in Validator \ {Self}, NEW set \in TxSet, NEW seq \in 0 .. MaxSeq,
             GotTxSet(p, set, seq)
      PROVE  RoundInv(own)' /\ [RoundStep]_ownVars
  <2> DEFINE prop == [prevBlockId |-> Genesis, txSet |-> set, seq |-> seq]
  <2>0. PICK kept \in Checked(set, {}) : \E diff \in Differences(own.txns, kept) :
           own' = gotTxSet(own, p, prop, kept, diff)
    BY <1>4 DEF GotTxSet
  <2>1. PICK diff \in Differences(own.txns, kept) : own' = gotTxSet(own, p, prop, kept, diff)
    BY <2>0
  <2>2. kept \in TxSet /\ diff \in SUBSET Tx
    <3>1. own.txns \in TxSet
      BY <1>1 DEF RoundInv, IsRound
    <3> QED
      BY <3>1, KeptFacts
  <2>3. prop.txSet \in TxSet
    OBVIOUS
  <2> HIDE DEF prop
  <2>4. RoundInv(own') /\ own'.txns = own.txns
    BY <1>1, <2>1, <2>2, <2>3, GotTxSetInv
  <2> QED
    BY <2>4 DEF RoundStep
<1>5. ASSUME NEW stale \in SUBSET DOMAIN own.currPeerProposals, NEW staleSets,
             NEW converge \in Stage, UpdateOwnProposals(stale, staleSets, converge)
      PROVE  RoundInv(own)' /\ [RoundStep]_ownVars
  <2>1. own' = updateProposals(own, stale, staleSets, converge)
    BY <1>5 DEF UpdateOwnProposals
  <2>2. converge \in Nat
    BY StageAssumption
  <2>3. RoundInv(own') /\ own'.txns \subseteq own.txns
    BY <1>1, <2>1, <2>2, UpdateProposalsInv
  <2> QED
    BY <2>3 DEF RoundStep
<1>6. CASE UNCHANGED ownVars
  BY <1>1, <1>6 DEF ownVars
<1> QED
  BY <1>2, <1>3, <1>4, <1>5, <1>6 DEF OwnNext

LEMMA OwnInvariance == OwnSpec => []RoundInv(own)
<1>1. OwnInit => RoundInv(own)
  <2>1. Genesis \in BlockId
    BY DEF Genesis, BlockId
  <2> QED
    BY <2>1, NewRoundInv DEF OwnInit
<1>2. RoundInv(own) /\ PeersHavePositions /\ [OwnNext]_ownVars => RoundInv(own)'
  BY OwnNextInv DEF OwnInv
<1> QED
  BY <1>1, <1>2, PeersKeepPositions, PTL DEF OwnSpec

\* Whatever the peers propose and however it grows stale, a vote on a dispute is
\* that of a node whose position is still known.
THEOREM VotersKeepPositions == OwnSpec => []VotersHavePositions
<1>1. RoundInv(own) => VotersHavePositions
  BY DEF RoundInv, DisputeInv, IsDispute, VotersHavePositions
<1> QED
  BY <1>1, OwnInvariance, PTL

\* From its first proposal on a node only gives transactions up, for any UNL and
\* any transactions, those that share a slot included.
THEOREM PositionsShrink == OwnSpec => PositionsOnlyShrink
<1>1. RoundInv(own) /\ PeersHavePositions /\ [OwnNext]_ownVars => [RoundStep]_ownVars
  BY OwnNextInv DEF OwnInv
<1> QED
  BY <1>1, OwnInvariance, PeersKeepPositions, PTL
     DEF OwnSpec, PositionsOnlyShrink, RoundStep

-----------------------------------------------------------------------------
(***************************************************************************)
(* The state of one node: of its chain c, its current block cb, the block  *)
(* id it accepted last, the block last it executed, and its round r.       *)
(***************************************************************************)
ChainState(c, cb, id, last) ==
    /\ ChainInv(c)
    /\ cb \in [sequence : Nat, id : BlockId \union {NoBlock}]
    /\ cb.sequence \in {0, Len(c.validBlock.id) + 1}
    /\ cb.id \in {NoBlock, id}
    /\ id \in BlockId \union {NoBlock}
    /\ id # NoBlock =>
         /\ id # Genesis
         /\ ~ IsExecuted(id)
         /\ \/ Len(id) <= Len(c.validBlock.id)
            \/ Prev(id) = c.validBlock.id
    /\ last \in BlockId \union {NoBlock}
    /\ last # NoBlock => last = c.validBlock.id

\* A set is proposed for the successor of the valid block, until that is found
\* without this round: then the round never gets back on the preferred block.
RoundState(r, c, cb) ==
    /\ RoundInv(r)
    /\ SlotsDiffer => VotesAgree(r)
    /\ r.phase = "ESTABLISH" =>
         \/ /\ r.prevBlockId = c.validBlock.id
            /\ cb = EmptyBlock(Len(c.validBlock.id) + 1)
         \/ Len(r.prevBlockId) < Len(c.validBlock.id)

LEMMA ValidFacts ==
    ASSUME NEW c, ChainInv(c)
    PROVE  /\ c.validBlock.id \in BlockId
           /\ Len(c.validBlock.id) \in Nat
           /\ getPreferredBlock(c) = c.validBlock.id
BY PreferredLemma DEF ChainInv, Bounded, IsChain, BlockId

\* The valid block is one a peer may build on: all blocks of its path are executed.
ValidPath(n) == [1 .. n -> [tx : TxSet, acc : AccHash]]

LEMMA ValidIsPath ==
    ASSUME NEW c, ChainInv(c)
    PROVE  c.validBlock.id \in ValidPath(Len(c.validBlock.id))
<1> DEFINE v == c.validBlock.id
<1>1. v \in Seq(Entry) /\ Len(v) \in Nat
  BY ValidFacts DEF BlockId
<1>2. ASSUME NEW i \in 1 .. Len(v) PROVE v[i] \in [tx : TxSet, acc : AccHash]
  <2>1. IsExecuted(SubSeq(v, 1, i))
    BY DEF ChainInv, Linked
  <2>2. Len(SubSeq(v, 1, i)) = i /\ SubSeq(v, 1, i)[i] = v[i]
    BY <1>1
  <2>3. SubSeq(v, 1, i) # Genesis
    <3>1. Len(Genesis) = 0 /\ i > 0
      BY DEF Genesis
    <3> QED
      BY ONLY <2>2, <3>1
  <2>4. v[i].acc # NullHash
    BY <2>1, <2>2, <2>3 DEF IsExecuted
  <2>5. v[i] \in Entry
    BY <1>1
  <2> QED
    BY <2>4, <2>5 DEF Entry
<1> QED
  BY <1>1, <1>2 DEF ValidPath

LEMMA InitState ==
    /\ ChainState(NewChain, EmptyBlock(0), NoBlock, Genesis)
    /\ RoundState(NewRound(Genesis), NewChain, EmptyBlock(0))
<1>1. Genesis \in BlockId
  BY DEF Genesis, BlockId
<1>2. ChainState(NewChain, EmptyBlock(0), NoBlock, Genesis)
  BY <1>1, NewChainInv DEF ChainState, EmptyBlock, NewChain
<1>3. RoundState(NewRound(Genesis), NewChain, EmptyBlock(0))
  <2>1. NewRound(Genesis).phase = "OPEN"
    BY DEF NewRound
  <2> QED
    BY <1>1, <2>1, NewRoundInv DEF RoundState
<1> QED
  BY <1>2, <1>3

\* A new block is closed.
LEMMA CloseState ==
    ASSUME NEW c, NEW cb, NEW id, NEW last, ChainState(c, cb, id, last)
    PROVE  ChainState(c, EmptyBlock(Len(c.validBlock.id) + 1), id, last)
BY ValidFacts DEF ChainState, EmptyBlock

\* A proposal for the sequence above the valid block is inserted.
LEMMA InsertState ==
    ASSUME NEW c, NEW cb, NEW id, NEW last, ChainState(c, cb, id, last),
           NEW issuer \in Validator, NEW b \in BlockId, b # Genesis, ~ IsExecuted(b),
           Len(b) = Len(c.validBlock.id) + 1, NEW isLocal \in BOOLEAN
    PROVE  /\ ChainState(insert(c, issuer, b, isLocal), cb, id, last)
           /\ insert(c, issuer, b, isLocal).validBlock = c.validBlock
<1> DEFINE d == insert(c, issuer, b, isLocal)
<1>1. ChainInv(d) /\ d.validBlock = c.validBlock
  BY InsertInv DEF ChainState
<1> HIDE DEF d
<1>2. ChainState(d, cb, id, last)
  BY <1>1 DEF ChainState
<1> QED
  BY <1>1, <1>2 DEF d

\* A block is accepted: it is the successor of the valid one.
LEMMA AcceptState ==
    ASSUME NEW c, NEW cb, NEW id, NEW last, ChainState(c, cb, id, last),
           NEW b \in BlockId, b # Genesis, ~ IsExecuted(b), Prev(b) = c.validBlock.id
    PROVE  ChainState(c, [sequence |-> Sequence(b), id |-> b], b, last)
<1>1. Len(b) \in Nat /\ Len(b) = Len(c.validBlock.id) + 1
  BY PrevLemma, ValidFacts DEF ChainState
<1> QED
  BY <1>1 DEF ChainState, Sequence

\* The block accepted last has the quorum and is executed.
ExecutedChain(c, id) == assignAccountHashToValidBlock(SetValidBlock(c, id), AccountHash)

LEMMA ExecuteState ==
    ASSUME NEW c, NEW cb, NEW id, NEW last, ChainState(c, cb, id, last), HasQuorum(c, id),
           NEW block \in {NoBlock, id}
    PROVE  /\ ChainState(ExecutedChain(c, id), EmptyBlock(0), id,
                         IF block = NoBlock THEN NoBlock ELSE Executed(block, AccountHash))
           /\ ExecutedChain(c, id).validBlock.id = Executed(id, AccountHash)
           /\ Prev(id) = c.validBlock.id /\ id \in BlockId /\ id # Genesis /\ ~ IsExecuted(id)
           /\ Len(Executed(id, AccountHash)) = Len(c.validBlock.id) + 1
<1> DEFINE d == ExecutedChain(c, id)
           new == Executed(id, AccountHash)
           exe == IF block = NoBlock THEN NoBlock ELSE Executed(block, AccountHash)
<1>1. AccountHash \in AccHash
  BY AccHashAssumption DEF AccountHash
<1>2. id \in BlockId /\ id # NoBlock
  BY PointerAssumption DEF HasQuorum, ChainState, ChainInv, IsChain
<1>3. /\ id # Genesis /\ ~ IsExecuted(id)
      /\ Len(id) <= Len(c.validBlock.id) \/ Prev(id) = c.validBlock.id
      /\ ChainInv(c)
  BY <1>2 DEF ChainState
<1>4. ChainInv(d) /\ d.validBlock.id = new /\ Prev(id) = c.validBlock.id
  BY <1>1, <1>2, <1>3, BecomesValid DEF ExecutedChain
<1>5. new \in BlockId /\ Len(new) = Len(id) /\ Len(id) \in Nat /\ Len(id) = Len(c.validBlock.id) + 1
  <2>1. new \in BlockId /\ Len(new) = Len(id)
    BY <1>1, <1>2, <1>3, ExecutedLemma
  <2>2. Len(id) \in Nat /\ Len(c.validBlock.id) = Len(id) - 1
    BY <1>2, <1>3, <1>4, PrevLemma
  <2> QED
    BY <2>1, <2>2
<1>6. exe \in BlockId \union {NoBlock} /\ (exe # NoBlock => exe = new)
  BY <1>5
<1> HIDE DEF d, new, exe
<1>7. ChainState(d, EmptyBlock(0), id, exe)
  BY <1>2, <1>3, <1>4, <1>5, <1>6 DEF ChainState, EmptyBlock
<1> QED
  BY <1>2, <1>3, <1>4, <1>5, <1>7 DEF d, new, exe

-----------------------------------------------------------------------------
(***************************************************************************)
(* The methods of the chain are the same ones under the names of ChainOf.  *)
(***************************************************************************)
LEMMA SamePreferred ==
    ASSUME NEW n
    PROVE  \A c : c.validBlock.node.childs = <<>> => ChainOf(n)!getPreferredBlock(c) = getPreferredBlock(c)
BY DEF ChainOf!getPreferredBlock, getPreferredBlock, ChainOf!Decided, Decided

LEMMA SameInsert ==
    ASSUME NEW n
    PROVE  \A c, p, b, l : ChainOf(n)!insert(c, p, b, l) = insert(c, p, b, l)
<1>1. \A b : ChainOf(n)!Prev(b) = Prev(b)
  BY Zenon DEF ChainOf!Prev, Prev
<1>2. \A f, k, v : ChainOf(n)!Put(f, k, v) = Put(f, k, v)
  BY Zenon DEF ChainOf!Put, Put
<1>3. \A ch, b, k : ChainOf(n)!AddSupport(ch, b, k) = AddSupport(ch, b, k)
  BY Zenon DEF ChainOf!AddSupport, AddSupport, ChainOf!Uint, Uint
<1>4. \A ch, b, k : ChainOf(n)!Attach(ch, b, k) = Attach(ch, b, k)
  BY Zenon DEF ChainOf!Attach, Attach, ChainOf!Put, Put, ChainOf!Prev, Prev, ChainOf!NewNode,
     NewNode
<1>5. \A c, p : ChainOf(n)!WithdrawSupport(c, p) = WithdrawSupport(c, p)
  BY <1>3, Zenon DEF ChainOf!WithdrawSupport, WithdrawSupport
<1> SUFFICES ASSUME NEW c, NEW p, NEW b, NEW l
             PROVE  ChainOf(n)!insert(c, p, b, l) = insert(c, p, b, l)
  OBVIOUS
<1> DEFINE ch == IF l THEN c.ch ELSE WithdrawSupport(c, p)
<1>6. ch = IF l THEN c.ch ELSE ChainOf(n)!WithdrawSupport(c, p)
  BY <1>5, Zenon
<1> HIDE DEF ch
<1> QED
  BY <1>1, <1>2, <1>3, <1>4, <1>5, <1>6 DEF ChainOf!insert, insert, ch

LEMMA SameQuorum ==
    ASSUME NEW n
    PROVE  \A c, b : ChainOf(n)!HasQuorum(c, b) <=> HasQuorum(c, b)
BY Zenon DEF ChainOf!HasQuorum, HasQuorum, ChainOf!checkQuorum, checkQuorum, ChainOf!UNLcount, UNLcount,
   ChainOf!Sequence, Sequence, ChainOf!Cardinality, Cardinality

LEMMA SameSetValid ==
    ASSUME NEW n
    PROVE  \A c, b : ChainOf(n)!SetValidBlock(c, b) = SetValidBlock(c, b)
BY Zenon DEF ChainOf!SetValidBlock, SetValidBlock

LEMMA SameAssign ==
    ASSUME NEW n
    PROVE  \A c, acc : ChainOf(n)!assignAccountHashToValidBlock(c, acc) = assignAccountHashToValidBlock(c, acc)
BY Zenon DEF ChainOf!assignAccountHashToValidBlock, assignAccountHashToValidBlock, ChainOf!Executed,
   Executed, ChainOf!Put, Put, ChainOf!Prev, Prev

LEMMA SameSequence ==
    ASSUME NEW n
    PROVE  \A b : ChainOf(n)!Sequence(b) = Sequence(b)
BY Zenon DEF ChainOf!Sequence, Sequence

LEMMA SameExecuted ==
    ASSUME NEW n
    PROVE  \A b, acc : ChainOf(n)!Executed(b, acc) = Executed(b, acc)
BY Zenon DEF ChainOf!Executed, Executed, ChainOf!Prev, Prev

LEMMA SameProposed ==
    ASSUME NEW n
    PROVE  \A prev, tx : ChainOf(n)!Proposed(prev, tx) = Proposed(prev, tx)
BY Zenon DEF ChainOf!Proposed, Proposed

LEMMA SameEmptyBlock ==
    ASSUME NEW n
    PROVE  \A s : ChainOf(n)!EmptyBlock(s) = EmptyBlock(s)
BY Zenon DEF ChainOf!EmptyBlock, EmptyBlock

LEMMA SameValidPath ==
    ASSUME NEW n
    PROVE  \A k : ChainOf(n)!ValidPath(k) = ValidPath(k)
BY Zenon DEF ChainOf!ValidPath, ValidPath

LEMMA SameGenesis ==
    ASSUME NEW n
    PROVE  ChainOf(n)!Genesis = Genesis
BY Zenon DEF ChainOf!Genesis, Genesis

LEMMA SameNewChain ==
    ASSUME NEW n
    PROVE  ChainOf(n)!NewChain = NewChain
BY Zenon DEF ChainOf!NewChain, NewChain, ChainOf!GenesisNode, GenesisNode, ChainOf!NewNode, NewNode,
   ChainOf!Genesis, Genesis

-----------------------------------------------------------------------------
(***************************************************************************)
(* The inductive invariant of the network.                                 *)
(***************************************************************************)
NodeInv(n) ==
    /\ ChainState(chain[n], currBlock[n], currBlockId[n], lastExecuted[n])
    /\ RoundState(round[n], chain[n], currBlock[n])
    /\ txPool[n] \subseteq Tx
    /\ rounds[n] \in 0 .. MaxRounds

\* What is on its way was sent by a node that runs this program.
MessageInv(m) ==
    /\ m.from \in Validator
    /\ m.to \in Validator \ {m.from}
    /\ m.type = "TXSETPROPOSAL" => m.txSet \in TxSet
    /\ m.type = "BLOCKPROPOSAL" =>
         \E tx \in TxSet : \E prev \in BlockId :
            prev \in ValidPath(Len(prev)) /\ m.block = Proposed(prev, tx)

EveryNode ==
    /\ DOMAIN round = Validator /\ DOMAIN chain = Validator
    /\ DOMAIN currBlock = Validator /\ DOMAIN currBlockId = Validator
    /\ DOMAIN lastExecuted = Validator /\ DOMAIN txPool = Validator
    /\ DOMAIN rounds = Validator

IInv ==
    /\ EveryNode
    /\ \A n \in Validator : NodeInv(n)
    /\ \A m \in network : MessageInv(m)

\* What a step of node n leaves alone, and what it may do to the chain of n.
OthersWait(n) ==
    \A m \in Validator \ {n} :
        /\ round'[m] = round[m] /\ chain'[m] = chain[m]
        /\ currBlock'[m] = currBlock[m] /\ currBlockId'[m] = currBlockId[m]
        /\ lastExecuted'[m] = lastExecuted[m] /\ txPool'[m] = txPool[m]
        /\ rounds'[m] = rounds[m]

ChainStep(n) == [ChainOf(n)!Next]_(ChainOf(n)!vars)

SameChain(n) ==
    /\ chain'[n] = chain[n] /\ currBlock'[n] = currBlock[n]
    /\ currBlockId'[n] = currBlockId[n] /\ lastExecuted'[n] = lastExecuted[n]

\* What has to be shown of a step of node n.
NodeStep(n) ==
    /\ EveryNode'
    /\ OthersWait(n)
    /\ NodeInv(n)'
    /\ ChainStep(n)
    /\ \A m \in network' \ network : MessageInv(m)

LEMMA SameChainStep ==
    ASSUME NEW n, SameChain(n)
    PROVE  ChainStep(n)
BY DEF SameChain, ChainStep, ChainOf!vars

LEMMA OthersStep ==
    ASSUME IInv, NEW n \in Validator, NodeStep(n)
    PROVE  /\ IInv'
           /\ \A m \in Validator : ChainStep(m)
<1>1. ASSUME NEW m \in Validator \ {n} PROVE NodeInv(m)' /\ ChainStep(m)
  <2>1. /\ round'[m] = round[m] /\ chain'[m] = chain[m]
        /\ currBlock'[m] = currBlock[m] /\ currBlockId'[m] = currBlockId[m]
        /\ lastExecuted'[m] = lastExecuted[m] /\ txPool'[m] = txPool[m]
        /\ rounds'[m] = rounds[m]
    BY DEF NodeStep, OthersWait
  <2>2. NodeInv(m)
    BY DEF IInv
  <2>3. NodeInv(m)'
    BY <2>1, <2>2 DEF NodeInv
  <2> QED
    BY <2>1, <2>3, SameChainStep DEF SameChain
<1>2. \A m \in network' : MessageInv(m)
  BY DEF IInv, NodeStep
<1>3. \A m \in Validator : NodeInv(m)' /\ ChainStep(m)
  BY <1>1 DEF NodeStep
<1>4. EveryNode'
  BY DEF NodeStep
<1> QED
  BY <1>2, <1>3, <1>4 DEF IInv

LEMMA AddTransactionStep ==
    ASSUME IInv, NEW n \in Validator, NEW tx \in Tx, AddTransaction(n, tx)
    PROVE  NodeStep(n)
<1>1. NodeInv(n) /\ EveryNode
  BY DEF IInv
<1>2. /\ UNCHANGED <<round, chain, currBlock, currBlockId, lastExecuted, rounds, network>>
      /\ txPool' = [txPool EXCEPT ![n] = txPool[n] \union {tx}]
  BY DEF AddTransaction, executions
<1>3. EveryNode' /\ OthersWait(n) /\ txPool'[n] = txPool[n] \union {tx}
  BY <1>1, <1>2 DEF EveryNode, OthersWait
<1>4. NodeInv(n)'
  BY <1>1, <1>2, <1>3 DEF NodeInv
<1>5. ChainStep(n)
  BY <1>2, SameChainStep DEF SameChain
<1> QED
  BY <1>2, <1>3, <1>4, <1>5 DEF NodeStep

LEMMA BeginRoundStep ==
    ASSUME IInv, NEW n \in Validator, BeginRound(n)
    PROVE  NodeStep(n)
<1> DEFINE r == NewRound(getPreferredBlock(chain[n]))
<1>1. NodeInv(n) /\ EveryNode
  BY DEF IInv
<1>2. /\ UNCHANGED <<chain, currBlock, currBlockId, lastExecuted, txPool, rounds, network>>
      /\ round' = [round EXCEPT ![n] = r]
  BY DEF BeginRound, executions
<1>3. /\ RoundInv(r) /\ VotesAgree(r) /\ r.phase = "OPEN"
  <2>1. ChainInv(chain[n])
    BY <1>1 DEF NodeInv, ChainState
  <2>2. getPreferredBlock(chain[n]) \in BlockId
    BY <2>1, ValidFacts
  <2>3. r.phase = "OPEN"
    BY DEF NewRound
  <2> QED
    BY <2>2, <2>3, NewRoundInv
<1> HIDE DEF r
<1>4. EveryNode' /\ OthersWait(n) /\ round'[n] = r
  BY <1>1, <1>2 DEF EveryNode, OthersWait
<1>5. RoundState(r, chain[n], currBlock[n])
  BY <1>3 DEF RoundState
<1>6. NodeInv(n)'
  BY <1>1, <1>2, <1>4, <1>5 DEF NodeInv
<1>7. ChainStep(n)
  BY <1>2, SameChainStep DEF SameChain
<1> QED
  BY <1>2, <1>4, <1>6, <1>7 DEF NodeStep

LEMMA ShareTxSet ==
    ASSUME NEW n \in Validator, NEW r, r.txns \in TxSet
    PROVE  \A m \in TxSetProposals(n, r) : MessageInv(m)
BY DEF TxSetProposals, MessageInv

LEMMA CloseBlockStep ==
    ASSUME IInv, NEW n \in Validator, CloseBlock(n)
    PROVE  NodeStep(n)
<1> DEFINE valid == chain[n].validBlock.id
           cb == EmptyBlock(Len(valid) + 1)
<1>1. NodeInv(n) /\ EveryNode
  BY DEF IInv
<1>2. /\ ChainInv(chain[n]) /\ RoundInv(round[n]) /\ txPool[n] \in SUBSET Tx
      /\ ChainState(chain[n], currBlock[n], currBlockId[n], lastExecuted[n])
  BY <1>1 DEF NodeInv, ChainState, RoundState
<1>3. /\ valid \in BlockId /\ Len(valid) \in Nat /\ getPreferredBlock(chain[n]) = valid
  BY <1>2, ValidFacts
<1>4. /\ round[n].prevBlockId = valid
      /\ rounds[n] < MaxRounds /\ Len(valid) < MaxSequence
      /\ UNCHANGED <<chain, currBlockId, lastExecuted, txPool>>
      /\ rounds' = [rounds EXCEPT ![n] = rounds[n] + 1]
      /\ currBlock' = [currBlock EXCEPT ![n] = cb]
      /\ network' = network \union TxSetProposals(n, round'[n])
      /\ Running(n)
  BY <1>3 DEF CloseBlock, OnPreferred, Sequence, Awake, executions
<1>5. PICK diff \in ClosingDifferences(round[n], txPool[n]) :
         round' = [round EXCEPT ![n] = closeBlock(round[n], txPool[n], diff)]
  BY DEF CloseBlock
<1> DEFINE r == closeBlock(round[n], txPool[n], diff)
<1>6. /\ RoundInv(r) /\ VotesAgree(r)
      /\ r.phase = "ESTABLISH" /\ r.prevBlockId = valid
  <2>1. \A id \in ProposedSets(round[n]) : diff[id] \in SUBSET Tx
    BY DEF ClosingDifferences
  <2> QED
    BY <1>2, <1>4, <2>1, CloseBlockInv
<1>7. round' = [round EXCEPT ![n] = r]
  BY <1>5
<1> HIDE DEF r, cb
<1>8. /\ EveryNode' /\ OthersWait(n)
      /\ round'[n] = r /\ rounds'[n] = rounds[n] + 1 /\ currBlock'[n] = cb
  BY <1>1, <1>4, <1>7 DEF EveryNode, OthersWait
<1>9. RoundState(r, chain[n], cb)
  BY <1>6 DEF RoundState, cb
<1>10. ChainState(chain[n], cb, currBlockId[n], lastExecuted[n])
  BY <1>2, CloseState DEF cb
<1>11. rounds[n] + 1 \in 0 .. MaxRounds
  BY <1>1, <1>4, BoundsAssumption DEF NodeInv
<1>12. NodeInv(n)'
  BY <1>1, <1>4, <1>8, <1>9, <1>10, <1>11 DEF NodeInv
<1>13. ChainStep(n)
  <2>1. /\ ChainOf(n)!getPreferredBlock(chain[n]) = valid
        /\ \A b : ChainOf(n)!Sequence(b) = Len(b)
        /\ \A k : ChainOf(n)!EmptyBlock(k) = EmptyBlock(k)
    BY <1>2, <1>3, SamePreferred, SameSequence, SameEmptyBlock DEF ChainInv, Bounded, Sequence
  <2>2. lastExecuted[n] # NoBlock
    BY <1>4 DEF Running
  <2>3. currBlock'[n] = EmptyBlock(Len(valid) + 1)
    BY <1>8 DEF cb
  <2>4. ChainOf(n)!CloseBlock
    BY <1>4, <2>1, <2>2, <2>3 DEF ChainOf!CloseBlock, ChainOf!Running
  <2> QED
    BY <2>4 DEF ChainStep, ChainOf!Next
<1>14. \A m \in network' \ network : MessageInv(m)
  <2>1. round'[n].txns \in TxSet
    BY <1>6, <1>8 DEF RoundInv, IsRound
  <2> QED
    BY <1>4, <2>1, ShareTxSet
<1> QED
  BY <1>8, <1>12, <1>13, <1>14 DEF NodeStep

\* A tick of the establish phase: the round goes on, or a block is accepted.
LEMMA EstablishRound ==
    ASSUME IInv, NEW n \in Validator, NEW stale \in SUBSET DOMAIN round[n].currPeerProposals,
           NEW staleSets, NEW converge \in Stage,
           OnPreferred(n), round[n].phase = "ESTABLISH",
           NEW r, r = updateProposals(round[n], stale, staleSets, converge)
    PROVE  /\ RoundInv(r)
           /\ SlotsDiffer => VotesAgree(r)
           /\ r.phase = "ESTABLISH"
           /\ r.prevBlockId = chain[n].validBlock.id
           /\ currBlock[n] = EmptyBlock(Len(chain[n].validBlock.id) + 1)
<1>1. /\ ChainInv(chain[n])
      /\ RoundState(round[n], chain[n], currBlock[n])
  BY DEF IInv, NodeInv, ChainState
<1>2. /\ Len(chain[n].validBlock.id) \in Nat
      /\ round[n].prevBlockId = chain[n].validBlock.id
  BY <1>1, ValidFacts DEF OnPreferred
<1>3. converge \in Nat
  BY StageAssumption
<1>4. /\ RoundInv(r)
      /\ r.phase = round[n].phase /\ r.prevBlockId = round[n].prevBlockId
      /\ SlotsDiffer /\ VotesAgree(round[n]) => VotesAgree(r)
  BY <1>1, <1>3, UpdateProposalsInv, ZenonT(60) DEF RoundState
<1>5. currBlock[n] = EmptyBlock(Len(chain[n].validBlock.id) + 1)
  BY <1>1, <1>2 DEF RoundState
<1> QED
  BY <1>1, <1>2, <1>4, <1>5 DEF RoundState

LEMMA UpdateStep ==
    ASSUME IInv, NEW n \in Validator, NEW stale \in SUBSET DOMAIN round[n].currPeerProposals,
           NEW staleSets, NEW converge \in Stage,
           OnPreferred(n), round[n].phase = "ESTABLISH",
           NEW r, r = updateProposals(round[n], stale, staleSets, converge),
           UpdateProposals(n, r)
    PROVE  NodeStep(n)
<1>1. NodeInv(n) /\ EveryNode
  BY DEF IInv
<1>2. /\ RoundInv(r)
      /\ SlotsDiffer => VotesAgree(r)
      /\ r.phase = "ESTABLISH"
      /\ r.prevBlockId = chain[n].validBlock.id
      /\ currBlock[n] = EmptyBlock(Len(chain[n].validBlock.id) + 1)
  BY EstablishRound, ZenonT(60)
<1>3. /\ UNCHANGED <<chain, currBlock, currBlockId, lastExecuted, txPool, rounds>>
      /\ round' = [round EXCEPT ![n] = r]
      /\ network' = network \union Reproposed(n, r)
  BY DEF UpdateProposals, executions
<1>4. EveryNode' /\ OthersWait(n) /\ round'[n] = r
  BY <1>1, <1>3 DEF EveryNode, OthersWait
<1>5. RoundState(r, chain[n], currBlock[n])
  BY <1>2 DEF RoundState
<1>6. NodeInv(n)'
  BY <1>1, <1>3, <1>4, <1>5 DEF NodeInv
<1>7. ChainStep(n)
  BY <1>3, SameChainStep DEF SameChain
<1>8. \A m \in network' \ network : MessageInv(m)
  <2>1. r.txns \in TxSet
    BY <1>2 DEF RoundInv, IsRound
  <2> QED
    BY <1>3, <2>1, ShareTxSet DEF Reproposed
<1> QED
  BY <1>4, <1>6, <1>7, <1>8 DEF NodeStep

\* What onAccept does to the chain of its node, in the words of module Chain.
AcceptedChain(n, b) ==
    LET inserted == insert(chain[n], n, b, TRUE)
    IN  IF HasQuorum(inserted, b)
        THEN /\ chain'[n] = ExecutedChain(inserted, b)
             /\ currBlock'[n] = EmptyBlock(0)
             /\ lastExecuted'[n] = Executed(b, AccountHash)
        ELSE /\ chain'[n] = inserted
             /\ currBlock'[n] = [sequence |-> Sequence(b), id |-> b]
             /\ lastExecuted'[n] = lastExecuted[n]

LEMMA AcceptChainStep ==
    ASSUME NEW n, NEW b, NEW tx \in TxSet,
           chain[n].validBlock.node.childs = <<>>,
           getPreferredBlock(chain[n]) = chain[n].validBlock.id,
           b = Proposed(chain[n].validBlock.id, tx), b # NoBlock,
           lastExecuted[n] # NoBlock,
           currBlock[n].sequence # 0, currBlock[n].id = NoBlock,
           currBlockId'[n] = b, AcceptedChain(n, b)
    PROVE  ChainStep(n)
<1>1. AccountHash \in AccHash
  BY AccHashAssumption DEF AccountHash
<1>2. /\ ChainOf(n)!getPreferredBlock(chain[n]) = chain[n].validBlock.id
      /\ ChainOf(n)!Proposed(chain[n].validBlock.id, tx) = b
      /\ ChainOf(n)!insert(chain[n], n, b, TRUE) = insert(chain[n], n, b, TRUE)
      /\ ChainOf(n)!Sequence(b) = Sequence(b)
      /\ \A c : ChainOf(n)!HasQuorum(c, b) <=> HasQuorum(c, b)
      /\ ChainOf(n)!EmptyBlock(0) = EmptyBlock(0)
      /\ ChainOf(n)!Executed(b, AccountHash) = Executed(b, AccountHash)
      /\ \A c, acc : ChainOf(n)!assignAccountHashToValidBlock(c, acc)
                        = assignAccountHashToValidBlock(c, acc)
      /\ \A c : ChainOf(n)!SetValidBlock(c, b) = SetValidBlock(c, b)
  <2>1. ChainOf(n)!getPreferredBlock(chain[n]) = chain[n].validBlock.id
    BY SamePreferred, Zenon
  <2>2. ChainOf(n)!Proposed(chain[n].validBlock.id, tx) = b
    BY SameProposed, Zenon
  <2>3. /\ ChainOf(n)!insert(chain[n], n, b, TRUE) = insert(chain[n], n, b, TRUE)
        /\ ChainOf(n)!Sequence(b) = Sequence(b)
        /\ \A c : ChainOf(n)!HasQuorum(c, b) <=> HasQuorum(c, b)
    BY SameInsert, SameSequence, SameQuorum, Zenon
  <2>4. /\ ChainOf(n)!EmptyBlock(0) = EmptyBlock(0)
        /\ ChainOf(n)!Executed(b, AccountHash) = Executed(b, AccountHash)
    BY SameEmptyBlock, SameExecuted, Zenon
  <2>5. /\ \A c, acc : ChainOf(n)!assignAccountHashToValidBlock(c, acc)
                          = assignAccountHashToValidBlock(c, acc)
        /\ \A c : ChainOf(n)!SetValidBlock(c, b) = SetValidBlock(c, b)
    BY SameAssign, SameSetValid, Zenon
  <2> QED
    BY <2>1, <2>2, <2>3, <2>4, <2>5, Zenon
<1>3. ChainOf(n)!OnAccept(tx, AccountHash)
  <2>1. CASE HasQuorum(insert(chain[n], n, b, TRUE), b)
    BY <1>2, <2>1 DEF ChainOf!OnAccept, ChainOf!Running, ChainOf!Execute, AcceptedChain,
       ExecutedChain
  <2>2. CASE ~ HasQuorum(insert(chain[n], n, b, TRUE), b)
    BY <1>2, <2>2 DEF ChainOf!OnAccept, ChainOf!Running, AcceptedChain
  <2> QED
    BY <2>1, <2>2
<1> QED
  BY <1>1, <1>3 DEF ChainStep, ChainOf!Next

\* What onAccept does when it accepts b at the end of round r.
AcceptedStep(n, r, b) ==
    LET inserted == insert(chain[n], n, b, TRUE)
    IN  /\ b \in BlockId /\ b # Genesis /\ Len(b) = Len(chain[n].validBlock.id) + 1
        /\ inserted.validBlock = chain[n].validBlock
        /\ ChainState(inserted, [sequence |-> Sequence(b), id |-> b], b, lastExecuted[n])
        /\ AcceptedChain(n, b)
        /\ network' = network \union Reproposed(n, r) \union BlockProposals(n, b)
        /\ currBlockId'[n] = b /\ round'[n] = NewRound(b) /\ rounds'[n] = rounds[n]

LEMMA AcceptBlockStep ==
    ASSUME IInv, NEW n \in Validator, Awake(n),
           NEW stale \in SUBSET DOMAIN round[n].currPeerProposals,
           NEW staleSets, NEW converge \in Stage,
           OnPreferred(n), round[n].phase = "ESTABLISH",
           NEW r, r = updateProposals(round[n], stale, staleSets, converge),
           AcceptBlock(n, r)
    PROVE  NodeStep(n) /\ AcceptedStep(n, r, Proposed(r.prevBlockId, r.txns))
<1> DEFINE valid == chain[n].validBlock.id
           b == Proposed(r.prevBlockId, r.txns)
           inserted == insert(chain[n], n, b, TRUE)
           cb == [sequence |-> Sequence(b), id |-> b]
<1>1. NodeInv(n) /\ EveryNode
  BY DEF IInv
<1>2. /\ RoundInv(r)
      /\ r.prevBlockId = valid
      /\ currBlock[n] = EmptyBlock(Len(valid) + 1)
  BY EstablishRound, ZenonT(60)
<1>3. /\ ChainState(chain[n], currBlock[n], currBlockId[n], lastExecuted[n])
      /\ ChainInv(chain[n]) /\ lastExecuted[n] # NoBlock
  BY <1>1 DEF NodeInv, ChainState, Awake, Running
<1>4. /\ valid \in BlockId /\ Len(valid) \in Nat /\ getPreferredBlock(chain[n]) = valid
      /\ r.txns \in TxSet
  BY <1>2, <1>3, ValidFacts DEF RoundInv, IsRound
<1>5. /\ b \in BlockId /\ b # Genesis /\ ~ IsExecuted(b)
      /\ Len(b) = Len(valid) + 1 /\ Prev(b) = valid
      /\ b = Proposed(valid, r.txns)
  BY <1>2, <1>4, ProposedLemma
<1>6. /\ UNCHANGED rounds
      /\ network' = network \union Reproposed(n, r) \union BlockProposals(n, b)
      /\ currBlockId' = [currBlockId EXCEPT ![n] = b]
      /\ round' = [round EXCEPT ![n] = NextRound(n)]
      /\ IF HasQuorum(inserted, b)
         THEN Execute(n, inserted, b, b)
         ELSE /\ chain' = [chain EXCEPT ![n] = inserted]
              /\ currBlock' = [currBlock EXCEPT ![n] = cb]
              /\ UNCHANGED <<lastExecuted, txPool>>
  BY Zenon DEF AcceptBlock, executions
<1> HIDE DEF b
<1>7. /\ ChainState(inserted, currBlock[n], currBlockId[n], lastExecuted[n])
      /\ inserted.validBlock = chain[n].validBlock
  <2>1. Len(b) = Len(chain[n].validBlock.id) + 1 /\ TRUE \in BOOLEAN
    BY <1>5
  <2> QED
    BY ONLY <1>3, <1>5, <2>1, n \in Validator, InsertState, ZenonT(60)
<1> HIDE DEF inserted
<1>8. ChainState(inserted, cb, b, lastExecuted[n])
  <2>1. Prev(b) = inserted.validBlock.id
    BY <1>5, <1>7
  <2> HIDE DEF cb
  <2> QED
    BY <1>5, <1>7, <2>1, AcceptState DEF cb
<1>9. b # NoBlock
  BY <1>5, PointerAssumption
<1>10. /\ currBlockId'[n] = b /\ NextRound(n) = NewRound(b)
       /\ round'[n] = NewRound(b) /\ rounds'[n] = rounds[n]
  BY <1>1, <1>6 DEF EveryNode, NextRound
<1>11. /\ EveryNode' /\ OthersWait(n)
       /\ AcceptedChain(n, b)
       /\ ChainState(chain[n], currBlock[n], currBlockId[n], lastExecuted[n])'
       /\ txPool'[n] \subseteq Tx
  <2>1. CASE HasQuorum(inserted, b)
    <3>1. /\ chain' = [chain EXCEPT ![n] = ExecutedChain(inserted, b)]
          /\ currBlock' = [currBlock EXCEPT ![n] = EmptyBlock(0)]
          /\ lastExecuted' = [lastExecuted EXCEPT ![n] = Executed(b, AccountHash)]
          /\ txPool' = [txPool EXCEPT ![n] = txPool[n] \ b[Len(b)].tx]
      BY <1>6, <1>9, <2>1 DEF Execute, ExecutedChain
    <3>2. /\ chain'[n] = ExecutedChain(inserted, b)
          /\ currBlock'[n] = EmptyBlock(0)
          /\ lastExecuted'[n] = Executed(b, AccountHash)
          /\ txPool'[n] \subseteq txPool[n]
          /\ EveryNode' /\ OthersWait(n)
      <4> DEFINE left == txPool[n] \ b[Len(b)].tx
                 d == ExecutedChain(inserted, b)
                 e == Executed(b, AccountHash)
      <4>1. left \subseteq txPool[n]
        OBVIOUS
      <4>2. txPool' = [txPool EXCEPT ![n] = left]
        BY <3>1, Zenon
      <4> HIDE DEF left, d, e
      <4>3. /\ chain' = [chain EXCEPT ![n] = d]
            /\ lastExecuted' = [lastExecuted EXCEPT ![n] = e]
        BY <3>1, Zenon DEF d, e
      <4>4. EveryNode'
        BY <1>1, <1>6, <3>1, <4>2, <4>3 DEF EveryNode
      <4>5. OthersWait(n)
        BY <1>1, <1>6, <3>1, <4>2, <4>3 DEF EveryNode, OthersWait
      <4>6. /\ chain'[n] = d /\ currBlock'[n] = EmptyBlock(0) /\ lastExecuted'[n] = e
            /\ txPool'[n] = left
        BY <1>1, <3>1, <4>2, <4>3 DEF EveryNode
      <4> QED
        BY <4>1, <4>4, <4>5, <4>6, Zenon DEF d, e
    <3>3. ChainState(ExecutedChain(inserted, b), EmptyBlock(0), b,
                     IF b = NoBlock THEN NoBlock ELSE Executed(b, AccountHash))
      <4>1. b \in {NoBlock, b}
        OBVIOUS
      <4> HIDE DEF cb
      <4> QED
        BY <1>8, <2>1, <4>1, ExecuteState
    <3>4. ChainState(chain[n], currBlock[n], currBlockId[n], lastExecuted[n])'
      BY <1>9, <1>10, <3>2, <3>3
    <3>5. AcceptedChain(n, b)
      BY <2>1, <3>2, Zenon DEF AcceptedChain, inserted
    <3>6. txPool'[n] \subseteq Tx
      BY <1>1, <3>2 DEF NodeInv
    <3> QED
      BY <3>2, <3>4, <3>5, <3>6
  <2>2. CASE ~ HasQuorum(inserted, b)
    <3>1. /\ chain' = [chain EXCEPT ![n] = inserted]
          /\ currBlock' = [currBlock EXCEPT ![n] = cb]
          /\ UNCHANGED <<lastExecuted, txPool>>
      BY <1>6, <2>2
    <3>2. /\ chain'[n] = inserted /\ currBlock'[n] = cb /\ lastExecuted'[n] = lastExecuted[n]
          /\ EveryNode' /\ OthersWait(n)
      <4> HIDE DEF cb
      <4>1. EveryNode'
        BY <1>1, <1>6, <3>1 DEF EveryNode
      <4>2. OthersWait(n)
        BY <1>1, <1>6, <3>1 DEF EveryNode, OthersWait
      <4>3. chain'[n] = inserted /\ currBlock'[n] = cb /\ lastExecuted'[n] = lastExecuted[n]
        BY <1>1, <3>1 DEF EveryNode
      <4> QED
        BY <4>1, <4>2, <4>3
    <3>3. ChainState(chain[n], currBlock[n], currBlockId[n], lastExecuted[n])'
      <4> HIDE DEF cb
      <4> QED
        BY <1>8, <1>10, <3>2
    <3>4. AcceptedChain(n, b)
      BY <2>2, <3>2, Zenon DEF AcceptedChain, inserted
    <3>5. txPool'[n] \subseteq Tx
      BY <1>1, <3>1 DEF NodeInv
    <3> QED
      BY <3>2, <3>3, <3>4, <3>5
  <2> QED
    BY <2>1, <2>2
<1>12. RoundState(round[n], chain[n], currBlock[n])'
  <2>1. NewRound(b).phase = "OPEN"
    BY DEF NewRound
  <2>2. RoundInv(NewRound(b)) /\ VotesAgree(NewRound(b))
    BY <1>5, NewRoundInv
  <2> QED
    BY <1>10, <2>1, <2>2 DEF RoundState
<1>13. NodeInv(n)'
  BY <1>1, <1>10, <1>11, <1>12 DEF NodeInv
<1>14. ChainStep(n)
  <2>1. currBlock[n].sequence # 0 /\ currBlock[n].id = NoBlock
    BY <1>2, <1>4 DEF EmptyBlock
  <2>2. chain[n].validBlock.node.childs = <<>>
    BY <1>3 DEF ChainInv, Bounded
  <2> QED
    BY <1>3, <1>4, <1>5, <1>9, <1>10, <1>11, <2>1, <2>2, AcceptChainStep
<1>15. \A m \in network' \ network : MessageInv(m)
  <2>1. \A m \in Reproposed(n, r) : MessageInv(m)
    BY <1>4, ShareTxSet DEF Reproposed
  <2>2. \A m \in BlockProposals(n, b) : MessageInv(m)
    <3>1. valid \in ValidPath(Len(valid))
      BY <1>3, ValidIsPath
    <3> HIDE DEF valid
    <3> QED
      BY <1>4, <1>5, <3>1 DEF BlockProposals, MessageInv
  <2> QED
    BY <1>6, <2>1, <2>2
<1>16. AcceptedStep(n, r, b)
  BY <1>5, <1>6, <1>7, <1>8, <1>10, <1>11, Zenon DEF AcceptedStep, inserted
<1>17. NodeStep(n)
  BY <1>11, <1>13, <1>14, <1>15 DEF NodeStep
<1> QED
  BY <1>16, <1>17, Zenon DEF b

LEMMA ReceiveTxSetStep ==
    ASSUME IInv, NEW n \in Validator, NEW m \in network, ReceiveTxSetProposal(n, m)
    PROVE  NodeStep(n)
<1>1. NodeInv(n) /\ EveryNode /\ MessageInv(m)
  BY DEF IInv
<1>2. m.txSet \in TxSet /\ m.from \in Validator
  BY <1>1 DEF ReceiveTxSetProposal, MessageInv
<1>3. /\ UNCHANGED <<chain, currBlock, currBlockId, lastExecuted, rounds>>
      /\ network' = network \ {m}
  BY DEF ReceiveTxSetProposal, executions
<1>0. PICK kept \in Checked(m.txSet, txPool[n]) :
         /\ txPool' = [txPool EXCEPT ![n] = txPool[n] \union kept]
         /\ \E diff \in Differences(round[n].txns, kept) :
              round' = [round EXCEPT ![n] = gotTxSet(round[n], m.from, m, kept, diff)]
  BY DEF ReceiveTxSetProposal
<1>4. PICK diff \in Differences(round[n].txns, kept) :
         round' = [round EXCEPT ![n] = gotTxSet(round[n], m.from, m, kept, diff)]
  BY <1>0
<1> DEFINE r == gotTxSet(round[n], m.from, m, kept, diff)
           pool == txPool[n] \union kept
<1>5. RoundInv(round[n])
  BY <1>1 DEF NodeInv, RoundState
<1>6. kept \in TxSet /\ diff \in SUBSET Tx /\ pool \subseteq Tx
  <2>1. round[n].txns \in TxSet
    BY <1>5 DEF RoundInv, IsRound
  <2>2. kept \in TxSet /\ kept \subseteq Tx /\ diff \in SUBSET Tx
    BY <1>2, <2>1, KeptFacts
  <2> QED
    BY <1>1, <2>2 DEF NodeInv
<1>7. /\ RoundInv(r)
      /\ VotesAgree(round[n]) => VotesAgree(r)
      /\ r.phase = round[n].phase /\ r.prevBlockId = round[n].prevBlockId
  BY <1>2, <1>5, <1>6, GotTxSetInv
<1> HIDE DEF r, pool
<1>8. round' = [round EXCEPT ![n] = r] /\ txPool' = [txPool EXCEPT ![n] = pool]
  BY <1>0, <1>4, Zenon DEF r, pool
<1>9. /\ EveryNode' /\ OthersWait(n)
      /\ round'[n] = r /\ txPool'[n] = pool
  BY <1>1, <1>3, <1>8 DEF EveryNode, OthersWait
<1>10. RoundState(r, chain[n], currBlock[n])
  BY <1>1, <1>7 DEF NodeInv, RoundState
<1>11. NodeInv(n)'
  BY <1>1, <1>3, <1>6, <1>9, <1>10 DEF NodeInv
<1>12. ChainStep(n)
  BY <1>3, SameChainStep DEF SameChain
<1> QED
  BY <1>3, <1>9, <1>11, <1>12 DEF NodeStep

\* What peerProposal does to the chain of its node, in the words of module Chain.
ProposedChain(n, p, b) ==
    LET inserted == insert(chain[n], p, b, FALSE)
    IN  IF HasQuorum(inserted, currBlockId[n])
        THEN /\ chain'[n] = ExecutedChain(inserted, currBlockId[n])
             /\ currBlock'[n] = EmptyBlock(0)
             /\ lastExecuted'[n] = IF currBlock[n].id = NoBlock THEN NoBlock
                                   ELSE Executed(currBlock[n].id, AccountHash)
        ELSE SameChain(n) \/ /\ chain'[n] = inserted
                             /\ currBlock'[n] = currBlock[n]
                             /\ lastExecuted'[n] = lastExecuted[n]

LEMMA ProposedChainStep ==
    ASSUME NEW n, NEW p \in Validator \ {n}, NEW tx \in TxSet, NEW prev,
           prev \in ValidPath(currBlock[n].sequence - 1),
           NEW b, b = Proposed(prev, tx), Sequence(b) = currBlock[n].sequence,
           lastExecuted[n] # NoBlock,
           currBlockId'[n] = currBlockId[n], ProposedChain(n, p, b)
    PROVE  ChainStep(n)
<1> DEFINE id == currBlockId[n]
           inserted == insert(chain[n], p, b, FALSE)
<1>1. AccountHash \in AccHash
  BY AccHashAssumption DEF AccountHash
<1>2. /\ ChainOf(n)!Proposed(prev, tx) = b
      /\ ChainOf(n)!insert(chain[n], p, b, FALSE) = inserted
      /\ ChainOf(n)!Sequence(b) = Sequence(b)
      /\ \A c : ChainOf(n)!HasQuorum(c, id) <=> HasQuorum(c, id)
      /\ ChainOf(n)!EmptyBlock(0) = EmptyBlock(0)
      /\ prev \in ChainOf(n)!ValidPath(currBlock[n].sequence - 1)
      /\ p \in ChainOf(n)!Peer
  <2>1. /\ ChainOf(n)!Proposed(prev, tx) = b
        /\ ChainOf(n)!insert(chain[n], p, b, FALSE) = inserted
        /\ ChainOf(n)!Sequence(b) = Sequence(b)
    BY SameProposed, SameInsert, SameSequence, Zenon
  <2>2. /\ \A c : ChainOf(n)!HasQuorum(c, id) <=> HasQuorum(c, id)
        /\ ChainOf(n)!EmptyBlock(0) = EmptyBlock(0)
    BY SameQuorum, SameEmptyBlock, Zenon
  <2>3. prev \in ChainOf(n)!ValidPath(currBlock[n].sequence - 1)
    BY SameValidPath, Zenon
  <2>4. p \in ChainOf(n)!Peer
    BY DEF ChainOf!Peer
  <2> QED
    BY <2>1, <2>2, <2>3, <2>4, Zenon
<1>3. /\ \A c, acc : ChainOf(n)!assignAccountHashToValidBlock(c, acc)
                        = assignAccountHashToValidBlock(c, acc)
      /\ \A c : ChainOf(n)!SetValidBlock(c, id) = SetValidBlock(c, id)
      /\ \A x : ChainOf(n)!Executed(x, AccountHash) = Executed(x, AccountHash)
  BY SameAssign, SameSetValid, SameExecuted, Zenon
<1>4. CASE SameChain(n)
  BY <1>4, SameChainStep
<1>5. CASE ~ SameChain(n)
  <2>1. ChainOf(n)!PeerProposal(p, b, AccountHash)
    <3>1. CASE HasQuorum(inserted, id)
      BY <1>2, <1>3, <3>1 DEF ChainOf!PeerProposal, ChainOf!Running, ChainOf!Execute,
         ProposedChain, ExecutedChain
    <3>2. CASE ~ HasQuorum(inserted, id)
      BY <1>2, <1>5, <3>2 DEF ChainOf!PeerProposal, ChainOf!Running, ProposedChain
    <3> QED
      BY <3>1, <3>2
  <2>2. ChainOf(n)!Next
    BY <1>1, <1>2, <2>1 DEF ChainOf!Next
  <2> QED
    BY <2>2 DEF ChainStep
<1> QED
  BY <1>4, <1>5

\* What procBlockProposalMessage does with the block of m.
ReceivedStep(n, m) ==
    LET inserted == insert(chain[n], m.from, m.block, FALSE)
        id == currBlockId[n]
    IN  /\ m.from \in Validator \ {n}
        /\ network' = network \ {m}
        /\ UNCHANGED <<round, currBlockId, rounds>>
        /\ \/ chain'[n] = chain[n]
           \/ /\ m.block \in BlockId /\ m.block # Genesis
              /\ Len(m.block) = Len(chain[n].validBlock.id) + 1
              /\ inserted.validBlock = chain[n].validBlock
              /\ ChainState(inserted, currBlock[n], id, lastExecuted[n])
              /\ IF HasQuorum(inserted, id) THEN chain'[n] = ExecutedChain(inserted, id)
                 ELSE chain'[n] = inserted

LEMMA ReceiveBlockStep ==
    ASSUME IInv, NEW n \in Validator, Running(n), NEW m \in network, m.to = n,
           ReceiveBlockProposal(n, m)
    PROVE  NodeStep(n) /\ ReceivedStep(n, m)
<1> DEFINE valid == chain[n].validBlock.id
           b == m.block
           id == currBlockId[n]
           inserted == insert(chain[n], m.from, b, FALSE)
           exe == IF currBlock[n].id = NoBlock THEN NoBlock
                  ELSE Executed(currBlock[n].id, AccountHash)
           d == ExecutedChain(inserted, id)
<1>1. NodeInv(n) /\ EveryNode /\ MessageInv(m)
  BY DEF IInv
<1>2. /\ m.from \in Validator \ {n}
      /\ \E tx \in TxSet : \E prev \in BlockId :
           prev \in ValidPath(Len(prev)) /\ b = Proposed(prev, tx)
  BY <1>1 DEF ReceiveBlockProposal, MessageInv
<1>3. PICK tx \in TxSet, prev \in BlockId : prev \in ValidPath(Len(prev)) /\ b = Proposed(prev, tx)
  BY <1>2
<1>4. /\ b \in BlockId /\ b # Genesis /\ ~ IsExecuted(b)
      /\ Len(prev) \in Nat /\ Len(b) = Len(prev) + 1
  BY <1>3, ProposedLemma DEF BlockId
<1>5. /\ ChainState(chain[n], currBlock[n], id, lastExecuted[n])
      /\ RoundState(round[n], chain[n], currBlock[n])
      /\ Len(valid) \in Nat /\ lastExecuted[n] # NoBlock
      /\ currBlock[n].sequence \in {0, Len(valid) + 1}
      /\ currBlock[n].id \in {NoBlock, id}
  BY <1>1, ValidFacts DEF NodeInv, ChainState, Running
<1>6. /\ network' = network \ {m}
      /\ UNCHANGED <<round, currBlockId, rounds>>
      /\ IF Sequence(b) # currBlock[n].sequence
         THEN UNCHANGED <<chain, currBlock, lastExecuted, txPool>>
         ELSE IF HasQuorum(inserted, id)
         THEN Execute(n, inserted, id, currBlock[n].id)
         ELSE /\ chain' = [chain EXCEPT ![n] = inserted]
              /\ UNCHANGED <<currBlock, lastExecuted, txPool>>
  BY Zenon DEF ReceiveBlockProposal, BlockAskedAbout, executions
<1> HIDE DEF b
<1>7. CASE Sequence(b) # currBlock[n].sequence
  <2>1. UNCHANGED <<chain, currBlock, lastExecuted, txPool>>
    BY <1>6, <1>7
  <2>2. EveryNode' /\ OthersWait(n) /\ NodeInv(n)'
    BY <1>1, <1>6, <2>1 DEF EveryNode, OthersWait, NodeInv
  <2>3. ChainStep(n)
    BY <1>6, <2>1, SameChainStep DEF SameChain
  <2>4. chain'[n] = chain[n]
    BY <2>1
  <2>5. ReceivedStep(n, m)
    BY <1>2, <1>6, <2>4, Zenon DEF ReceivedStep
  <2> QED
    BY <1>6, <2>2, <2>3, <2>5 DEF NodeStep
<1>8. CASE Sequence(b) = currBlock[n].sequence
  <2>1. Len(b) = Len(valid) + 1 /\ Len(prev) = currBlock[n].sequence - 1
    BY <1>4, <1>5, <1>8 DEF Sequence
  <2>2. /\ ChainState(inserted, currBlock[n], id, lastExecuted[n])
        /\ inserted.validBlock = chain[n].validBlock
    <3> DEFINE from == m.from
    <3>1. from \in Validator /\ FALSE \in BOOLEAN
      BY <1>2
    <3>2. Len(b) = Len(chain[n].validBlock.id) + 1
      BY <2>1
    <3>3. b \in BlockId /\ b # Genesis /\ ~ IsExecuted(b)
      BY <1>4
    <3>4. ChainState(chain[n], currBlock[n], id, lastExecuted[n])
      BY <1>5
    <3> HIDE DEF from, id
    <3>5. /\ ChainState(insert(chain[n], from, b, FALSE), currBlock[n], id, lastExecuted[n])
          /\ insert(chain[n], from, b, FALSE).validBlock = chain[n].validBlock
      BY ONLY <3>1, <3>2, <3>3, <3>4, InsertState, ZenonT(60)
    <3> QED
      BY <3>5, Zenon DEF from
  <2> HIDE DEF inserted
  <2>3. CASE HasQuorum(inserted, id)
    <3>1. /\ chain' = [chain EXCEPT ![n] = d]
          /\ currBlock' = [currBlock EXCEPT ![n] = EmptyBlock(0)]
          /\ lastExecuted' = [lastExecuted EXCEPT ![n] = exe]
          /\ txPool' = [txPool EXCEPT ![n] =
                          IF currBlock[n].id = NoBlock THEN txPool[n]
                          ELSE txPool[n] \ currBlock[n].id[Len(currBlock[n].id)].tx]
      <4>1. Execute(n, inserted, id, currBlock[n].id)
        BY <1>6, <1>8, <2>3
      <4> QED
        BY <4>1, Zenon DEF Execute, ExecutedChain
    <3> DEFINE left == IF currBlock[n].id = NoBlock THEN txPool[n]
                       ELSE txPool[n] \ currBlock[n].id[Len(currBlock[n].id)].tx
    <3>2. left \subseteq txPool[n]
      OBVIOUS
    <3>3. txPool' = [txPool EXCEPT ![n] = left]
      BY <3>1, Zenon
    <3>4. /\ ChainState(d, EmptyBlock(0), id, exe)
          /\ d.validBlock.id = Executed(id, AccountHash)
          /\ Len(Executed(id, AccountHash)) = Len(valid) + 1
      <4>1. inserted.validBlock.id = valid
        BY <2>2
      <4> HIDE DEF valid
      <4>2. currBlock[n].id \in {NoBlock, id}
        BY <1>5
      <4> QED
        BY ONLY <2>2, <2>3, <4>1, <4>2, ExecuteState
    <3> HIDE DEF left, d, exe
    <3>5. EveryNode' /\ OthersWait(n)
      <4>1. EveryNode'
        BY <1>1, <1>6, <3>1, <3>3 DEF EveryNode
      <4>2. OthersWait(n)
        BY <1>1, <1>6, <3>1, <3>3 DEF EveryNode, OthersWait
      <4> QED
        BY <4>1, <4>2
    <3>6. /\ chain'[n] = d /\ currBlock'[n] = EmptyBlock(0) /\ lastExecuted'[n] = exe
          /\ txPool'[n] = left /\ round'[n] = round[n] /\ rounds'[n] = rounds[n]
          /\ currBlockId'[n] = id
      BY <1>1, <1>6, <3>1, <3>3 DEF EveryNode
    <3>7. RoundState(round[n], d, EmptyBlock(0))
      BY <1>5, <3>4 DEF RoundState
    <3>8. NodeInv(n)'
      BY <1>1, <3>2, <3>4, <3>6, <3>7 DEF NodeInv
    <3>9. ChainStep(n)
      <4>1. ProposedChain(n, m.from, b)
        BY <2>3, <3>6, Zenon DEF ProposedChain, d, exe, inserted
      <4>2. prev \in ValidPath(currBlock[n].sequence - 1)
        BY <1>3, <2>1
      <4> HIDE DEF valid
      <4> QED
        BY <1>2, <1>3, <1>5, <1>8, <3>6, <4>1, <4>2, ProposedChainStep
    <3>10. NodeStep(n)
      BY <1>6, <3>5, <3>8, <3>9 DEF NodeStep
    <3>11. ReceivedStep(n, m)
      BY <1>2, <1>4, <1>6, <2>1, <2>2, <2>3, <3>6, Zenon
      DEF ReceivedStep, b, id, valid, inserted, d
    <3> QED
      BY <3>10, <3>11
  <2>4. CASE ~ HasQuorum(inserted, id)
    <3>1. /\ chain' = [chain EXCEPT ![n] = inserted]
          /\ UNCHANGED <<currBlock, lastExecuted, txPool>>
      BY <1>6, <1>8, <2>4
    <3>2. EveryNode' /\ OthersWait(n) /\ chain'[n] = inserted
      BY <1>1, <1>6, <3>1 DEF EveryNode, OthersWait
    <3>3. RoundState(round[n], inserted, currBlock[n])
      BY <1>5, <2>2 DEF RoundState
    <3>4. NodeInv(n)'
      BY <1>1, <1>6, <2>2, <3>1, <3>2, <3>3 DEF NodeInv
    <3>5. ChainStep(n)
      <4>1. ProposedChain(n, m.from, b)
        BY <2>4, <3>1, <3>2, Zenon DEF ProposedChain, inserted
      <4>2. prev \in ValidPath(currBlock[n].sequence - 1)
        BY <1>3, <2>1
      <4>3. currBlockId'[n] = currBlockId[n]
        BY <1>6
      <4> HIDE DEF valid
      <4> QED
        BY <1>2, <1>3, <1>5, <1>8, <4>1, <4>2, <4>3, ProposedChainStep
    <3>6. NodeStep(n)
      BY <1>6, <3>2, <3>4, <3>5 DEF NodeStep
    <3>7. ReceivedStep(n, m)
      BY <1>2, <1>4, <1>6, <2>1, <2>2, <2>4, <3>2, Zenon
      DEF ReceivedStep, b, id, valid, inserted
    <3> QED
      BY <3>6, <3>7
  <2> QED
    BY <2>3, <2>4
<1> QED
  BY <1>7, <1>8

\* A tick of the establish phase.
LEMMA EstablishStep ==
    ASSUME IInv, NEW n \in Validator, NEW stale \in SUBSET DOMAIN round[n].currPeerProposals,
           NEW staleSets, NEW converge \in Stage, Establish(n, stale, staleSets, converge)
    PROVE  NodeStep(n)
<1> DEFINE r == updateProposals(round[n], stale, staleSets, converge)
<1>1. /\ Awake(n) /\ OnPreferred(n) /\ round[n].phase = "ESTABLISH"
      /\ UpdateProposals(n, r) \/ AcceptBlock(n, r)
  BY Zenon DEF Establish
<1>2. \E s : s = r
  OBVIOUS
<1> HIDE DEF r
<1>3. PICK s : s = r
  BY <1>2
<1>4. s = updateProposals(round[n], stale, staleSets, converge)
  BY <1>3, Zenon DEF r
<1>5. UpdateProposals(n, s) \/ AcceptBlock(n, s)
  BY <1>1, <1>3, Zenon
<1> QED
  BY <1>1, <1>4, <1>5, UpdateStep, AcceptBlockStep DEF Awake

\* Every step of the network is a step of one node.
LEMMA EveryStep ==
    ASSUME IInv, [Next]_vars
    PROVE  /\ IInv'
           /\ \A m \in Validator : ChainStep(m)
<1>1. CASE UNCHANGED vars
  <2>1. IInv'
    BY <1>1 DEF vars, IInv, EveryNode, NodeInv
  <2>2. \A m \in Validator : SameChain(m)
    BY <1>1 DEF vars, SameChain
  <2> QED
    BY <2>1, <2>2, SameChainStep
<1>2. CASE Next
  <2>1. PICK n \in Validator :
          \/ \E tx \in Tx : AddTransaction(n, tx)
          \/ BeginRound(n)
          \/ CloseBlock(n)
          \/ \E stale \in Expired(DOMAIN round[n].currPeerProposals),
                staleSets \in Expired(DOMAIN round[n].acquiredSets), converge \in Stage :
                  Establish(n, stale, staleSets, converge)
          \/ Receive(n)
    BY <1>2 DEF Next
  <2>2. NodeStep(n)
    <3>1. CASE \E tx \in Tx : AddTransaction(n, tx)
      BY <3>1, AddTransactionStep
    <3>2. CASE BeginRound(n)
      BY <3>2, BeginRoundStep
    <3>3. CASE CloseBlock(n)
      BY <3>3, CloseBlockStep
    <3>4. ASSUME NEW stale \in Expired(DOMAIN round[n].currPeerProposals),
                 NEW staleSets \in Expired(DOMAIN round[n].acquiredSets), NEW converge \in Stage,
                 Establish(n, stale, staleSets, converge)
          PROVE  NodeStep(n)
      <4>1. stale \in SUBSET DOMAIN round[n].currPeerProposals
        BY DEF Expired
      <4> QED
        BY <3>4, <4>1, EstablishStep
    <3>5. CASE Receive(n)
      <4>1. PICK m \in network : /\ m.to = n
                                 /\ ReceiveTxSetProposal(n, m) \/ ReceiveBlockProposal(n, m)
        BY <3>5 DEF Receive
      <4> QED
        BY <3>5, <4>1, ReceiveTxSetStep, ReceiveBlockStep DEF Receive
    <3> QED
      BY <2>1, <3>1, <3>2, <3>3, <3>4, <3>5
  <2> QED
    BY <2>2, OthersStep
<1> QED
  BY <1>1, <1>2

LEMMA InitInv == Init => IInv
<1> SUFFICES ASSUME Init PROVE IInv
  OBVIOUS
<1>1. EveryNode
  BY DEF Init, EveryNode
<1>2. ASSUME NEW n \in Validator PROVE NodeInv(n)
  <2>1. /\ round[n] = NewRound(Genesis) /\ chain[n] = NewChain
        /\ currBlock[n] = EmptyBlock(0) /\ currBlockId[n] = NoBlock
        /\ lastExecuted[n] = Genesis /\ txPool[n] = {} /\ rounds[n] = 0
    BY DEF Init
  <2>2. 0 \in 0 .. MaxRounds
    BY BoundsAssumption
  <2> QED
    BY <2>1, <2>2, InitState DEF NodeInv
<1>3. network = {}
  BY DEF Init
<1> QED
  BY <1>1, <1>2, <1>3 DEF IInv

LEMMA Inductive == Spec => []IInv
<1>1. IInv /\ [Next]_vars => IInv'
  BY EveryStep
<1> QED
  BY InitInv, <1>1, PTL DEF Spec

-----------------------------------------------------------------------------
(***************************************************************************)
(* What executeBlock stores.                                               *)
(***************************************************************************)
\* The block that is stored when b is executed.
StoredAs(b) == IF b = Genesis THEN Genesis ELSE Executed(Rest(b), AccountHash)

StoredInv ==
    /\ DOMAIN lastStored = Validator
    /\ \A n \in Validator :
         /\ lastStored[n] \in BlockId
         /\ Running(n) => lastStored[n] = StoredAs(lastExecuted[n])

\* A block keeps its transactions under the id that has the account hash.
LEMMA RestFacts ==
    ASSUME NEW b \in BlockId, b # Genesis
    PROVE  /\ Executed(b, AccountHash) \in BlockId /\ Executed(b, AccountHash) # Genesis
           /\ Executed(Rest(b), AccountHash) \in BlockId
           /\ StoredAs(Executed(b, AccountHash)) = Executed(Rest(b), AccountHash)
<1> DEFINE e == Executed(b, AccountHash)
<1>1. AccountHash \in AccHash
  BY AccHashAssumption DEF AccountHash
<1>2. /\ e \in BlockId /\ e # Genesis /\ Len(e) = Len(b) /\ Prev(e) = Prev(b)
      /\ Prev(b) \in BlockId /\ Len(b) \in Nat /\ Len(b) > 0 /\ Len(Prev(b)) = Len(b) - 1
  BY <1>1, ExecutedLemma, PrevLemma
<1>3. e = Append(Prev(b), [tx |-> b[Len(b)].tx, acc |-> AccountHash])
  BY DEF Executed
<1>4. e[Len(e)].tx = b[Len(b)].tx
  BY <1>2, <1>3 DEF BlockId
<1> HIDE DEF e
<1>5. Rest(e) = Rest(b)
  BY <1>2, <1>4 DEF Rest
<1>6. Rest(b) \in BlockId /\ Rest(b) # Genesis
  <2> DEFINE left == b[Len(b)].tx \ Dropped(Prev(b), b[Len(b)].tx)
  <2>1. b[Len(b)].tx \in TxSet
    <3>1. b[Len(b)] \in Entry
      BY <1>2 DEF BlockId
    <3> QED
      BY <3>1 DEF Entry
  <2>2. left \in TxSet
    BY <2>1, TxSetFacts
  <2> HIDE DEF left
  <2>3. Proposed(Prev(b), left) \in BlockId /\ Proposed(Prev(b), left) # Genesis
    BY <1>2, <2>2, ProposedLemma
  <2> QED
    BY <2>3, Zenon DEF Rest, left
<1>7. Executed(Rest(b), AccountHash) \in BlockId
  BY <1>1, <1>6, ExecutedLemma
<1> QED
  BY <1>2, <1>5, <1>7, Zenon DEF StoredAs, e

LEMMA ExecuteStored ==
    ASSUME IInv, StoredInv, NEW n \in Validator, NEW c, NEW id, NEW block,
           block # NoBlock => block \in BlockId /\ block # Genesis,
           Execute(n, c, id, block)
    PROVE  StoredInv'
<1>1. DOMAIN lastExecuted = Validator /\ DOMAIN lastStored = Validator
  BY DEF IInv, EveryNode, StoredInv
<1>2. ASSUME NEW m \in Validator \ {n} PROVE /\ lastExecuted'[m] = lastExecuted[m]
                                            /\ lastStored'[m] = lastStored[m]
  BY <1>1 DEF Execute
<1>3. CASE block = NoBlock
  <2>1. lastExecuted'[n] = NoBlock /\ lastStored'[n] = lastStored[n]
    BY <1>1, <1>3 DEF Execute
  <2>2. DOMAIN lastStored' = Validator
    BY <1>1 DEF Execute
  <2> QED
    BY <1>2, <2>1, <2>2 DEF StoredInv, Running
<1>4. CASE block # NoBlock
  <2>1. /\ lastExecuted'[n] = Executed(block, AccountHash)
        /\ lastStored'[n] = Executed(Rest(block), AccountHash)
    BY <1>1, <1>4 DEF Execute
  <2>2. DOMAIN lastStored' = Validator
    BY <1>1 DEF Execute
  <2>3. /\ Executed(Rest(block), AccountHash) \in BlockId
        /\ StoredAs(Executed(block, AccountHash)) = Executed(Rest(block), AccountHash)
    BY <1>4, RestFacts
  <2>4. \A m \in Validator :
          /\ lastStored'[m] \in BlockId
          /\ lastExecuted'[m] # NoBlock => lastStored'[m] = StoredAs(lastExecuted'[m])
    BY <1>2, <2>1, <2>3 DEF StoredInv, Running
  <2> QED
    BY <2>2, <2>4 DEF StoredInv, Running
<1> QED
  BY <1>3, <1>4

LEMMA StoredStep ==
    ASSUME IInv, IInv', StoredInv, [Next]_vars
    PROVE  StoredInv'
<1>1. CASE UNCHANGED executions
  BY <1>1 DEF executions, StoredInv, Running
<1>2. ASSUME NEW n \in Validator, NEW r, AcceptBlock(n, r) PROVE StoredInv'
  <2> DEFINE b == Proposed(r.prevBlockId, r.txns)
  <2>1. currBlockId' = [currBlockId EXCEPT ![n] = b]
    BY <1>2, Zenon DEF AcceptBlock
  <2>2. \/ UNCHANGED executions
        \/ Execute(n, insert(chain[n], n, b, TRUE), b, b)
    BY <1>2, Zenon DEF AcceptBlock, executions
  <2> HIDE DEF b
  <2>3. currBlockId'[n] = b
    BY <2>1 DEF IInv, EveryNode
  <2>4. b # NoBlock => b \in BlockId /\ b # Genesis
    BY <2>3 DEF IInv, NodeInv, ChainState
  <2> QED
    BY <1>1, <2>2, <2>4, ExecuteStored
<1>3. ASSUME NEW n \in Validator, NEW m, ReceiveBlockProposal(n, m) PROVE StoredInv'
  <2> DEFINE block == currBlock[n].id
             inserted == insert(chain[n], m.from, m.block, FALSE)
  <2>1. \/ UNCHANGED executions
        \/ Execute(n, inserted, BlockAskedAbout(n, m), block)
    BY <1>3, Zenon DEF ReceiveBlockProposal, executions
  <2>2. block # NoBlock => block \in BlockId /\ block # Genesis
    BY DEF IInv, NodeInv, ChainState
  <2> HIDE DEF block, inserted
  <2> QED
    BY <1>1, <2>1, <2>2, ExecuteStored
<1>4. CASE UNCHANGED vars
  BY <1>1, <1>4 DEF vars, executions
<1>5. CASE Next
  <2>1. PICK n \in Validator :
          \/ \E tx \in Tx : AddTransaction(n, tx)
          \/ BeginRound(n)
          \/ CloseBlock(n)
          \/ \E stale \in Expired(DOMAIN round[n].currPeerProposals),
                staleSets \in Expired(DOMAIN round[n].acquiredSets), converge \in Stage :
                  Establish(n, stale, staleSets, converge)
          \/ Receive(n)
    BY <1>5 DEF Next
  <2>2. CASE \E tx \in Tx : AddTransaction(n, tx)
    BY <1>1, <2>2 DEF AddTransaction
  <2>3. CASE BeginRound(n)
    BY <1>1, <2>3 DEF BeginRound
  <2>4. CASE CloseBlock(n)
    BY <1>1, <2>4 DEF CloseBlock
  <2>5. ASSUME NEW stale, NEW staleSets, NEW converge,
               Establish(n, stale, staleSets, converge)
        PROVE  StoredInv'
    <3>1. \E r : UpdateProposals(n, r) \/ AcceptBlock(n, r)
      BY <2>5, Zenon DEF Establish
    <3>2. ASSUME NEW r, UpdateProposals(n, r) PROVE StoredInv'
      BY <1>1, <3>2 DEF UpdateProposals
    <3> QED
      BY <1>2, <3>1, <3>2
  <2>6. CASE Receive(n)
    <3>1. PICK m : ReceiveTxSetProposal(n, m) \/ ReceiveBlockProposal(n, m)
      BY <2>6 DEF Receive
    <3>2. ReceiveTxSetProposal(n, m) => UNCHANGED executions
      BY DEF ReceiveTxSetProposal
    <3> QED
      BY <1>1, <1>3, <3>1, <3>2
  <2> QED
    BY <2>1, <2>2, <2>3, <2>4, <2>5, <2>6
<1> QED
  BY <1>4, <1>5

LEMMA StoredInvariance == Spec => []StoredInv
<1>1. Init => StoredInv
  BY DEF Init, StoredInv, StoredAs, BlockId, Genesis
<1>2. IInv /\ IInv' /\ StoredInv /\ [Next]_vars => StoredInv'
  BY StoredStep
<1> QED
  BY Inductive, <1>1, <1>2, PTL DEF Spec

-----------------------------------------------------------------------------
(***************************************************************************)
(* The theorems.                                                           *)
(***************************************************************************)
\* The state of every node keeps its type, however many nodes there are and in
\* whatever order their proposals arrive.
THEOREM NetworkTypeCorrect == Spec => []TypeOK
<1>1. IInv /\ StoredInv => TypeOK
  <2> SUFFICES ASSUME IInv, StoredInv, NEW n \in Validator
               PROVE  /\ IsRound(round[n])
                      /\ IsChain(chain[n])
                      /\ currBlock[n] \in [sequence : Nat, id : BlockId \union {NoBlock}]
                      /\ currBlockId[n] \in BlockId \union {NoBlock}
                      /\ lastExecuted[n] \in BlockId \union {NoBlock}
                      /\ lastStored[n] \in BlockId
                      /\ txPool[n] \subseteq Tx
                      /\ rounds[n] \in 0 .. MaxRounds
    BY DEF TypeOK
  <2> QED
    BY DEF IInv, NodeInv, ChainState, ChainInv, RoundState, RoundInv, StoredInv
<1> QED
  BY Inductive, StoredInvariance, <1>1, PTL

\* In a network of nodes that exchange proposals, the chain of every node makes
\* the steps of module Chain and no others: what a peer proposes there at any
\* time is all that the rounds of Consensus.cpp can make a peer propose, and
\* onAccept builds on the valid block and on nothing else.
THEOREM NodesImplementChain == Spec => ImplementsChain
<1>1. Init => \A n \in Validator : ChainOf(n)!Init
  <2> SUFFICES ASSUME Init, NEW n \in Validator
               PROVE  ChainOf(n)!Init
    OBVIOUS
  <2>1. /\ chain[n] = NewChain /\ currBlock[n] = EmptyBlock(0)
        /\ currBlockId[n] = NoBlock /\ lastExecuted[n] = Genesis
    BY DEF Init
  <2>2. /\ ChainOf(n)!NewChain = NewChain /\ ChainOf(n)!EmptyBlock(0) = EmptyBlock(0)
        /\ ChainOf(n)!Genesis = Genesis
    BY SameNewChain, SameEmptyBlock, SameGenesis, Zenon
  <2> QED
    BY <2>1, <2>2, Zenon DEF ChainOf!Init
<1>2. IInv /\ [Next]_vars => [\A n \in Validator : [ChainOf(n)!Next]_(ChainOf(n)!vars)]_vars
  BY EveryStep DEF ChainStep
<1> QED
  BY Inductive, <1>1, <1>2, PTL DEF Spec, ImplementsChain

\* The block a node hands to executeBlock is the one that became valid and no
\* other, as long as it runs, and the block it stores is what execution left of
\* that one: between the vote on one block and the quorum on another, currBlock_
\* and currBlockId_ never name different blocks that are both used.
THEOREM ExecutedIsValid == Spec => []ExecutedBlockIsValidBlock
<1>1. IInv /\ StoredInv => ExecutedBlockIsValidBlock
  <2> SUFFICES ASSUME IInv, StoredInv, NEW n \in Validator, Running(n)
               PROVE  /\ lastExecuted[n] = ValidBlock(n)
                      /\ lastStored[n] = IF ValidBlock(n) = Genesis THEN Genesis
                                         ELSE Executed(Rest(ValidBlock(n)), AccountHash)
    BY DEF ExecutedBlockIsValidBlock
  <2>1. lastExecuted[n] = ValidBlock(n)
    BY DEF IInv, NodeInv, ChainState, Running, ValidBlock
  <2>2. lastStored[n] = StoredAs(ValidBlock(n))
    BY <2>1 DEF StoredInv
  <2> QED
    BY <2>1, <2>2 DEF StoredAs
<1> QED
  BY Inductive, StoredInvariance, <1>1, PTL

\* The vote a node casts on a disputed transaction says whether that one is in
\* the set it proposes, through every closeBlock, gotTxSet and updateProposals,
\* if no two transactions share a sender and sequence number (as those of one
\* wallet do not): a set is searched by the two alone.
THEOREM VotesMatchSets ==
    ASSUME SlotsDiffer
    PROVE  Spec => []OurVotesMatchOurSet
<1>1. IInv => OurVotesMatchOurSet
  <2> SUFFICES ASSUME IInv, NEW n \in Validator, NEW t \in DOMAIN round[n].disputes
               PROVE  round[n].disputes[t].ourVote <=> t \in round[n].txns
    BY DEF OurVotesMatchOurSet
  <2>1. RoundInv(round[n]) /\ VotesAgree(round[n])
    BY SlotsDiffer DEF IInv, NodeInv, RoundState
  <2>2. t \in Tx /\ round[n].txns \subseteq Tx
    BY <2>1, TxSetFacts DEF RoundInv, IsRound
  <2>3. exists(round[n].txns, t) <=> t \in round[n].txns
    BY <2>2, SlotsDiffer DEF exists, SlotsDiffer
  <2> QED
    BY <2>1, <2>3 DEF VotesAgree
<1> QED
  BY Inductive, <1>1, PTL

-----------------------------------------------------------------------------
(***************************************************************************)
(* Who accepted the valid blocks (module ConsensusVotes): what a node has  *)
(* heard of its peers are the blocks they accepted whose proposal to it is *)
(* no longer on its way.                                                   *)
(***************************************************************************)
Others(n) == Validator \ {n}

Proposal(p, n, x, k) ==
    [type |-> "BLOCKPROPOSAL", from |-> p, to |-> n, round |-> k, block |-> x]

Heard(n) ==
    [p \in Others(n) |->
       {x \in BlockId : \E k \in Nat : /\ <<x, k>> \in accepted[p]
                                       /\ Proposal(p, n, x, k) \notin network}]

VotedOn(n) == Len(chain[n].validBlock.id) + 1

\* In one round a node accepts one block.
OncePerRound(n) ==
    \A a \in accepted[n] : \E x \in BlockId, k \in Nat :
        /\ a = <<x, k>>
        /\ k <= rounds[n]
        /\ round[n].phase = "ESTABLISH" => k < rounds[n]

ProposalsAccepted ==
    \A m \in network :
        m.type = "BLOCKPROPOSAL" =>
            /\ m = Proposal(m.from, m.to, m.block, m.round)
            /\ <<m.block, m.round>> \in accepted[m.from]

AcceptedBy(acc, m, x) == \E a \in acc[m] : a[1] = x

RepeatedIn(acc, seq) ==
    \E n \in Validator : \E a, b \in acc[n] :
        a # b /\ Sequence(a[1]) = seq /\ Sequence(b[1]) = seq

\* The block x of sequence i may be valid: all nodes accepted it.
BackedByAll(acc, i, x) ==
    \/ UNLcount > 1 /\ RepeatedIn(acc, i)
    \/ \A m \in Validator : AcceptedBy(acc, m, x)

PathBacked(acc, v) ==
    \A i \in 1 .. Len(v) :
        BackedByAll(acc, i, Proposed(Prev(SubSeq(v, 1, i)), SubSeq(v, 1, i)[i].tx))

VotesInv(n) ==
    /\ OncePerRound(n)
    /\ currBlockId[n] # NoBlock /\ UNLcount > 0 => AcceptedBy(accepted, n, currBlockId[n])
    /\ VotesCounted(chain[n], Others(n), Heard(n), RepeatedIn(accepted, VotedOn(n)))
    /\ PathBacked(accepted, chain[n].validBlock.id)

VotesIInv ==
    /\ IInv
    /\ DOMAIN accepted = Validator
    /\ ProposalsAccepted
    /\ \A n \in Validator : VotesInv(n)

LEMMA OthersFacts ==
    ASSUME NEW n \in Validator
    PROVE  /\ Others(n) \in SUBSET Validator /\ IsFiniteSet(Others(n)) /\ n \notin Others(n)
           /\ UNLcount \in Nat /\ Cardinality(Others(n)) = UNLcount
           /\ UNLcount > 0 <=> Others(n) # {}
<1>1. /\ Others(n) \in SUBSET Validator /\ IsFiniteSet(Others(n)) /\ n \notin Others(n)
  BY ValidatorAssumption, FS_Subset DEF Others
<1>2. Cardinality(Others(n)) = Cardinality(Validator) - 1
  BY ValidatorAssumption, FS_RemoveElement DEF Others
<1>3. Cardinality(Others(n)) \in Nat /\ (Cardinality(Others(n)) = 0 <=> Others(n) = {})
  BY <1>1, FS_CardinalityType, FS_EmptySet
<1>4. UNLcount = Cardinality(Others(n))
  BY <1>2 DEF UNLcount
<1> QED
  BY <1>1, <1>3, <1>4

\* The property, in the words of the invariant.
LEMMA BackedIsAccepted ==
    ASSUME IInv
    PROVE  (\A n \in Validator : PathBacked(accepted, chain[n].validBlock.id))
             => ValidBlocksWereAcceptedByAll
<1> SUFFICES ASSUME \A n \in Validator : PathBacked(accepted, chain[n].validBlock.id),
                    NEW n \in Validator, NEW m \in Validator,
                    NEW i \in 1 .. Len(ValidBlock(n))
             PROVE  \/ UNLcount > 1 /\ Repeated(i)
                    \/ \E a \in accepted[m] :
                         a[1] = Proposed(Prev(SubSeq(ValidBlock(n), 1, i)),
                                         SubSeq(ValidBlock(n), 1, i)[i].tx)
  BY Zenon DEF ValidBlocksWereAcceptedByAll
<1> DEFINE x == Proposed(Prev(SubSeq(ValidBlock(n), 1, i)), SubSeq(ValidBlock(n), 1, i)[i].tx)
<1>1. BackedByAll(accepted, i, x)
  BY Zenon DEF PathBacked, ValidBlock
<1> HIDE DEF x
<1>2. (UNLcount > 1 /\ Repeated(i)) \/ \E a \in accepted[m] : a[1] = x
  BY <1>1 DEF BackedByAll, AcceptedBy, RepeatedIn, Repeated
<1> QED
  BY <1>2 DEF x

\* What every step does to the accepted blocks and to the proposals: more are
\* accepted, and what was received once is not on its way again.
Grows ==
    /\ \A p \in Validator : accepted[p] \subseteq accepted'[p]
    /\ \A p, n \in Validator : \A x \in BlockId : \A k \in Nat :
         <<x, k>> \in accepted[p] /\ Proposal(p, n, x, k) \notin network =>
             Proposal(p, n, x, k) \notin network'

LEMMA GrowsLemma ==
    ASSUME Grows, NEW n \in Validator
    PROVE  /\ \A p \in Others(n) : \A x \in BlockId : x \in Heard(n)[p] => x \in Heard(n)'[p]
           /\ \A i : RepeatedIn(accepted, i) => RepeatedIn(accepted', i)
           /\ \A m \in Validator : \A x : AcceptedBy(accepted, m, x) => AcceptedBy(accepted', m, x)
<1>1. ASSUME NEW p \in Others(n), NEW x \in BlockId, x \in Heard(n)[p]
      PROVE  x \in Heard(n)'[p]
  <2>1. p \in Validator
    BY DEF Others
  <2>2. PICK k \in Nat : <<x, k>> \in accepted[p] /\ Proposal(p, n, x, k) \notin network
    BY <1>1 DEF Heard
  <2>3. <<x, k>> \in accepted'[p] /\ Proposal(p, n, x, k) \notin network'
    BY <2>1, <2>2 DEF Grows
  <2> QED
    BY <2>3 DEF Heard
<1>2. \A i : RepeatedIn(accepted, i) => RepeatedIn(accepted', i)
  BY DEF Grows, RepeatedIn
<1>3. \A m \in Validator : \A x : AcceptedBy(accepted, m, x) => AcceptedBy(accepted', m, x)
  BY DEF Grows, AcceptedBy
<1> QED
  BY <1>1, <1>2, <1>3

LEMMA PathStaysBacked ==
    ASSUME Grows, NEW v, PathBacked(accepted, v)
    PROVE  PathBacked(accepted', v)
<1>1. ASSUME NEW i, NEW x, BackedByAll(accepted, i, x) PROVE BackedByAll(accepted', i, x)
  <2>1. /\ RepeatedIn(accepted, i) => RepeatedIn(accepted', i)
        /\ \A m \in Validator : AcceptedBy(accepted, m, x) => AcceptedBy(accepted', m, x)
    BY DEF Grows, RepeatedIn, AcceptedBy
  <2> QED
    BY <1>1, <2>1 DEF BackedByAll
<1> QED
  BY <1>1 DEF PathBacked

\* A node whose chain a step leaves alone.
LEMMA BystanderVotes ==
    ASSUME VotesIInv, Grows, NEW n \in Validator, chain'[n] = chain[n],
           currBlockId'[n] = currBlockId[n], OncePerRound(n)'
    PROVE  VotesInv(n)'
<1>1. VotesInv(n) /\ IsChain(chain[n])
  BY DEF VotesIInv, IInv, NodeInv, ChainState, ChainInv
<1> DEFINE c == chain[n]
           P == Others(n)
           heard == Heard(n)
           hears == Heard(n)'
           before == RepeatedIn(accepted, VotedOn(n))
           after == RepeatedIn(accepted', VotedOn(n))
<1>2. /\ before \in BOOLEAN /\ after \in BOOLEAN /\ (before => after)
      /\ \A p \in P : \A x \in BlockId : x \in heard[p] => x \in hears[p]
      /\ IsChain(c) /\ VotesCounted(c, P, heard, before)
      /\ IsFiniteSet(P)
  <2>1. before \in BOOLEAN /\ after \in BOOLEAN
    BY DEF RepeatedIn
  <2>2. /\ before => after
        /\ \A p \in P : \A x \in BlockId : x \in heard[p] => x \in hears[p]
    BY GrowsLemma
  <2>3. IsChain(c) /\ VotesCounted(c, P, heard, before)
    BY <1>1 DEF VotesInv
  <2> QED
    BY <2>1, <2>2, <2>3, OthersFacts
<1>3. VotedOn(n)' = VotedOn(n)
  BY DEF VotedOn
<1> HIDE DEF c, P, heard, hears, before, after
<1>4. VotesCounted(c, P, hears, after)
  BY <1>2, MoreVotes
<1>5. VotesCounted(chain'[n], Others(n), Heard(n)', RepeatedIn(accepted', VotedOn(n)'))
  BY <1>3, <1>4, Zenon DEF c, P, hears, after
<1>6. PathBacked(accepted', chain'[n].validBlock.id)
  BY <1>1, PathStaysBacked DEF VotesInv
<1>7. currBlockId'[n] # NoBlock /\ UNLcount > 0 => AcceptedBy(accepted', n, currBlockId'[n])
  BY <1>1, GrowsLemma DEF VotesInv
<1> QED
  BY <1>5, <1>6, <1>7, Zenon DEF VotesInv, Others

\* How VotesNext records the accepted blocks.
Shared(n) == {m \in network' \ network : m.type = "BLOCKPROPOSAL" /\ m.from = n}

Records ==
    accepted' = [n \in Validator |->
                   accepted[n] \union {<<m.block, m.round>> : m \in Shared(n)}]

\* A step of node n that touches neither its chain nor the block proposals.
Quiet(n) ==
    /\ chain'[n] = chain[n] /\ currBlockId'[n] = currBlockId[n]
    /\ \A m \in network' : m.type = "BLOCKPROPOSAL" => m \in network
    /\ rounds'[n] \in Nat /\ rounds[n] \in Nat
    /\ \/ /\ rounds'[n] = rounds[n]
          /\ round'[n].phase = "ESTABLISH" => round[n].phase = "ESTABLISH"
       \/ rounds'[n] > rounds[n]

LEMMA QuietVotes ==
    ASSUME VotesIInv, IInv', Records, NEW n \in Validator, OthersWait(n), Quiet(n)
    PROVE  VotesIInv'
<1>1. DOMAIN accepted = Validator
  BY DEF VotesIInv
<1>2. \A p \in Validator : accepted'[p] = accepted[p]
  <2>1. \A p : Shared(p) = {}
    BY DEF Quiet, Shared
  <2> QED
    BY <2>1 DEF Records
<1>3. Grows
  BY <1>2 DEF Quiet, Grows, Proposal
<1>4. DOMAIN accepted' = Validator
  BY DEF Records
<1>5. ProposalsAccepted'
  <2>1. \A m \in network : m.type = "BLOCKPROPOSAL" => m.from \in Validator
    BY DEF VotesIInv, IInv, MessageInv
  <2> QED
    BY <1>2, <2>1 DEF VotesIInv, ProposalsAccepted, Quiet
<1>6. ASSUME NEW p \in Validator PROVE VotesInv(p)'
  <2>1. OncePerRound(p)
    BY DEF VotesIInv, VotesInv
  <2>2. chain'[p] = chain[p] /\ currBlockId'[p] = currBlockId[p]
    BY DEF Quiet, OthersWait
  <2>3. OncePerRound(p)'
    <3>1. CASE p = n
      BY <1>2, <2>1, <3>1 DEF OncePerRound, Quiet
    <3>2. CASE p # n
      BY <1>2, <2>1, <3>2 DEF OncePerRound, OthersWait
    <3> QED
      BY <3>1, <3>2
  <2> QED
    BY <1>3, <2>2, <2>3, BystanderVotes
<1> QED
  BY <1>4, <1>5, <1>6 DEF VotesIInv

\* A block is executed on its quorum.  All the peers proposed it: with at most
\* five of them, more than 80 % of them are all.
LEMMA EveryoneVoted ==
    ASSUME UNLcount <= 5, NEW n \in Validator, NEW c, ChainInv(c), NEW heard, NEW again \in BOOLEAN,
           VotesCounted(c, Others(n), heard, again), NEW id, HasQuorum(c, id),
           Len(id) = Len(c.validBlock.id) + 1
    PROVE  /\ UNLcount > 0
           /\ (UNLcount > 1 /\ again) \/ \A p \in Others(n) : id \in heard[p]
<1> DEFINE P == Others(n)
           V == Voters(P, heard, id)
<1>1. P \in SUBSET Validator /\ IsFiniteSet(P) /\ UNLcount \in Nat /\ Cardinality(P) = UNLcount
      /\ (UNLcount > 0 <=> P # {})
  BY OthersFacts
<1>2. V # {} /\ (again \/ 10 * Cardinality(V) > 8 * UNLcount)
  BY <1>1, QuorumVotes
<1>3. V \subseteq P
  BY DEF Voters
<1>4. IsFiniteSet(V) /\ Cardinality(V) \in Nat /\ Cardinality(V) <= UNLcount
      /\ (Cardinality(V) = 0 <=> V = {})
  BY <1>1, <1>3, FS_Subset, FS_CardinalityType, FS_EmptySet
<1>5. Cardinality(V) = UNLcount => V = P
  BY <1>1, <1>3, FS_Subset
<1>6. (UNLcount > 1 /\ again) \/ V = P
  BY <1>1, <1>2, <1>4, <1>5
<1>7. V = P => \A p \in P : id \in heard[p]
  BY DEF Voters
<1> QED
  BY <1>1, <1>2, <1>3, <1>6, <1>7

LEMMA PathGrows ==
    ASSUME NEW acc, NEW v, PathBacked(acc, v), NEW id \in BlockId, id # Genesis, ~ IsExecuted(id),
           v = Prev(id), NEW hash \in AccHash, BackedByAll(acc, Len(id), id)
    PROVE  PathBacked(acc, Executed(id, hash))
<1> DEFINE new == Executed(id, hash)
           Block(w, i) == Proposed(Prev(SubSeq(w, 1, i)), SubSeq(w, 1, i)[i].tx)
<1>1. /\ Len(v) \in Nat /\ Len(new) = Len(v) + 1 /\ Len(id) = Len(v) + 1
      /\ \A i \in 1 .. Len(v) : SubSeq(new, 1, i) = SubSeq(v, 1, i)
      /\ SubSeq(new, 1, Len(new)) = new
      /\ Proposed(Prev(new), new[Len(new)].tx) = id
  BY PathLemma
<1> HIDE DEF new
<1>2. ASSUME NEW i \in 1 .. Len(v) PROVE BackedByAll(acc, i, Block(new, i))
  <2>1. Block(new, i) = Block(v, i)
    BY <1>1
  <2>2. BackedByAll(acc, i, Block(v, i))
    BY DEF PathBacked
  <2> HIDE DEF Block
  <2> QED
    BY <2>1, <2>2
<1>3. BackedByAll(acc, Len(new), Block(new, Len(new)))
  <2>1. Block(new, Len(new)) = id /\ Len(new) = Len(id)
    BY <1>1
  <2> HIDE DEF Block
  <2> QED
    BY <2>1
<1>4. \A i \in 1 .. Len(new) : i \in 1 .. Len(v) \/ i = Len(new)
  BY <1>1
<1>5. PathBacked(acc, new)
  BY <1>2, <1>3, <1>4 DEF PathBacked
<1> QED
  BY <1>5 DEF new

\* What the chain of node n becomes when id has its quorum, in the inserted chain c.
LEMMA ExecutedVotesOfAll ==
    ASSUME UNLcount <= 5, NEW n \in Validator, NEW c, NEW cb, NEW id, NEW last,
           ChainState(c, cb, id, last), HasQuorum(c, id),
           NEW heard, NEW again \in BOOLEAN, VotesCounted(c, Others(n), heard, again),
           NEW acc, again => RepeatedIn(acc, Len(id)),
           \A p \in Others(n) : id \in heard[p] => AcceptedBy(acc, p, id),
           UNLcount > 0 => AcceptedBy(acc, n, id),
           PathBacked(acc, c.validBlock.id)
    PROVE  /\ PathBacked(acc, ExecutedChain(c, id).validBlock.id)
           /\ \A u, a : VotesCounted(ExecutedChain(c, id), Others(n), u, a)
<1>1. AccountHash \in AccHash
  BY AccHashAssumption DEF AccountHash
<1>2. NoBlock \in {NoBlock, id}
  OBVIOUS
<1>3. /\ ExecutedChain(c, id).validBlock.id = Executed(id, AccountHash)
      /\ Prev(id) = c.validBlock.id /\ id \in BlockId /\ id # Genesis /\ ~ IsExecuted(id)
  BY <1>2, ExecuteState
<1>4. Len(id) = Len(c.validBlock.id) + 1 /\ id \in DOMAIN c.ch /\ ChainInv(c)
  BY <1>3, PrevLemma DEF HasQuorum, ChainState
<1>5. /\ UNLcount > 0
      /\ (UNLcount > 1 /\ again) \/ \A p \in Others(n) : id \in heard[p]
  BY <1>4, EveryoneVoted
<1>6. BackedByAll(acc, Len(id), id)
  BY <1>5 DEF BackedByAll, Others
<1>7. PathBacked(acc, Executed(id, AccountHash))
  BY <1>1, <1>3, <1>6, PathGrows
<1>8. \A u, a : VotesCounted(ExecutedChain(c, id), Others(n), u, a)
  BY <1>1, <1>3, <1>4, ExecutedVotes DEF ExecutedChain
<1> QED
  BY <1>3, <1>7, <1>8

\* The chain of node n became c, or c with the block accepted last executed.
LEMMA NodeVotes ==
    ASSUME UNLcount <= 5, VotesIInv, Grows, NEW n \in Validator,
           NEW c, NEW cb, NEW id, NEW last, ChainState(c, cb, id, last),
           c.validBlock = chain[n].validBlock,
           VotesCounted(c, Others(n), Heard(n)', RepeatedIn(accepted', VotedOn(n))),
           currBlockId'[n] = id,
           id # NoBlock /\ UNLcount > 0 => AcceptedBy(accepted', n, id),
           OncePerRound(n)',
           IF HasQuorum(c, id) THEN chain'[n] = ExecutedChain(c, id) ELSE chain'[n] = c
    PROVE  VotesInv(n)'
<1> DEFINE hears == Heard(n)'
           after == RepeatedIn(accepted', VotedOn(n))
<1>1. PathBacked(accepted', c.validBlock.id)
  <2>1. PathBacked(accepted, chain[n].validBlock.id)
    BY DEF VotesIInv, VotesInv
  <2> QED
    BY <2>1, PathStaysBacked
<1>2. after \in BOOLEAN
  BY DEF RepeatedIn
<1>3. Others(n)' = Others(n)
  BY DEF Others
<1>4. CASE HasQuorum(c, id)
  <2>1. /\ id # NoBlock
        /\ Len(id) = VotedOn(n)
    <3>1. NoBlock \in {NoBlock, id}
      OBVIOUS
    <3>2. Prev(id) = c.validBlock.id /\ id \in BlockId /\ id # Genesis
      BY <1>4, <3>1, ExecuteState
    <3> QED
      BY <3>2, PrevLemma, PointerAssumption, SMTT(60) DEF VotedOn
  <2>2. after => RepeatedIn(accepted', Len(id))
    BY <2>1
  <2>3. \A p \in Others(n) : id \in hears[p] => AcceptedBy(accepted', p, id)
    <3>1. \A p \in Others(n) : hears[p] = {x \in BlockId : \E k \in Nat :
                 /\ <<x, k>> \in accepted'[p] /\ Proposal(p, n, x, k) \notin network'}
      BY DEF Heard, Others
    <3>2. ASSUME NEW p \in Others(n), id \in hears[p] PROVE AcceptedBy(accepted', p, id)
      <4>1. PICK k \in Nat : <<id, k>> \in accepted'[p]
        BY <3>1, <3>2
      <4>2. <<id, k>>[1] = id
        OBVIOUS
      <4> QED
        BY <4>1, <4>2 DEF AcceptedBy
    <3> QED
      BY <3>2
  <2>4. UNLcount > 0 => AcceptedBy(accepted', n, id)
    BY <2>1
  <2>5. VotesCounted(c, Others(n), hears, after)
    OBVIOUS
  <2> HIDE DEF hears, after
  <2>6. /\ PathBacked(accepted', ExecutedChain(c, id).validBlock.id)
        /\ \A u, a : VotesCounted(ExecutedChain(c, id), Others(n), u, a)
    BY ONLY <1>1, <1>2, <1>4, <2>2, <2>3, <2>4, <2>5, UNLcount <= 5, n \in Validator,
       ChainState(c, cb, id, last), ExecutedVotesOfAll
  <2>7. chain'[n] = ExecutedChain(c, id)
    BY <1>4
  <2>8. /\ PathBacked(accepted', chain'[n].validBlock.id)
        /\ VotesCounted(chain'[n], Others(n)', Heard(n)', RepeatedIn(accepted', VotedOn(n)'))
    BY <1>3, <2>6, <2>7, Zenon
  <2> QED
    BY <2>1, <2>4, <2>8 DEF VotesInv
<1>5. CASE ~ HasQuorum(c, id)
  <2>1. chain'[n] = c
    BY <1>5
  <2>2. VotedOn(n)' = VotedOn(n)
    BY <2>1 DEF VotedOn
  <2>3. /\ PathBacked(accepted', chain'[n].validBlock.id)
        /\ VotesCounted(chain'[n], Others(n)', Heard(n)', RepeatedIn(accepted', VotedOn(n)'))
    BY <1>1, <1>3, <2>1, <2>2, Zenon
  <2> QED
    BY <2>3 DEF VotesInv
<1> QED
  BY <1>4, <1>5

\* A block is accepted once in a round: its proposals are new.
LEMMA AcceptedGrows ==
    ASSUME VotesIInv, Records, NEW n \in Validator, NEW r, NEW b \in BlockId,
           round[n].phase = "ESTABLISH", rounds'[n] = rounds[n],
           network' = network \union Reproposed(n, r) \union BlockProposals(n, b)
    PROVE  /\ Grows /\ ProposalsAccepted' /\ DOMAIN accepted' = Validator
           /\ \A p \in Others(n) : accepted'[p] = accepted[p]
           /\ \A a \in accepted'[n] : a \in accepted[n] \/ a = <<b, rounds[n]>>
           /\ UNLcount > 0 => AcceptedBy(accepted', n, b)
           /\ rounds[n] \in Nat
<1> DEFINE k0 == rounds[n]
<1>1. k0 \in Nat /\ DOMAIN accepted = Validator /\ ProposalsAccepted
      /\ \A m \in network : m.from \in Validator
  BY BoundsAssumption DEF VotesIInv, IInv, NodeInv, MessageInv
<1>2. \A x : <<x, k0>> \notin accepted[n]
  <2>1. OncePerRound(n)
    BY DEF VotesIInv, VotesInv
  <2> SUFFICES ASSUME NEW x, <<x, k0>> \in accepted[n] PROVE FALSE
    OBVIOUS
  <2>2. PICK y \in BlockId, k \in Nat : <<x, k0>> = <<y, k>> /\ k < rounds[n]
    BY <2>1 DEF OncePerRound
  <2> QED
    BY <1>1, <2>2
<1>3. \A m \in BlockProposals(n, b) :
        /\ m.type = "BLOCKPROPOSAL" /\ m.from = n /\ m.block = b /\ m.round = k0
        /\ m = Proposal(m.from, m.to, m.block, m.round)
        /\ m \notin network
  <2>1. \A m \in BlockProposals(n, b) :
          /\ m.type = "BLOCKPROPOSAL" /\ m.from = n /\ m.block = b /\ m.round = k0
          /\ m = Proposal(m.from, m.to, m.block, m.round)
    BY DEF BlockProposals, Proposal
  <2> QED
    BY <1>1, <1>2, <2>1 DEF ProposalsAccepted
<1>4. \A m \in Reproposed(n, r) : m.type # "BLOCKPROPOSAL"
  BY DEF Reproposed, TxSetProposals
<1>5. Shared(n) = BlockProposals(n, b) /\ \A p \in Others(n) : Shared(p) = {}
  BY <1>3, <1>4 DEF Shared, Others
<1>6. /\ accepted'[n] = accepted[n] \union {<<m.block, m.round>> : m \in BlockProposals(n, b)}
      /\ \A p \in Others(n) : accepted'[p] = accepted[p]
      /\ DOMAIN accepted' = Validator
  <2>1. DOMAIN accepted' = Validator /\ Others(n) \subseteq Validator
    BY DEF Records, Others
  <2>2. \A p \in Validator :
          accepted'[p] = accepted[p] \union {<<m.block, m.round>> : m \in Shared(p)}
    BY DEF Records
  <2>3. accepted'[n] = accepted[n] \union {<<m.block, m.round>> : m \in BlockProposals(n, b)}
    BY <1>5, <2>2, Zenon
  <2>4. ASSUME NEW p \in Others(n) PROVE accepted'[p] = accepted[p]
    <3>1. Shared(p) = {} /\ p \in Validator
      BY <1>5, <2>1
    <3>2. {<<m.block, m.round>> : m \in {}} = {}
      OBVIOUS
    <3>3. accepted'[p] = accepted[p] \union {<<m.block, m.round>> : m \in Shared(p)}
      BY <2>2, <3>1
    <3>4. accepted'[p] = accepted[p] \union {}
      BY <3>1, <3>2, <3>3, Zenon
    <3> QED
      BY <3>4
  <2> QED
    BY <2>1, <2>3, <2>4
<1>7. \A a \in accepted'[n] : a \in accepted[n] \/ a = <<b, k0>>
  BY <1>3, <1>6
<1>8. accepted[n] \subseteq accepted'[n]
  BY <1>6
<1>9. \A m \in BlockProposals(n, b) : <<b, k0>> \in accepted'[n]
  BY <1>3, <1>6
<1>10. UNLcount > 0 => AcceptedBy(accepted', n, b)
  <2> SUFFICES ASSUME UNLcount > 0 PROVE AcceptedBy(accepted', n, b)
    OBVIOUS
  <2>1. PICK p : p \in Validator \ {n}
    BY OthersFacts DEF Others
  <2>2. \E m : m \in BlockProposals(n, b)
    BY <2>1 DEF BlockProposals
  <2>3. <<b, k0>> \in accepted'[n] /\ <<b, k0>>[1] = b
    BY <1>9, <2>2
  <2> QED
    BY <2>3 DEF AcceptedBy
<1>11. Grows
  <2>1. \A p \in Validator : p = n \/ p \in Others(n)
    BY DEF Others
  <2>2. ASSUME NEW p \in Validator, NEW q \in Validator, NEW x \in BlockId, NEW k \in Nat,
               <<x, k>> \in accepted[p], Proposal(p, q, x, k) \notin network,
               Proposal(p, q, x, k) \in network'
        PROVE  FALSE
    <3>1. /\ Proposal(p, q, x, k).type = "BLOCKPROPOSAL" /\ Proposal(p, q, x, k).from = p
          /\ Proposal(p, q, x, k).round = k
      BY DEF Proposal
    <3>2. Proposal(p, q, x, k) \in BlockProposals(n, b)
      BY <1>4, <2>2, <3>1
    <3>3. p = n /\ k = k0
      BY <1>3, <3>1, <3>2
    <3> QED
      BY <1>2, <2>2, <3>3
  <2>3. \A p \in Validator : accepted[p] \subseteq accepted'[p]
    BY <1>6, <1>8, <2>1
  <2> QED
    BY <2>2, <2>3 DEF Grows
<1>12. ProposalsAccepted'
  <2> SUFFICES ASSUME NEW m \in network', m.type = "BLOCKPROPOSAL"
               PROVE  /\ m = Proposal(m.from, m.to, m.block, m.round)
                      /\ <<m.block, m.round>> \in accepted'[m.from]
    BY DEF ProposalsAccepted, Proposal
  <2>1. CASE m \in BlockProposals(n, b)
    BY <1>3, <1>9, <2>1
  <2>2. CASE m \in network
    BY <1>1, <1>11, <2>2 DEF ProposalsAccepted, Grows
  <2> QED
    BY <1>4, <2>1, <2>2
<1> QED
  BY <1>1, <1>6, <1>7, <1>10, <1>11, <1>12

LEMMA AcceptVotes ==
    ASSUME UNLcount <= 5, VotesIInv, IInv', Records, NEW n \in Validator, NEW r, NEW b,
           round[n].phase = "ESTABLISH", OthersWait(n), AcceptedStep(n, r, b)
    PROVE  VotesIInv'
<1> DEFINE inserted == insert(chain[n], n, b, TRUE)
           cb == [sequence |-> Sequence(b), id |-> b]
           P == Others(n)
           heard == Heard(n)
           hears == Heard(n)'
           before == RepeatedIn(accepted, VotedOn(n))
           after == RepeatedIn(accepted', VotedOn(n))
<1>1. /\ b \in BlockId /\ b # Genesis /\ Len(b) = Len(chain[n].validBlock.id) + 1
      /\ inserted.validBlock = chain[n].validBlock
      /\ ChainState(inserted, cb, b, lastExecuted[n])
      /\ AcceptedChain(n, b)
      /\ network' = network \union Reproposed(n, r) \union BlockProposals(n, b)
      /\ currBlockId'[n] = b /\ round'[n] = NewRound(b) /\ rounds'[n] = rounds[n]
  BY Zenon DEF AcceptedStep
<1>2. /\ Grows /\ ProposalsAccepted' /\ DOMAIN accepted' = Validator
      /\ \A p \in Others(n) : accepted'[p] = accepted[p]
      /\ \A a \in accepted'[n] : a \in accepted[n] \/ a = <<b, rounds[n]>>
      /\ UNLcount > 0 => AcceptedBy(accepted', n, b)
      /\ rounds[n] \in Nat
  <2>1. /\ b \in BlockId
        /\ network' = network \union Reproposed(n, r) \union BlockProposals(n, b)
        /\ rounds'[n] = rounds[n]
    BY <1>1
  <2> QED
    BY <2>1, AcceptedGrows
<1>3. ASSUME NEW p \in Others(n) PROVE VotesInv(p)'
  <2>1. p \in Validator /\ p # n
    BY DEF Others
  <2>2. OncePerRound(p)
    BY <2>1 DEF VotesIInv, VotesInv
  <2>3. OncePerRound(p)' /\ chain'[p] = chain[p] /\ currBlockId'[p] = currBlockId[p]
    BY <1>2, <2>1, <2>2 DEF OncePerRound, OthersWait
  <2> QED
    BY <1>2, <2>1, <2>3, BystanderVotes
<1>4. OncePerRound(n)'
  <2>1. OncePerRound(n)
    BY DEF VotesIInv, VotesInv
  <2>2. round'[n].phase = "OPEN"
    BY <1>1 DEF NewRound
  <2>3. ASSUME NEW a \in accepted'[n]
        PROVE  \E x \in BlockId, k \in Nat : a = <<x, k>> /\ k <= rounds'[n]
    <3>1. CASE a = <<b, rounds[n]>>
      BY <1>1, <1>2, <3>1
    <3>2. CASE a \in accepted[n]
      BY <1>1, <2>1, <3>2 DEF OncePerRound
    <3> QED
      BY <1>2, <3>1, <3>2
  <2> QED
    BY <2>2, <2>3 DEF OncePerRound
<1>5. VotesCounted(inserted, P, hears, after)
  <2>1. /\ before \in BOOLEAN /\ after \in BOOLEAN /\ (before => after)
        /\ \A p \in P : \A x \in BlockId : x \in heard[p] => x \in hears[p]
    <3>1. before \in BOOLEAN /\ after \in BOOLEAN
      BY DEF RepeatedIn
    <3> QED
      BY <1>2, <3>1, GrowsLemma
  <2>2. VotesCounted(chain[n], P, heard, before) /\ ChainInv(chain[n])
    BY DEF VotesIInv, VotesInv, IInv, NodeInv, ChainState
  <2>3. IsFiniteSet(P) /\ n \notin P
    BY OthersFacts
  <2> HIDE DEF P, heard, hears, before, after
  <2>4. VotesCounted(inserted, P, heard, before)
    <3>1. b \in BlockId /\ b # Genesis /\ Len(b) = Len(chain[n].validBlock.id) + 1
      BY <1>1
    <3> QED
      BY ONLY <2>1, <2>2, <2>3, <3>1, n \in Validator, LocalVotes
  <2>5. IsChain(inserted)
    <3> HIDE DEF inserted
    <3> QED
      BY <1>1 DEF ChainState, ChainInv
  <2> HIDE DEF inserted
  <2> QED
    BY ONLY <2>1, <2>3, <2>4, <2>5, MoreVotes
<1>6. IF HasQuorum(inserted, b) THEN chain'[n] = ExecutedChain(inserted, b)
      ELSE chain'[n] = inserted
  BY <1>1 DEF AcceptedChain
<1>7. VotesInv(n)'
  <2>1. /\ ChainState(inserted, cb, b, lastExecuted[n])
        /\ inserted.validBlock = chain[n].validBlock
        /\ currBlockId'[n] = b
        /\ b # NoBlock /\ UNLcount > 0 => AcceptedBy(accepted', n, b)
        /\ Grows
    BY <1>1, <1>2
  <2>2. VotesCounted(inserted, Others(n), Heard(n)', RepeatedIn(accepted', VotedOn(n)))
    BY <1>5
  <2> HIDE DEF inserted, cb
  <2> QED
    BY <1>4, <1>6, <2>1, <2>2, NodeVotes
<1> QED
  <2>1. \A p \in Validator : VotesInv(p)'
    BY <1>3, <1>7 DEF Others
  <2> QED
    BY <1>2, <2>1 DEF VotesIInv

\* A proposal that is received was on its way, so the block is one that its
\* sender accepted and node n has not counted yet.
LEMMA ReceiveVotes ==
    ASSUME UNLcount <= 5, VotesIInv, IInv', Records, NEW n \in Validator, NEW m \in network,
           m.type = "BLOCKPROPOSAL", m.to = n, OthersWait(n), ReceivedStep(n, m)
    PROVE  VotesIInv'
<1> DEFINE b == m.block
           q == m.from
           id == currBlockId[n]
           inserted == insert(chain[n], q, b, FALSE)
           P == Others(n)
           heard == Heard(n)
           hears == Heard(n)'
           before == RepeatedIn(accepted, VotedOn(n))
           after == RepeatedIn(accepted', VotedOn(n))
<1>1. /\ network' = network \ {m} /\ round' = round /\ rounds' = rounds
      /\ currBlockId' = currBlockId
      /\ q \in Others(n) /\ q \in Validator
      /\ \/ chain'[n] = chain[n]
         \/ /\ b \in BlockId /\ b # Genesis
            /\ Len(b) = Len(chain[n].validBlock.id) + 1
            /\ inserted.validBlock = chain[n].validBlock
            /\ ChainState(inserted, currBlock[n], id, lastExecuted[n])
            /\ IF HasQuorum(inserted, id) THEN chain'[n] = ExecutedChain(inserted, id)
               ELSE chain'[n] = inserted
  BY Zenon DEF ReceivedStep, Others
<1>2. /\ \A p \in Validator : accepted'[p] = accepted[p] /\ OncePerRound(p) /\ VotesInv(p)
      /\ DOMAIN accepted' = Validator
      /\ ProposalsAccepted /\ \A x \in network : x.from \in Validator
  <2>1. \A p : Shared(p) = {}
    BY <1>1 DEF Shared
  <2>2. DOMAIN accepted = Validator /\ ProposalsAccepted
        /\ \A p \in Validator : OncePerRound(p) /\ VotesInv(p)
    BY DEF VotesIInv, VotesInv
  <2>3. \A x \in network : x.from \in Validator
    BY DEF VotesIInv, IInv, MessageInv
  <2> QED
    BY <2>1, <2>2, <2>3 DEF Records
<1>3. Grows
  BY <1>1, <1>2 DEF Grows
<1>4. ProposalsAccepted'
  BY <1>1, <1>2 DEF ProposalsAccepted
<1>5. \A p \in Validator : OncePerRound(p)'
  BY <1>1, <1>2 DEF OncePerRound
<1>6. PICK k \in Nat : /\ b \in BlockId /\ <<b, k>> \in accepted[q]
                       /\ Proposal(q, n, b, k) = m
  <2>1. /\ m = Proposal(m.from, m.to, m.block, m.round)
        /\ <<m.block, m.round>> \in accepted[m.from]
    BY <1>2 DEF ProposalsAccepted
  <2>2. PICK x \in BlockId, j \in Nat : <<m.block, m.round>> = <<x, j>>
    BY <1>1, <1>2, <2>1 DEF OncePerRound
  <2>3. m.block = x /\ m.round = j
    BY <2>2
  <2> QED
    BY <2>1, <2>3
<1>7. b \in hears[q]
  BY <1>1, <1>2, <1>6 DEF Heard, Others
<1>8. Len(b) = VotedOn(n) => after \/ \A x \in BlockId : Len(x) = Len(b) => x \notin heard[q]
  <2> SUFFICES ASSUME Len(b) = VotedOn(n), NEW x \in BlockId, Len(x) = Len(b), x \in heard[q]
               PROVE  after
    OBVIOUS
  <2>1. PICK j \in Nat : <<x, j>> \in accepted[q] /\ Proposal(q, n, x, j) \notin network
    BY <1>1 DEF Heard
  <2>2. <<x, j>> # <<b, k>>
    <3>1. <<x, j>> = <<b, k>> => x = b /\ j = k
      OBVIOUS
    <3> HIDE DEF b, q
    <3> QED
      BY <1>6, <2>1, <3>1, Zenon
  <2>3. /\ <<x, j>> \in accepted'[q] /\ <<b, k>> \in accepted'[q]
        /\ Sequence(<<x, j>>[1]) = VotedOn(n) /\ Sequence(<<b, k>>[1]) = VotedOn(n)
    BY <1>1, <1>2, <1>6, <2>1 DEF Sequence
  <2> HIDE DEF b
  <2> QED
    BY <1>1, <2>2, <2>3 DEF RepeatedIn
<1>9. ASSUME NEW p \in Validator, chain'[p] = chain[p] PROVE VotesInv(p)'
  BY <1>1, <1>3, <1>5, <1>9, BystanderVotes
<1>10. ASSUME chain'[n] # chain[n] PROVE VotesInv(n)'
  <2>1. /\ b \in BlockId /\ b # Genesis
        /\ Len(b) = Len(chain[n].validBlock.id) + 1
        /\ inserted.validBlock = chain[n].validBlock
        /\ ChainState(inserted, currBlock[n], id, lastExecuted[n])
        /\ IF HasQuorum(inserted, id) THEN chain'[n] = ExecutedChain(inserted, id)
           ELSE chain'[n] = inserted
    BY <1>1, <1>10
  <2>2. /\ before \in BOOLEAN /\ after \in BOOLEAN /\ (before => after)
        /\ \A p \in P : \A x \in BlockId : x \in heard[p] => x \in hears[p]
    <3>1. before \in BOOLEAN /\ after \in BOOLEAN
      BY DEF RepeatedIn
    <3> QED
      BY <1>3, <3>1, GrowsLemma
  <2>3. VotesCounted(chain[n], P, heard, before) /\ ChainInv(chain[n])
    BY DEF VotesIInv, VotesInv, IInv, NodeInv, ChainState
  <2>4. P \in SUBSET Validator /\ q \in P
    BY <1>1, OthersFacts
  <2>5. after \/ \A x \in BlockId : Len(x) = Len(b) => x \notin heard[q]
    BY <1>8, <2>1 DEF VotedOn
  <2>6. VotesCounted(inserted, P, hears, after)
    <3>1. b \in BlockId /\ b # Genesis /\ Len(b) = Len(chain[n].validBlock.id) + 1
      BY <2>1
    <3> HIDE DEF P, heard, hears, before, after, b, q
    <3> QED
      BY ONLY <1>7, <2>2, <2>3, <2>4, <2>5, <3>1, PeerVotes
  <2>7. currBlockId'[n] = id /\ (id # NoBlock /\ UNLcount > 0 => AcceptedBy(accepted', n, id))
    BY <1>1, <1>2 DEF VotesInv, AcceptedBy
  <2>8. VotesCounted(inserted, Others(n), Heard(n)', RepeatedIn(accepted', VotedOn(n)))
    BY <2>6
  <2> HIDE DEF inserted, id, b, q
  <2> QED
    BY <1>3, <1>5, <2>1, <2>7, <2>8, NodeVotes
<1>11. ASSUME NEW p \in Others(n) PROVE VotesInv(p)'
  BY <1>9 DEF OthersWait, Others
<1> QED
  <2>1. \A p \in Validator : VotesInv(p)'
    BY <1>9, <1>10, <1>11 DEF Others
  <2> QED
    BY <1>2, <1>4, <2>1 DEF VotesIInv

\* The steps that leave the chain and the block proposals alone.
LEMMA QuietSteps ==
    ASSUME IInv, NEW n \in Validator,
           \/ \E tx \in Tx : AddTransaction(n, tx)
           \/ BeginRound(n)
           \/ CloseBlock(n)
           \/ \E m \in network : ReceiveTxSetProposal(n, m)
    PROVE  Quiet(n)
<1>1. EveryNode /\ rounds[n] \in Nat /\ RoundInv(round[n])
  BY BoundsAssumption DEF IInv, NodeInv, RoundState
<1>2. CASE \E tx \in Tx : AddTransaction(n, tx)
  BY <1>1, <1>2 DEF AddTransaction, Quiet
<1>3. CASE BeginRound(n)
  <2>1. round'[n].phase = "OPEN"
    BY <1>1, <1>3 DEF BeginRound, EveryNode, NewRound
  <2> QED
    BY <1>1, <1>3, <2>1 DEF BeginRound, Quiet
<1>4. CASE CloseBlock(n)
  <2>1. /\ UNCHANGED <<chain, currBlockId>>
        /\ rounds' = [rounds EXCEPT ![n] = rounds[n] + 1]
        /\ network' = network \union TxSetProposals(n, round'[n])
    BY <1>4 DEF CloseBlock
  <2>2. \A m \in TxSetProposals(n, round'[n]) : m.type # "BLOCKPROPOSAL"
    BY DEF TxSetProposals
  <2>3. rounds'[n] = rounds[n] + 1
    BY <1>1, <2>1 DEF EveryNode
  <2> QED
    BY <1>1, <2>1, <2>2, <2>3 DEF Quiet
<1>5. ASSUME NEW m \in network, ReceiveTxSetProposal(n, m) PROVE Quiet(n)
  <2>1. /\ UNCHANGED <<chain, currBlockId, rounds>> /\ network' = network \ {m}
        /\ m.txSet \in TxSet /\ m.from \in Validator
    BY <1>5 DEF ReceiveTxSetProposal, IInv, MessageInv
  <2>0. PICK kept \in Checked(m.txSet, txPool[n]) :
           \E diff \in Differences(round[n].txns, kept) :
              round' = [round EXCEPT ![n] = gotTxSet(round[n], m.from, m, kept, diff)]
    BY <1>5 DEF ReceiveTxSetProposal
  <2>2. PICK diff \in Differences(round[n].txns, kept) :
           round' = [round EXCEPT ![n] = gotTxSet(round[n], m.from, m, kept, diff)]
    BY <2>0
  <2>3. kept \in TxSet /\ diff \in SUBSET Tx
    <3>1. round[n].txns \in TxSet
      BY <1>1 DEF RoundInv, IsRound
    <3> QED
      BY <2>1, <3>1, KeptFacts
  <2>4. gotTxSet(round[n], m.from, m, kept, diff).phase = round[n].phase
    BY <1>1, <2>1, <2>3, GotTxSetInv
  <2>5. round'[n] = gotTxSet(round[n], m.from, m, kept, diff)
    BY <1>1, <2>2, Zenon DEF EveryNode
  <2> QED
    BY <1>1, <2>1, <2>4, <2>5 DEF Quiet
<1> QED
  BY <1>2, <1>3, <1>4, <1>5

\* A tick of the establish phase.
LEMMA EstablishVotes ==
    ASSUME UNLcount <= 5, VotesIInv, IInv', Records, NEW n \in Validator,
           NEW stale \in SUBSET DOMAIN round[n].currPeerProposals,
           NEW staleSets, NEW converge \in Stage, Establish(n, stale, staleSets, converge)
    PROVE  VotesIInv'
<1> DEFINE r == updateProposals(round[n], stale, staleSets, converge)
<1>1. /\ Awake(n) /\ OnPreferred(n) /\ round[n].phase = "ESTABLISH"
      /\ UpdateProposals(n, r) \/ AcceptBlock(n, r)
  BY Zenon DEF Establish
<1>2. \E s : s = r
  OBVIOUS
<1> HIDE DEF r
<1>3. PICK s : s = r
  BY <1>2
<1>4. s = updateProposals(round[n], stale, staleSets, converge)
  BY <1>3, Zenon DEF r
<1>5. UpdateProposals(n, s) \/ AcceptBlock(n, s)
  BY <1>1, <1>3, Zenon
<1>6. IInv
  BY DEF VotesIInv
<1>7. CASE AcceptBlock(n, s)
  <2>1. /\ NodeStep(n)
        /\ AcceptedStep(n, s, Proposed(s.prevBlockId, s.txns))
    BY <1>1, <1>4, <1>6, <1>7, AcceptBlockStep
  <2>2. OthersWait(n)
    BY <2>1 DEF NodeStep
  <2> QED
    BY <1>1, <2>1, <2>2, AcceptVotes
<1>8. CASE UpdateProposals(n, s)
  <2>1. OthersWait(n)
    BY <1>1, <1>4, <1>6, <1>8, UpdateStep DEF NodeStep
  <2>2. /\ UNCHANGED <<chain, currBlockId, rounds>>
        /\ network' = network \union Reproposed(n, s)
    BY <1>8 DEF UpdateProposals
  <2>3. \A m \in Reproposed(n, s) : m.type # "BLOCKPROPOSAL"
    BY DEF Reproposed, TxSetProposals
  <2>4. rounds[n] \in Nat
    BY <1>6, BoundsAssumption DEF IInv, NodeInv
  <2>5. Quiet(n)
    BY <1>1, <2>2, <2>3, <2>4 DEF Quiet
  <2> QED
    BY <2>1, <2>5, QuietVotes
<1> QED
  BY <1>5, <1>7, <1>8

LEMMA VotesStep ==
    ASSUME UNLcount <= 5, VotesIInv, VotesNext
    PROVE  VotesIInv'
<1>1. IInv /\ Records
  BY DEF VotesIInv, VotesNext, Records, Shared
<1>2. IInv'
  BY <1>1, EveryStep DEF VotesNext
<1>3. PICK n \in Validator :
        \/ \E tx \in Tx : AddTransaction(n, tx)
        \/ BeginRound(n)
        \/ CloseBlock(n)
        \/ \E stale \in Expired(DOMAIN round[n].currPeerProposals),
              staleSets \in Expired(DOMAIN round[n].acquiredSets), converge \in Stage :
                Establish(n, stale, staleSets, converge)
        \/ Receive(n)
  BY DEF VotesNext, Next
<1>4. ASSUME NodeStep(n), Quiet(n) PROVE VotesIInv'
  BY <1>1, <1>2, <1>4, QuietVotes DEF NodeStep
<1>5. CASE \E tx \in Tx : AddTransaction(n, tx)
  BY <1>1, <1>4, <1>5, QuietSteps, AddTransactionStep
<1>6. CASE BeginRound(n)
  BY <1>1, <1>4, <1>6, QuietSteps, BeginRoundStep
<1>7. CASE CloseBlock(n)
  BY <1>1, <1>4, <1>7, QuietSteps, CloseBlockStep
<1>8. ASSUME NEW stale \in Expired(DOMAIN round[n].currPeerProposals),
             NEW staleSets \in Expired(DOMAIN round[n].acquiredSets), NEW converge \in Stage,
             Establish(n, stale, staleSets, converge)
      PROVE  VotesIInv'
  <2>1. stale \in SUBSET DOMAIN round[n].currPeerProposals
    BY DEF Expired
  <2> QED
    BY <1>1, <1>2, <1>8, <2>1, EstablishVotes
<1>9. CASE Receive(n)
  <2>1. PICK m \in network : /\ m.to = n
                             /\ ReceiveTxSetProposal(n, m) \/ ReceiveBlockProposal(n, m)
    BY <1>9 DEF Receive
  <2>2. CASE ReceiveTxSetProposal(n, m)
    BY <1>1, <1>4, <2>2, QuietSteps, ReceiveTxSetStep
  <2>3. CASE ReceiveBlockProposal(n, m)
    <3>1. m.type = "BLOCKPROPOSAL"
      BY <2>3 DEF ReceiveBlockProposal
    <3>2. NodeStep(n) /\ ReceivedStep(n, m)
      BY <1>1, <1>9, <2>1, <2>3, ReceiveBlockStep DEF Receive
    <3> QED
      BY <1>1, <1>2, <2>1, <3>1, <3>2, ReceiveVotes DEF NodeStep
  <2> QED
    BY <2>1, <2>2, <2>3
<1> QED
  BY <1>3, <1>5, <1>6, <1>7, <1>8, <1>9

LEMMA VotesStart ==
    ASSUME VotesInit
    PROVE  VotesIInv
<1>1. IInv /\ network = {} /\ DOMAIN accepted = Validator
      /\ \A n \in Validator : accepted[n] = {} /\ chain[n] = NewChain /\ currBlockId[n] = NoBlock
  <2>1. IInv
    BY InitInv DEF VotesInit
  <2> QED
    BY <2>1 DEF VotesInit, Init
<1>2. ASSUME NEW n \in Validator PROVE VotesInv(n)
  <2>1. VotesCounted(NewChain, Others(n), Heard(n), RepeatedIn(accepted, VotedOn(n)))
    BY NewVotes
  <2>2. chain[n] = NewChain /\ OncePerRound(n) /\ currBlockId[n] = NoBlock
    BY <1>1 DEF OncePerRound
  <2>3. PathBacked(accepted, chain[n].validBlock.id)
    <3>1. Len(chain[n].validBlock.id) = 0
      BY <2>2 DEF NewChain, Genesis
    <3> QED
      BY <3>1 DEF PathBacked
  <2>4. VotesCounted(chain[n], Others(n), Heard(n), RepeatedIn(accepted, VotedOn(n)))
    BY <2>1, <2>2, Zenon
  <2> QED
    BY <2>2, <2>3, <2>4 DEF VotesInv
<1> QED
  BY <1>1, <1>2 DEF VotesIInv, ProposalsAccepted

\* With up to five validators on the UNL a block is valid at a node only after
\* every validator, that node included, accepted and proposed it in onAccept;
\* once a node accepted two blocks for one sequence that is said no more, as
\* checkQuorum may count its support twice.  (With six or more, five of six
\* proposals are a quorum.)
THEOREM AcceptedByAll ==
    ASSUME UNLcount <= 5
    PROVE  VotesSpec => []ValidBlocksWereAcceptedByAll
<1>1. VotesInit => VotesIInv
  BY VotesStart
<1>2. VotesIInv /\ [VotesNext]_votesVars => VotesIInv'
  <2>1. CASE VotesNext
    BY <2>1, UNLcount <= 5, VotesStep
  <2>2. CASE UNCHANGED votesVars
    <3>1. /\ chain' = chain /\ round' = round /\ rounds' = rounds /\ network' = network
          /\ currBlockId' = currBlockId /\ accepted' = accepted /\ UNCHANGED vars
      BY <2>2 DEF votesVars, vars
    <3>2. ASSUME VotesIInv PROVE IInv'
      BY <3>1, <3>2, EveryStep DEF VotesIInv
    <3>3. \A n \in Validator : VotesInv(n)' <=> VotesInv(n)
      BY <3>1, ZenonT(60) DEF VotesInv, OncePerRound, Heard, VotedOn
    <3>4. ProposalsAccepted' <=> ProposalsAccepted
      BY <3>1, Zenon DEF ProposalsAccepted
    <3> QED
      BY <3>1, <3>2, <3>3, <3>4 DEF VotesIInv
  <2> QED
    BY <2>1, <2>2
<1>3. VotesIInv => ValidBlocksWereAcceptedByAll
  BY BackedIsAccepted DEF VotesIInv, VotesInv
<1> QED
  BY <1>1, <1>2, <1>3, PTL DEF VotesSpec
=============================================================================
