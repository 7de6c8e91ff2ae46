--------------------------- MODULE ConsensusVotes ---------------------------
(***************************************************************************)
(* Consensus with a record of the blocks every node accepted: onAccept is  *)
(* the only place that shares a block proposal.                            *)
(***************************************************************************)
EXTENDS Consensus

VARIABLE accepted       \* node -> its block proposals so far: <<block, round>>

votesVars == <<vars, accepted>>

VotesInit == Init /\ accepted = [n \in Validator |-> {}]

VotesNext ==
    /\ Next
    /\ accepted' = [n \in Validator |->
                      accepted[n] \union
                        {<<m.block, m.round>> : m \in
                           {m \in network' \ network :
                              m.type = "BLOCKPROPOSAL" /\ m.from = n}}]

VotesSpec == VotesInit /\ [][VotesNext]_votesVars

\* Some node accepted twice for a sequence, the same block or two.
Repeated(seq) ==
    \E n \in Validator : \E a, b \in accepted[n] :
        a # b /\ Sequence(a[1]) = seq /\ Sequence(b[1]) = seq

\* A block is valid only after 80 % of the validators on the UNL, which is all
\* of them up to five, proposed it, as did the node itself: the supports that
\* proposals gave and took, many messages ago, add up to what they say.  With
\* one validator on the UNL that is so however often a block is accepted; with
\* more, checkQuorum may count one of them twice once a round is repeated.
ValidBlocksWereAcceptedByAll ==
    \A n, m \in Validator : \A i \in 1 .. Len(ValidBlock(n)) :
        LET b == SubSeq(ValidBlock(n), 1, i)
        IN  \/ UNLcount > 1 /\ Repeated(i)
            \/ \E a \in accepted[m] : a[1] = Proposed(Prev(b), b[i].tx)
=============================================================================
