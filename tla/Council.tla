-------------------------------- MODULE Council --------------------------------
(***************************************************************************)
(* ImpactMarketCouncilImplementation.sol: members, whom the owner appoints,    *)
(* vote on proposals to the administration of communities.  A proposal         *)
(* succeeds, and voting on it closes, as soon as it has the quorum; the owner   *)
(* may change the quorum and the members at any time.                         *)
(***************************************************************************)
EXTENDS Integers, Sequences, FiniteSets

CONSTANTS
  Candidates,        \* accounts that may become members
  FirstMembers,      \* the members the council begins with
  FirstQuorum,       \* the quorum it begins with
  Quorums,           \* bound of the model: what the owner may set the quorum to
  MaxVotingPeriod,   \* MAX_VOTING_PERIOD
  MaxCouncilBlock,   \* bound of the model: the last block
  MaxCouncilProposals\* bound of the model: proposals that are ever made

ASSUME CouncilAssumption ==
  /\ FirstMembers \subseteq Candidates
  /\ FirstQuorum \in Nat \ {0} /\ FirstQuorum <= Cardinality(FirstMembers)
  /\ Quorums \subseteq Nat \ {0}
  /\ MaxVotingPeriod \in Nat /\ MaxCouncilBlock \in Nat /\ MaxCouncilProposals \in Nat

VARIABLES
  members, quorumVotes,
  proposals,        \* the proposals by id: the first has the id 1, after a dummy
  proposalReceipts, \* who voted on which, and how
  councilBlock,
  quorums         \* not in the code: every quorum there was

councilVars == <<members, quorumVotes, proposals, proposalReceipts, councilBlock, quorums>>

CouncilInit ==
  /\ members = FirstMembers /\ quorumVotes = FirstQuorum /\ quorums = {FirstQuorum}
  /\ proposals = << >> /\ proposalReceipts = {} /\ councilBlock = 0

\* state
ProposalState(id) ==
  LET p == proposals[id]
  IN CASE p.canceled -> "Canceled"
       [] ~p.canceled /\ p.executed -> "Executed"
       [] ~p.canceled /\ ~p.executed /\ councilBlock > p.endBlock -> "Expired"
       [] OTHER -> IF p.forVotes > p.againstVotes /\ p.forVotes >= quorumVotes
                   THEN "Succeeded" ELSE "Active"

(***************************************************************************)
(* The owner.                                                               *)
(***************************************************************************)
SetMembers(new) ==
  /\ members' = new
  /\ UNCHANGED <<quorumVotes, proposals, proposalReceipts, councilBlock, quorums>>
AddMember(m) == m \notin members /\ SetMembers(members \cup {m})
RemoveMember(m) == m \in members /\ SetMembers(members \ {m})

\* A quorum may be more than there are members.
SetQuorumVotes(new) ==
  /\ new # quorumVotes
  /\ quorumVotes' = new /\ quorums' = quorums \cup {new}
  /\ UNCHANGED <<members, proposals, proposalReceipts, councilBlock>>

(***************************************************************************)
(* The members.                                                             *)
(***************************************************************************)
Propose(m) ==
  /\ m \in members /\ Len(proposals) < MaxCouncilProposals
  /\ proposals' = Append(proposals,
       [proposer |-> m, endBlock |-> councilBlock + MaxVotingPeriod, forVotes |-> 0,
        againstVotes |-> 0, abstainVotes |-> 0, canceled |-> FALSE, executed |-> FALSE])
  /\ UNCHANGED <<members, quorumVotes, proposalReceipts, councilBlock, quorums>>

HasVoted(m, id) == \E r \in proposalReceipts : r.voter = m /\ r.id = id

Count(m, id, support) ==
  /\ proposals' = [proposals EXCEPT ![id][support] = @ + 1]
  /\ proposalReceipts' = proposalReceipts \cup {[voter |-> m, id |-> id, support |-> support]}
  /\ UNCHANGED <<members, quorumVotes, councilBlock, quorums>>

\* Mutant: voting goes on when the proposal has succeeded.
CastLateVote(m, id, support) ==
  /\ m \in members /\ ProposalState(id) \in {"Active", "Succeeded"} /\ ~HasVoted(m, id)
  /\ Count(m, id, support)
CastVote(m, id, support) ==
  /\ m \in members /\ ProposalState(id) = "Active" /\ ~HasVoted(m, id)
  /\ Count(m, id, support)

Settle(id, how) ==
  /\ proposals' = [proposals EXCEPT ![id][how] = TRUE]
  /\ UNCHANGED <<members, quorumVotes, proposalReceipts, councilBlock, quorums>>

\* By any member; when a call fails, nothing happens.
ExecuteProposal(m, id) == m \in members /\ ProposalState(id) = "Succeeded" /\ Settle(id, "executed")

\* By the proposer, while a member; an expired or canceled proposal, too.
CancelProposal(m, id) ==
  /\ m \in members /\ m = proposals[id].proposer /\ ProposalState(id) # "Executed"
  /\ Settle(id, "canceled")

NextCouncilBlock ==
  /\ councilBlock < MaxCouncilBlock
  /\ councilBlock' = councilBlock + 1
  /\ UNCHANGED <<members, quorumVotes, proposals, proposalReceipts, quorums>>

Supports == {"forVotes", "againstVotes", "abstainVotes"}

CouncilNext ==
  \/ \E m \in Candidates : AddMember(m) \/ RemoveMember(m) \/ Propose(m)
  \/ \E q \in Quorums : SetQuorumVotes(q)
  \/ \E m \in Candidates, id \in DOMAIN proposals :
       \/ ExecuteProposal(m, id) \/ CancelProposal(m, id)
       \/ \E support \in Supports : CastVote(m, id, support)
  \/ NextCouncilBlock

CouncilSpec == CouncilInit /\ [][CouncilNext]_councilVars

(***************************************************************************)
(* Property.                                                                *)
(***************************************************************************)
Votes(id, support) == {r \in proposalReceipts : r.id = id /\ r.support = support}

\* However members go and come back and the quorum is changed while proposals are open:
\* every account counts once, in one way; voting stops at the first vote that gives a
\* majority and the quorum, so that no proposal has more votes than some quorum there
\* was, or one more than are against; and what was executed still has the majority and
\* as many votes as some quorum asked for.
CouncilDecidesByQuorum ==
  /\ \A r1, r2 \in proposalReceipts : r1.voter = r2.voter /\ r1.id = r2.id => r1 = r2
  /\ \A id \in DOMAIN proposals : LET p == proposals[id] IN
       /\ \A s \in Supports : p[s] = Cardinality(Votes(id, s))
       /\ p.forVotes <= p.againstVotes + 1 \/ \E q \in quorums : p.forVotes <= q
       /\ p.executed => p.forVotes > p.againstVotes /\ \E q \in quorums : p.forVotes >= q
=============================================================================
